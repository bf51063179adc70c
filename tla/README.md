# ZipCache: TLA+ models

This directory holds TLA+ models of ZipCache, the multi-tier key-value cache in
`src/`. Each module models part of the C code, and TLC checks it with the configs here.
`PROJECT.json` holds the following:

- which definition models which lines (`map`);
- the runs;
- the mutants that show each property can fail;
- the findings;
- the hazards the models aim at.

## The system

ZipCache routes each object by its size. It stores a 64-bit pointer as the value.

| Part | Source | State | Operations |
|------|--------|-------|------------|
| Tier router | `src/zipcache.c` `zipcache_put/get/delete`, `zipcache_route_put`, `zipcache_coordinated_read`, `zipcache_set_thresholds` | thresholds, `memory_used`, statistics, `cache_lock`, `stats_lock` | classify (outside the lock), route, read DRAM then LO then SSD, invalidate stale tiers, delete from every tier, reset the statistics |
| Large-object file | `zipcache_write_large_object`, `zipcache_read_large_object` | `ssd_fd`, `ssd_offset` (append cursor) | 4 KiB-aligned append with a checksum; read with a length check and a checksum check |
| Eviction thread | `eviction_thread_func`, `zipcache_evict_cold_pages` | `clock_hand`, `access_bits`, `stats.memory_used` | every second, if usage is at least 90%, scan the clock under `cache_lock` and free 10% |
| DRAM compressed tree | `src/DRAM-tier/lib/bplustree_compressed.c` | base tree, per-leaf write buffers, work queue, flusher thread, `rwlock` | buffered put, get, delete, background and synchronous flushes, (de)compression |
| LO tree | `src/LO-tier/lib/bplustree_lo.c` | node pool, root | put, get, delete, leaf and internal splits |
| SSD tree | `src/SSD-tier/lib/bplustree.c` | super-leaves of hashed 4 KiB sub-pages, block allocator | insert, search, delete, super-leaf split, allocation |

How the parts interact:

- **Small objects** (TINY and MEDIUM) go to `bt_dram`, through the base B+tree API `bplus_tree_put/get`. The router passes `(long)value` (`zipcache.c:311`), and spec §9 gives that tree `long` values, so the tree holds the pointer itself. The router never calls the compressed tree's own `bplus_tree_compressed_*` functions; that layer is a separate component with its own module.
- **LARGE objects** are appended to the large-object file, and their descriptor goes into the LO tree. The DRAM tree gets the tombstone `0xDEADBEEF` for the key.
- **A GET** tries the tiers in the order DRAM, then LO, then SSD. The router never writes to the SSD tree, so `SSDTree` is checked on its own, through `bplus_tree_ssd_put/get`. The spec calls the SSD tier the home of MEDIUM objects, but the code keeps them in DRAM.

The code has these hard behaviours:

- two threads interleave (clients and the eviction thread);
- the thresholds are read outside the lock;
- the DRAM tree's background flusher runs without the tree lock;
- I/O can fail partway through;
- the statistics lock and the cache lock guard the same counter.

## Modules

### `ZipCacheRouter.tla` (router, large-object file, eviction)

**Variables**

| Variable | Models |
|----------|--------|
| `tiny_threshold`, `medium_threshold` | the thresholds in the `ZipCache` struct |
| `dram` | the DRAM tree's contents per key, as its contract in spec §4.G gives it. That tree's base code is not in `src/`, so this part is spec_modelled. |
| `lo` | the LO tree's contents per key: descriptors `[lba, size, sum]` |
| `extents`, `ssd_offset` | the large-object file and its cursor. Each extent records whether its bytes are still intact. |
| `memory_used`, `clock_hand` | the fields of the same name |
| `ev_pc` | where the eviction thread is: `check`, `evict`, or `exited` once it has returned |
| `shutdown_flag` | `cache->shutdown_flag` |
| `pc`, `req`, `ret` | each client's position in a call; `destroying` and `destroyed` are positions inside `zipcache_destroy` |
| `calls` | a bound on the total number of calls |
| `latest` | history: what the last successful PUT or DELETE of each key wrote. It is used only by the properties. |

**Values.** A value is a C `long` held as `<<hi, lo>>`. The DRAM base tree stores it whole: spec §9 gives that tree `long` values, and `zipcache_route_put` passes `(long)value`. `0` means "deleted" (spec §4.G), and `zipcache_put` refuses a NULL value. The tombstone `(long)0xDEADBEEF` is `<<0, -559038737>>`, which is a positive `long`. The `int` prototypes in `bplustree_compressed.h` belong to the compressed layer, which the router does not call, so the model does not assume them.

**Actions.** Each client operation is split at `cache_lock`, the one point where another thread can observe it:

- `zipcache_put` validates the size and classifies the object before the lock, as the code does at `zipcache.c:404`.
- The locked part is split into the following actions, one per outcome of `zipcache_route_put`:

| Action | Outcome |
|--------|---------|
| `route_put_dram` | DRAM store; `memory_used` grows by the size, with no capacity check |
| `route_put_large` | large write succeeds |
| `route_put_large_io_error` | device full or short write |

- `zipcache_get`, `zipcache_delete` and `zipcache_set_thresholds` each run under the lock in one step.
- `zipcache_reset_stats` zeroes `memory_used` under `stats_lock` only, so it can run in the middle of an eviction pass (between the thread's check and its scan).
- `disk_corrupt` damages an extent. It is enabled only with `DiskFaults`. No GET reaches the damaged bytes: the DRAM tombstone answers first (finding 1).

**The eviction thread**

- `eviction_check` reads `zipcache_needs_eviction` without the lock.
- `zipcache_evict_cold_pages` does the scan under the lock.
- `eviction_sleep` is the loop's idle iteration.
- `eviction_exit` is the loop test seeing `shutdown_flag` set: the thread returns.

**Shutdown.** `zipcache_destroy` is two actions:

- `zipcache_destroy` sets `shutdown_flag` and waits in `pthread_join`. The header allows it only when no other call runs, so it needs every client idle, and no call starts after it.
- `zipcache_destroy_join` returns from the join once the thread has exited; the teardown after it changes nothing the model keeps.
- `destroyed` is the process going on without the cache, so the end is not a deadlock.

**How the scan is modelled**

- `EvictCold` gives the result of the page loop of `zipcache_evict_cold_pages` in closed form. The code never sets an access bit, so every page the hand passes is freed. The loop stops after the target's pages or after two turns of the clock. It lowers `memory_used` by 4096 per page, but never below zero (`zipcache.c:946`).
- A closed form keeps the liveness runs tractable. A recursive operator evaluated in an action under fairness costs exponentially more as its depth grows.

### `CompressedTree.tla` (DRAM compressed tree around one leaf)

This module models `src/DRAM-tier/lib/bplustree_compressed.c` around one hashed leaf. The base tree under it is not in `src/`. Its contract (spec §4.G) is a map from key to value: 0 marks a deleted key, and -1 is a miss. That part is spec_modelled.

| Variable | Models |
|----------|--------|
| `leaf`, `is_compressed`, `image` | the leaf's arrays, `leaf_metadata[idx].is_compressed`, and the compressed image in `compressed_data` |
| `buffer`, `dirty` | the leaf's `writing_buffer`: its entries, as a sequence, and its dirty flag |
| `queue` | `work_queue.count` |
| `writer`, `readers` | the holders of `ct_tree->rwlock` |
| `fpc`, `shutdown_flag`, `owner` | the background thread's position, the shutdown flag, and the thread in `bplus_tree_compressed_deinit` |
| `pc`, `op`, `ret`, `calls` | each caller's position, arguments and result, and the call bound |
| `latest` | history: the last value written to each key |
| `lazy` | `ct_tree->config.enable_lazy_compression` |

**Actions.** Each step of a call that another thread can observe is an action:

- `bplus_tree_compressed_put`, `_delete` and `_get` start a call.
- A put ends in one of these actions:
  - `put_buffered`: the record is added to the buffer;
  - `put_buffer_full`: the buffer is full;
  - `put_enqueue`: the leaf is queued for the flusher;
  - `put_sync_flush` / `put_sync_flush_skipped`: the synchronous flush;
  - `put_unbuffered`: the put is not buffered and goes to the direct insertion;
  - `put_direct` / `put_direct_no_decompress`: the direct insertion under the write lock.
- A get is `get_lock` followed by `get_read`.
- The flusher thread is `fl_dequeue`, `fl_dequeue_no_wait`, `fl_check`, `fl_flush` and `fl_exit`.
- Deinit is `deinit_signal`, `deinit_flush_all` and `destroyed`.
- `bplus_tree_compressed_flush_all_buffers`, called by a client, is `flush_all_check` (it returns when nothing is buffered) and `flush_all_body`. Neither takes the `rwlock`.
- `bplus_tree_compressed_set_config` replaces the config, lazy flag included, with no lock.

**The lazy flag.** `lazy` is `config.enable_lazy_compression`. `Init` draws it from `LazyModes`, and the flusher thread exists (`fpc # "none"`) only when it is set, as in `bplus_tree_compressed_init`.

- A put buffers only while `Buffered` holds: the leaf exists and `lazy` is set. Otherwise `put_unbuffered` goes straight to the direct insertion. An empty tree has a NULL root, so the first put is always direct.
- `Recompress` compresses only in lazy mode.
- `deinit_signal` sets the flag, and `deinit_flush_all` waits for the join, only in lazy mode.
- With `ConfigToggles` FALSE, `set_config` only writes back the current flag. No caller in `src/` changes it. With `ConfigToggles` TRUE, TLC finds a three-step counterexample to `FlusherLifecycle`: init without lazy, turn lazy on, then put. The put enqueues work for a thread that was never created, and deinit later joins a thread that does not exist. This is listed as a hazard.

`FlushOutcomes` models `flush_buffer_to_leaf` by its outcomes. The buffer is applied with `ApplyBuffer`. The leaf is decompressed first and recompressed after. With `CodecFaults`, either codec step may fail.

### `HashedLeaf.tla` (the compressed tree's hashed leaf layout)

`CompressedTree` abstracts a leaf to a key-to-value map. `HashedLeaf` keeps the leaf's arrays to check the layout that `flush_to_hashed_leaf` (`bplustree_compressed.c:260-313`) writes into them.

- **State.** `leaf` holds the `key` and `data` arrays, `entries`, and two flags: `oob`, set when a slot range falls outside the arrays, and `split`, set when the base put would split the leaf. `buffer` holds the write buffer, and `calls` bounds the calls.
- **Hashing.** `hash_key_to_sub_page` is `key % NUM_SUB_PAGES` with C's truncating remainder (`CRem`), so a negative key gives a negative sub-page.
- **Flushing.** `FlushRecord` models one buffered record:
  - it updates the key if it is in the record's slot range;
  - otherwise it writes the key into the first slot holding 0 and raises `entries` past that slot;
  - otherwise it falls back to the base tree's sorted `bplus_tree_put`.

  `flush_to_hashed_leaf` folds `FlushRecord` over the buffer.
- **The base put.** `BasePut` is the base tree's sorted insert. That code is not in `src/`, so it is spec_modelled.
- **Actions.** `put_first`, `put_buffered`, `put_buffer_full` and `background_flush`.
- **The property.** `LeafWellFormed` states what every base-tree function that searches the leaf assumes: the slots in use are in increasing key order, and no write fell outside them.

### `LOTree.tla`, `LOMap.tla`, `KeySearch.tla` (large-object index)

`LOTree` models `src/LO-tier/lib/bplustree_lo.c`.

- **State.** The tree lives in a pool of nodes. Each node has a type, a key array, a data array, a `sub_ptr` array and a parent. The tree also has `root`, `level`, `entries` and the leaf list `list[0]` (`chain`).
- **Atomic calls.** `zipcache.c` calls the tree only under `cache_lock`, so each `bplus_tree_lo_put` and `bplus_tree_lo_delete` is one action. Each action performs every function the call runs: `leaf_insert`, `leaf_split_left`/`_right`, `non_leaf_insert`, `non_leaf_simple_insert`, `parent_node_build`, the new root, and `leaf_remove`.
- **C functions as operators.** Each C function is an operator from the whole tree record to the new record.
- **Failed asserts.** A failed `assert()` sets `assert_failed`. The process has aborted, so no step follows.
- **Refinement.** `LOMap` is what the index promises `zipcache.c`: a map from key to descriptor. `LOTree` refines it through `lookup`, which holds what `bplus_tree_lo_get` returns for every key, and `last_call`, a history variable.
- **Binary search.** `KeySearch` is `key_binary_search`, shared by the LO and SSD trees. The recursive loop is checked against a counting reference.

### `SSDTree.tla` (SSD hybrid tree, allocator, disk)

`SSDTree` models `src/SSD-tier/lib/bplustree.c` as driven by `bplus_tree_ssd_put` and `bplus_tree_ssd_get`.

**State**

- The block allocator: `bitmap`, `allocated_blocks` and `next_search_hint`.
- The disk file, as a function from block to sub-page.
- The live super-leaves, with these fields of each: `total_entries`, `active_sub_pages`, `sub_page_blocks`, the cached pages and the dirty flags.
- The root: `key`, `sub_ptr` and `level`.
- `lookup` and `last_call`, used for the refinement to `LOMap`.
- `closed`: `bplus_tree_ssd_deinit` has run.

**Actions.** Each call is one action that runs the whole C call chain as operators on the tree record:

- the hashed sub-page load, insert and search;
- on the -2 result, the split: `consolidate_and_sort_pairs`, `redistribute_pairs_hashed`, block allocation for the sibling, and the write-back of both super-leaves;
- then `update_parent_with_promoted_key` and the recursive retry.

- `bplus_tree_ssd_deinit` flushes every child of the root with `super_leaf_flush_dirty`, ignores the results and frees the memory. After it, `closed_tree` lets the program go on without the tree.

**I/O faults.** The constant `FaultyBlocks` names the blocks whose `pread` or `pwrite` may come up short. Each put and each deinit chooses, with `\E F \in IOFaultSets`, whether those blocks fail during the call:

- a failed `disk_read_sub_page` returns NULL, so the load fails, the search and insert return -1, and `split_super_leaf` leaves that sub-page out of the consolidation;
- a failed `disk_write_sub_page` leaves the block as it was, and `super_leaf_flush_dirty` keeps the page dirty.

A get whose read fails returns -1 and changes nothing, which is a stuttering step, so gets use a healthy disk. `lookup` is what a get on a healthy disk would return.

`hash_key_to_sub_page` is the exact 32-bit multiplicative hash, computed with `Bitwise` on 16-bit halves. `allocate_block` scans the bitmap from the hint.

### `SSDSuperLeaf.tla` and `MC_SSDPrograms.tla` (the SSD tier's two programs)

`SSDSuperLeaf` extends `SSDTree` and drives a single super-leaf the way `hashed_io_test.c` does: `disk_manager_init`, `super_leaf_create`, then `super_leaf_insert_hashed`, `super_leaf_search_hashed`, `super_leaf_delete_hashed` (with `sub_page_delete`) and `super_leaf_flush_dirty`, in any order.

Each action runs the whole call and recomputes `lookup`, the search result for every key.

`MC_SSDPrograms` checks both SSD programs in one run. `prog` is fixed at `Init`:

- `"tree"` runs the whole tree (`SSDTree`'s `Init` and `Next`);
- `"leaf"` runs one super-leaf (`LeafInit` and `LeafNext`).

`LeafProgramRefinesMap` checks that the leaf program implements `LOMap`.

## Runs

| Run | Module | Expect | Checks |
|-----|--------|--------|--------|
| router_tiers | MC_ZipCacheRouter | pass | `TypeOK`; `DescriptorsOwnExtents`: no two indexed large objects share file bytes, and every descriptor lies inside the written file; `NoStaleRead`: a GET that returns OK returns what the latest PUT of the key stored, never a value from a tier that a later PUT or DELETE replaced |
| router_evict | MC_ZipCacheRouter | pass | `UsageNeverWraps`: `memory_used` never goes below zero, even when `zipcache_reset_stats` zeroes it between the thread's check and its scan; `EvictionRelieves`: usage at or above 90% is eventually brought below it, unless shutdown stopped the thread; `DestroyCompletes`: a `zipcache_destroy` that has begun always returns, wherever the thread was when the flag was set |
| router_tombstone_leak | MC_ZipCacheRouter | violation | `RoundTrip`: a GET after a LARGE PUT returns ZIPCACHE_TOMBSTONE, not the object |
| router_capacity | MC_ZipCacheRouter | violation | `UsageWithinCapacity`: three MEDIUM PUTs of 500000 bytes leave `memory_used` above the 1 MB capacity that `zipcache_validate_consistency` checks |
| ctree_pipeline | MC_CompressedTree | pass | `TypeOK`; `LogicalMapPreserved`: the leaf with the buffer applied is the map the callers wrote; `CompressedImageCurrent`: a leaf marked compressed has a current image; `FlusherLifecycle`: work is enqueued only when the flusher thread exists, deinit signals and joins only a thread that exists, and the tree is destroyed only after its thread has exited (both lazy modes); `BufferDrains`: every buffered write eventually reaches the leaf |
| ctree_flusher_race | MC_CompressedTree | violation | `NoLeafRace`: the flusher rewrites the leaf while a get reads it |
| ctree_lost_update | MC_CompressedTree | violation | `LogicalMapPreserved`: when recompression fails in a synchronous flush, a direct put is later overwritten by the stale buffer |
| lotree_ascending | MC_LOTree | pass | `TypeOK`; `LevelsBalanced`: every leaf is at depth `level`; `ParentsAgree`: the parent pointers match the `sub_ptr` arrays; `SearchAgrees`: `key_binary_search` matches its reference on every node; `ChainListsMap`: the leaf list holds the map in key order; `NoAssertAbort`: no `assert()` in the split and insert paths fails; `LOMapRefined`: the tree implements `LOMap` with keys arriving in increasing order |
| lotree_lost_key | MC_LOTree | violation | `LOMapRefined`: in any key order, a left split of a non-root leaf loses the new sibling |
| ssd_programs | MC_SSDPrograms | pass | `ProgTypeOK`; `CacheCoherent`: every clean cached sub-page equals its block on disk; `EntriesInHashedSlot`: every pair, cached or on disk, is in the sub-page its key hashes to; `BlocksExclusive`: no block is shared by two sub-pages of live super-leaves, each one is set in the bitmap, and `allocated_blocks` counts the bitmap, through splits, failed splits and failed I/O; `LeafProgramRefinesMap`: through the hashed API, puts, gets, deletes and flushes on one super-leaf implement `LOMap` |
| ssd_misrouted_put | MC_SSDTree | violation | `SSDMapRefined`: after a split, a put returns 0 but a get of the same key returns -1 |
| ctree_hashed_layout | MC_HashedLeaf | violation | `LeafWellFormed`: a buffered put flushed into its hashed slot leaves a zero key inside the leaf's `key[0..entries-1]` prefix, and for an update of a key already in the leaf a second copy |

### Bounds

**router_tiers**

- One key, with two symmetric clients and at most 5 calls.
- Every interleaving of a PUT's classify step with another client's threshold change or PUT is explored.
- Two pointers above 4 GiB, one with a negative low word, so a value that a 32-bit store would lose is among them.
- The sizes are one TINY or MEDIUM size and one LARGE size. The threshold pairs move the 3000-byte object between MEDIUM and LARGE.
- The file has room for two aligned extents, so a third large PUT hits the device-full path.

**router_evict**

- One client and a 1 MB capacity.
- A 500000-byte MEDIUM PUT crosses the 90% trigger in two calls.
- `zipcache_destroy` can start in any state with the client idle: with the thread checking, about to scan, or after the calls are used up.
- `zipcache_reset_stats` can run at any of those points too, including between the check and the scan.

**router_tombstone_leak, router_capacity**

- One client and one key. The tombstone trace is a LARGE PUT of 3000 bytes, then a GET.
- The capacity trace needs thresholds that make 500000 bytes MEDIUM, then three PUTs before the thread scans. The bound of 5 calls allows that.

**ctree_pipeline**

- Two callers and two keys, with at most 4 calls.
- The buffer holds two entries, so a third write finds it full.
- `buffer_flush_threshold` is 0, as the code leaves it after `calloc`. Every put therefore enqueues the leaf.
- `LazyModes` is both values, so the unbuffered path (`put_unbuffered`, no thread, no join) and the lazy pipeline are both explored. Each caller may call `set_config` and `flush_all_buffers`.

**lotree_***

- `MAX_ENTRIES` 2 and `ORDER` 3, so the third key in a leaf splits it.
- With 7 ascending keys and a pool of 12 nodes, the tree reaches three levels, including an internal split and a new root.
- `lotree_lost_key` uses 5 keys in any order with a pool of 10 nodes. That covers left and right leaf splits and a split below a parent.
- Left splits happen only when keys arrive out of order, and only `lotree_lost_key` reaches them. The structural invariants are therefore not checked across left splits.

**ssd_programs, ssd_misrouted_put**

- Each super-leaf has two sub-pages of two entries.
- The keys hash to both slots: 3 and 9 go to slot 0, and the rest go to slot 1.
- There are 5 blocks, which covers two super-leaves (4 blocks) and the failure of a third super-leaf's allocation.
- `BPLUS_MAX_ORDER` is 3, so the root fills and `update_parent_with_promoted_key` refuses a key.
- `MaxTotal` 6 caps `total_entries`, which an update also increments. Both split failure paths (allocation, and a full parent) are reached.
- `FaultyBlocks` is `{0}` in `ssd_programs`: block 0 is the first block allocated and holds a sub-page of the first super-leaf, so failed reads in a load and in a split, and a failed write-back in a split and at deinit, are all reached. One faulty block is enough, because each call chooses whether it fails. `ssd_misrouted_put` uses a healthy disk.

- In the leaf program of `ssd_programs`, keys 1, 2, 3, 4 and 9 fill both slots of a sub-page, so an insert into a full sub-page is refused, an update overwrites, and a delete empties a slot.

**ctree_hashed_layout**

- Keys 1, 2 and 3, with 2 sub-pages of 2 slots each (a leaf of 4 entries), a buffer of 2 entries, and at most 4 calls.
- The violation needs 3 steps: put 1 goes direct into slot 0, a put of an odd key is buffered, and the flush writes it into slot 2, the first slot of sub-page 1. With key 1 the leaf's keys become `[1, 0, 1, 0]`, a duplicate; with key 3 they become `[1, 0, 3, 0]`. Either way `entries` is 3. Both traces have the same length, and which one TLC reports depends on the number of workers.
- Adding the key -1 to `MCKeys` gives a slot range that starts at -2, outside the arrays.

### Fairness

**Router.** `EvictionRelieves` and `DestroyCompletes` assume weak fairness of `eviction_check`, of the scan, of `eviction_exit` and of the return from the join.

- The eviction thread loops until `zipcache_destroy` sets `shutdown_flag`, and it sleeps only one second per iteration.
- `pthread_join` returns once the thread has returned.
- `shutdown_flag` is a plain `int` with no lock or atomic (`zipcache.c:249`). The loop calls `sleep` and pthread functions, which the compiler cannot see through, so it reloads the flag on every test; the model takes the write as seen at the next test.
- Clients get no fairness.

**Compressed tree.** `BufferDrains` assumes weak fairness of the flusher thread's steps, of a caller that is inside a call, and of `deinit_flush_all`.

- The thread blocks only on the queue's condition variable, so it runs whenever work is queued.
- A caller that started a call can always finish it.
- Starting a call is never forced.

**LO and SSD trees.** These runs check only safety and refinement, so they assume no fairness.

## Findings

See `PROJECT.json` for the source lines.

1. **A large object reads back as the tombstone** (`zipcache.c:470`). After a LARGE PUT, `bt_dram` holds `(long)0xDEADBEEF`, which is positive. `zipcache_coordinated_read` takes it for a DRAM hit and returns ZIPCACHE_TOMBSTONE, so it never searches the LO tier. Spec §2, scenario 3 of §8 and `zipcache_test.c:185` expect OK with the object. Because of this, no GET reaches the large-object read or its checksum failure path (`zipcache.c:498`).
2. **Puts overrun the capacity** (`zipcache.c:323`). `zipcache_route_put` adds each size to `memory_used` without checking the capacity, and only the once-a-second eviction thread lowers it. `zipcache_validate_consistency` (`zipcache.c:1020`) reports the resulting state as inconsistent.
3. **The flusher races with readers** (`bplustree_compressed.c:244`). `background_compression_thread` flushes a leaf without the tree's `rwlock`.
4. **A failed flush loses an update** (`bplustree_compressed.c:780`). The synchronous flush's result is ignored. A buffer kept after a failed recompression later overwrites a direct put.
5. **The LO tree loses a left sibling** (`bplustree_lo.c:330`). `non_leaf_simple_insert` never stores `l_ch`, so the keys of a left split become unreachable.
6. **The SSD tree misroutes inserts** (`bplustree.c:1131`). `bplus_tree_insert` always inserts into `sub_ptr[0]`, but `bplus_tree_search` routes by separator.
   - After a split, a put can succeed and the following get still miss.
   - An update counts as a new entry (line 592), which brings the split on early. Spec §3 and §8 property 3 say `total_entries` equals the pairs held.
7. **The hashed leaf layout breaks the base tree's order** (`bplustree_compressed.c:289`). `flush_to_hashed_leaf` looks for a key only in the slot range of its sub-page. That range does not match the sorted position where `bplus_tree_put` placed the key. So it writes the key into the first empty slot of the range, a second copy if the key is already in the leaf, and it raises `entries` past that slot. The slots in use are then neither sorted nor free of holes, and a negative key gives a negative range (line 721).

## Not modelled

- **The router's statistics counters other than `memory_used`.** Only `zipcache_get_stats` reads them, and no property is about them. `zipcache_reset_stats` is modelled through its effect on `memory_used`.
- **The teardown after `pthread_join` in `zipcache_destroy`.** It frees the cache; nothing observable follows.
- **The unused `zipcache_dram_store` helper.**
- **The compressed tree's other leaves.** Leaf splits of the DRAM tree and new siblings belong to the base tree, which is not in `src/`. The model follows one leaf.
- **The codecs (LZ4, QPL) and the byte layout of pages.** TLC cannot reach them. They are modelled by their outcomes.
- **The DRAM thread-safe wrapper** (`bplustree_compressed_threadsafe.c`). Nothing in `src/` calls it. Its locks only wrap the calls that `CompressedTree` already models.
- **A change of the lazy flag while the tree runs.** The model has it behind `ConfigToggles`, which the run leaves FALSE because no caller in `src/` changes the flag. The counterexample is described under `CompressedTree.tla` and listed as a hazard.
- **SSD functions that `bplus_tree_ssd_put/get` never reach:**
  - the legacy `disk_*_leaf` functions and the dump helpers;
  - the legacy first-fit `super_leaf_insert` and in-order `super_leaf_search`, which only `super_leaf_test.c` calls. An update of a key whose sub-page is full is stored there as a second copy in the next sub-page, and the search keeps returning the old value (`bplustree.c:609`, listed as a hazard).
  - the `bplus_tree_ssd_get_range` stub;
  - `free_block` and the multi-block allocator.

  Because nothing is freed, a super-leaf's blocks are never reclaimed.
- **Loss of pairs through I/O faults.** A failed read in a split drops the sub-page's pairs, and a failed flush at deinit drops a dirty page (both listed as hazards). The map refinement that would catch this is already broken by the misrouted insert, so no passing run states it.
- **The DRAM metadata table's growth and reuse.** `add_leaf_metadata` reallocs the global table while readers use it unlocked, and `remove_leaf_metadata` is never called, so a new leaf at a freed address inherits old metadata. The model follows one leaf with a fixed identity (both listed as hazards).
- **Tests, examples and benchmarks.** They are drivers. Their assertions serve as statements of intended behaviour.
