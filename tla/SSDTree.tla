------------------------------- MODULE SSDTree -------------------------------
(***************************************************************************)
(* The SSD tier's hybrid B+ tree, src/SSD-tier/lib/bplustree.c: an         *)
(* in-memory root whose children are super-leaves, each a row of           *)
(* SUB_PAGES_PER_SUPER_LEAF sub-pages of 4 KB on disk.  A key lives in     *)
(* the sub-page hash_key_to_sub_page picks; a sub-page is cached in memory *)
(* once loaded, marked dirty when changed and written back only when its   *)
(* super-leaf is split.  Blocks come from a bitmap allocator.  The tree is *)
(* single-threaded, so bplus_tree_ssd_put and bplus_tree_ssd_get are each  *)
(* one atomic step.                                                        *)
(*                                                                         *)
(* Super-leaves come from a pool LeafIds; live is the set of allocated     *)
(* ones.  A sub-page is a sequence of <<key, data>> pairs of its live      *)
(* length (header.entries); page[l][i] is the cached copy and is <<>>      *)
(* when cached[l][i] is FALSE (cached_sub_pages[i] == NULL).  disk is the  *)
(* content of each 4 KB block of the disk file, which disk_manager_init    *)
(* extends with zeros, so an unwritten block reads as an empty sub-page.   *)
(* A pread or pwrite of a block in FaultyBlocks may fail: each call is     *)
(* made either with a healthy disk or with those blocks failing (State's   *)
(* fail field), and a failed read returns NULL, a failed write leaves the  *)
(* block as it was.  The printf reporting is left out.                     *)
(* SUB_PAGES_PER_SUPER_LEAF, ENTRIES_PER_SUB_PAGE, BPLUS_MAX_ORDER and     *)
(* the number of blocks are constants of the C build; they are CONSTANTS   *)
(* here so that a small model reaches the same cases.                      *)
(***************************************************************************)
EXTENDS Integers, Sequences, SequencesExt, FiniteSets, Bitwise, KeySearch

CONSTANTS Keys,                     \* key_t values, small non-negative ints
          Vals,                     \* data values, positive longs
          SUB_PAGES_PER_SUPER_LEAF,
          ENTRIES_PER_SUB_PAGE,
          BPLUS_MAX_ORDER,
          TotalBlocks,              \* dm->total_4kb_blocks
          MaxLeaves,                \* size of the super-leaf pool
          MaxTotal,                 \* bound on a super-leaf's total_entries
          FaultyBlocks,             \* blocks whose pread/pwrite may fail
          INVALID_BLOCK_ID

ASSUME /\ Keys \subseteq 0..32767 /\ Vals \subseteq Nat \ {0}
       /\ SUB_PAGES_PER_SUPER_LEAF >= 1 /\ ENTRIES_PER_SUB_PAGE >= 1
       /\ FaultyBlocks \subseteq 0..TotalBlocks - 1

Blocks == 0..TotalBlocks - 1
Slots == 0..SUB_PAGES_PER_SUPER_LEAF - 1
LeafIds == 1..MaxLeaves

VARIABLES bitmap, allocated_blocks, next_search_hint,   \* struct block_allocator
          disk,                                         \* block -> sub-page on disk
          live, total_entries, active_sub_pages,        \* struct bplus_super_leaf
          sub_page_blocks, cached, page, dirty_flags,
          rooted, key, sub_ptr, level,                  \* tree->root, tree->level
          closed,     \* bplus_tree_ssd_deinit has run
          lookup,     \* what bplus_tree_ssd_get returns for each key after the last call
          last_call   \* history: the last put that returned 0

tree == <<bitmap, allocated_blocks, next_search_hint, disk, live, total_entries,
          active_sub_pages, sub_page_blocks, cached, page, dirty_flags,
          rooted, key, sub_ptr, level>>
vars == <<tree, closed, lookup, last_call>>

(* The whole tree as one record, so that a C call is an operator from a    *)
(* state to a state.  fail is the set of blocks whose I/O fails during the *)
(* call: empty unless the action chooses the faulty blocks.                *)
State == [bitmap |-> bitmap, nalloc |-> allocated_blocks, hint |-> next_search_hint,
          disk |-> disk, live |-> live, total |-> total_entries,
          active |-> active_sub_pages, blk |-> sub_page_blocks, cached |-> cached,
          page |-> page, dirty |-> dirty_flags, rooted |-> rooted, key |-> key,
          sub |-> sub_ptr, level |-> level, fail |-> {}]

(* The disks a call may meet: healthy, or with FaultyBlocks failing.       *)
IOFaultSets == {{}, FaultyBlocks}

-----------------------------------------------------------------------------
(* hash_key_to_sub_page: Knuth's multiplicative hash, then two xor-shifts, *)
(* in uint32_t.  TLC's integers are 32-bit signed, so the 32-bit word is   *)
(* kept as two 16-bit halves: 2654435761 = 40503 * 2^16 + 31153.           *)
hash_key_to_sub_page(k, n) ==
    LET lo0 == (k * 31153) % 65536
        hi  == ((k * 31153) \div 65536 + k * 40503) % 65536
        lo1 == lo0 ^^ hi                                   \* hash ^= hash >> 16
        lo  == lo1 ^^ ((hi % 256) * 256 + lo1 \div 256)    \* hash ^= hash >> 8
        hi2 == hi ^^ (hi \div 256)
    IN  IF n <= 0 THEN 0 ELSE ((hi2 % n) * (65536 % n) + lo) % n

SubPageOf == [k \in Keys |-> hash_key_to_sub_page(k, SUB_PAGES_PER_SUPER_LEAF)]

PageKeys(p) == [j \in 1..Len(p) |-> p[j][1]]

sub_page_is_full(p) == Len(p) >= ENTRIES_PER_SUB_PAGE

(* sub_page_insert on a sub-page that is not full: update in place, or     *)
(* shift the tail up and insert at the point key_binary_search returns.    *)
sub_page_insert(p, k, data) ==
    LET pos == key_binary_search(PageKeys(p), Len(p), k)
    IN  IF pos >= 0 THEN [p EXCEPT ![pos + 1] = <<k, data>>]
        ELSE InsertAt(p, -pos, <<k, data>>)

sub_page_search(p, k) ==
    LET pos == key_binary_search(PageKeys(p), Len(p), k)
    IN  IF pos >= 0 THEN p[pos + 1][2] ELSE -1

(* What sub-page i of super-leaf l holds: the cached copy, else what a     *)
(* load would read from its block; an unallocated sub-page holds nothing.  *)
EffectivePage(S, l, i) ==
    IF S.cached[l][i] THEN S.page[l][i]
    ELSE IF S.blk[l][i] = INVALID_BLOCK_ID THEN <<>>
    ELSE S.disk[S.blk[l][i]]

-----------------------------------------------------------------------------
(* An allocation that counts the block but does not set its bit.          *)
allocate_block_unmarked(S) ==
    LET at(j) == (S.hint + j) % TotalBlocks
        clear == {j \in 0..TotalBlocks - 1 : at(j) \notin S.bitmap}
    IN  IF S.nalloc >= TotalBlocks \/ clear = {}
        THEN [S |-> S, id |-> INVALID_BLOCK_ID]
        ELSE LET b == at(Min(clear))
             IN  [S |-> [S EXCEPT !.nalloc = @ + 1, !.hint = (b + 1) % TotalBlocks],
                  id |-> b]

(* allocate_block: refuse when the count says every block is taken, else   *)
(* scan the bitmap from next_search_hint round to the first clear bit.     *)
allocate_block(S) ==
    LET at(j) == (S.hint + j) % TotalBlocks
        clear == {j \in 0..TotalBlocks - 1 : at(j) \notin S.bitmap}
    IN  IF S.nalloc >= TotalBlocks \/ clear = {}
        THEN [S |-> S, id |-> INVALID_BLOCK_ID]
        ELSE LET b == at(Min(clear))
             IN  [S |-> [S EXCEPT !.bitmap = @ \cup {b}, !.nalloc = @ + 1,
                                  !.hint = (b + 1) % TotalBlocks],
                  id |-> b]

super_leaf_create(S, l) ==
    [S EXCEPT !.live = @ \cup {l}, !.total[l] = 0, !.active[l] = 0,
              !.blk[l] = [i \in Slots |-> INVALID_BLOCK_ID],
              !.cached[l] = [i \in Slots |-> FALSE],
              !.page[l] = [i \in Slots |-> <<>>],
              !.dirty[l] = [i \in Slots |-> FALSE]]

(* super_leaf_free frees the cached copies and the struct; the blocks of   *)
(* its sub-pages stay set in the bitmap.                                   *)
super_leaf_free(S, l) == [S EXCEPT !.live = @ \ {l}]

NewLeaf(S) == CHOOSE l \in LeafIds \ S.live : TRUE

(* super_leaf_load_sub_page_by_hash: the cached copy; else, for a sub-page *)
(* with no block, a new block and an empty dirty sub-page; else a read of  *)
(* the block (disk_read_sub_page), which caches NULL when the pread fails. *)
super_leaf_load_sub_page_by_hash(S, l, k) ==
    LET i == SubPageOf[k]
    IN  IF S.cached[l][i] THEN [S |-> S, ok |-> TRUE]
        ELSE IF S.blk[l][i] = INVALID_BLOCK_ID
        THEN LET A == allocate_block(S)
             IN  IF A.id = INVALID_BLOCK_ID THEN [S |-> S, ok |-> FALSE]
                 ELSE [S |-> [A.S EXCEPT !.blk[l][i] = A.id, !.cached[l][i] = TRUE,
                                         !.page[l][i] = <<>>, !.dirty[l][i] = TRUE,
                                         !.active[l] = IF i >= @ THEN i + 1 ELSE @],
                       ok |-> TRUE]
        ELSE IF S.blk[l][i] \in S.fail THEN [S |-> S, ok |-> FALSE]
        ELSE [S |-> [S EXCEPT !.cached[l][i] = TRUE, !.page[l][i] = S.disk[S.blk[l][i]]],
              ok |-> TRUE]

(* 90% of SUB_PAGES_PER_SUPER_LEAF * ENTRIES_PER_SUB_PAGE, in integers.    *)
super_leaf_is_full(S, l) ==
    10 * S.total[l] >= 9 * SUB_PAGES_PER_SUPER_LEAF * ENTRIES_PER_SUB_PAGE

(* An insert that does not look whether the sub-page is full.              *)
super_leaf_insert_hashed_unchecked(S, l, k, data) ==
    LET i == SubPageOf[k]
        L == super_leaf_load_sub_page_by_hash(S, l, k)
    IN  IF ~L.ok THEN [S |-> L.S, r |-> -1]
        ELSE [S |-> [L.S EXCEPT !.page[l][i] = sub_page_insert(@, k, data),
                                !.dirty[l][i] = TRUE, !.total[l] = @ + 1], r |-> 0]

(* An insert that does not mark the sub-page dirty.                        *)
super_leaf_insert_hashed_clean(S, l, k, data) ==
    LET i == SubPageOf[k]
        L == super_leaf_load_sub_page_by_hash(S, l, k)
    IN  IF ~L.ok THEN [S |-> L.S, r |-> -1]
        ELSE IF sub_page_is_full(L.S.page[l][i])
        THEN [S |-> L.S, r |-> IF super_leaf_is_full(L.S, l) THEN -2 ELSE -1]
        ELSE [S |-> [L.S EXCEPT !.page[l][i] = sub_page_insert(@, k, data),
                                !.total[l] = @ + 1], r |-> 0]

(* super_leaf_insert_hashed: load the key's sub-page; when it is full,     *)
(* return -2 if the super-leaf is 90% full and -1 otherwise; else insert,  *)
(* mark the sub-page dirty and count one more entry, update or not.        *)
super_leaf_insert_hashed(S, l, k, data) ==
    LET i == SubPageOf[k]
        L == super_leaf_load_sub_page_by_hash(S, l, k)
    IN  IF ~L.ok THEN [S |-> L.S, r |-> -1]
        ELSE IF sub_page_is_full(L.S.page[l][i])
        THEN [S |-> L.S, r |-> IF super_leaf_is_full(L.S, l) THEN -2 ELSE -1]
        ELSE [S |-> [L.S EXCEPT !.page[l][i] = sub_page_insert(@, k, data),
                                !.dirty[l][i] = TRUE, !.total[l] = @ + 1], r |-> 0]

(* super_leaf_search_hashed: -1 when the key's sub-page has no block, else *)
(* load it (a read of the block when it is not cached) and search it; -1  *)
(* when the read fails.                                                    *)
super_leaf_search_hashed(S, l, k) ==
    LET i == SubPageOf[k]
    IN  IF S.blk[l][i] = INVALID_BLOCK_ID THEN [S |-> S, r |-> -1]
        ELSE LET L == super_leaf_load_sub_page_by_hash(S, l, k)
             IN  [S |-> L.S, r |-> IF L.ok THEN sub_page_search(L.S.page[l][i], k) ELSE -1]

(* A flush that clears the dirty flag of every sub-page it tried to write, *)
(* whatever disk_write_sub_page returned.                                  *)
super_leaf_flush_dirty_ignoring_result(S, l) ==
    LET w == {i \in Slots : S.dirty[l][i] /\ S.cached[l][i]}
        done == {i \in w : S.blk[l][i] \in Blocks \ S.fail}
        writes(b) == {i \in done : S.blk[l][i] = b}
    IN  [S EXCEPT !.disk = [b \in Blocks |-> IF writes(b) = {} THEN @[b]
                                             ELSE S.page[l][CHOOSE i \in writes(b) : TRUE]],
                  !.dirty[l] = [i \in Slots |-> @[i] /\ i \notin w]]

(* super_leaf_flush_dirty: write every dirty cached sub-page to its block  *)
(* (disk_write_sub_page: refused for a block id past the file, else one    *)
(* pwrite) and clear the dirty flag of those whose write succeeded.  A     *)
(* dirty sub-page with no cached copy stays dirty.                         *)
super_leaf_flush_dirty(S, l) ==
    LET w == {i \in Slots : S.dirty[l][i] /\ S.cached[l][i]}
        done == {i \in w : S.blk[l][i] \in Blocks \ S.fail}
        writes(b) == {i \in done : S.blk[l][i] = b}
    IN  [S EXCEPT !.disk = [b \in Blocks |-> IF writes(b) = {} THEN @[b]
                                             ELSE S.page[l][CHOOSE i \in writes(b) : TRUE]],
                  !.dirty[l] = [i \in Slots |-> @[i] /\ i \notin done]]

(* consolidate_and_sort: every pair of the sub-pages read, sorted by key.  *)
(* A key is only ever in the sub-page its hash picks, so keys are unique.  *)
consolidate_and_sort(S, l, read) ==
    SetToSortSeq(UNION {Range(EffectivePage(S, l, i)) : i \in read},
                 LAMBDA a, b : a[1] < b[1])

(* One pair of redistribute_pairs_hashed's loop: create the target         *)
(* sub-page if it has no cached copy, then insert unless it is full.       *)
PlaceAt(S, t, i, pr) ==
    LET T == IF S.cached[t][i] THEN S
             ELSE [S EXCEPT !.cached[t][i] = TRUE, !.page[t][i] = <<>>, !.dirty[t][i] = TRUE]
    IN  IF sub_page_is_full(T.page[t][i]) THEN T
        ELSE [T EXCEPT !.page[t][i] = sub_page_insert(@, pr[1], pr[2]),
                       !.total[t] = @ + 1, !.dirty[t][i] = TRUE]

ActiveOf(S, l) ==
    IF \E i \in Slots : S.cached[l][i]
    THEN Max({i \in Slots : S.cached[l][i]}) + 1 ELSE 0

(* A redistribution that hashes over the target's active_sub_pages rather  *)
(* than SUB_PAGES_PER_SUPER_LEAF.                                          *)
redistribute_pairs_by_active(S, pairs, l, r) ==
    LET median == pairs[Len(pairs) \div 2 + 1][1]
        Target(pr) == IF pr[1] < median THEN l ELSE r
        S0 == [S EXCEPT !.cached[l] = [i \in Slots |-> FALSE], !.page[l] = [i \in Slots |-> <<>>],
                        !.cached[r] = [i \in Slots |-> FALSE], !.page[r] = [i \in Slots |-> <<>>],
                        !.total[l] = 0, !.total[r] = 0]
        S1 == FoldLeft(LAMBDA T, pr : PlaceAt(T, Target(pr),
                           hash_key_to_sub_page(pr[1], T.active[Target(pr)]), pr), S0, pairs)
    IN  [S |-> [S1 EXCEPT !.active[l] = ActiveOf(S1, l), !.active[r] = ActiveOf(S1, r)],
         median |-> median]

(* redistribute_pairs_hashed: the median pair's key is promoted; both      *)
(* leaves drop their cached sub-pages and counts, every pair goes to the   *)
(* left leaf if its key is below the median and to the right one          *)
(* otherwise, into the sub-page its hash picks; active_sub_pages is then   *)
(* one past the last cached sub-page.                                      *)
redistribute_pairs_hashed(S, pairs, l, r) ==
    LET median == pairs[Len(pairs) \div 2 + 1][1]
        Target(pr) == IF pr[1] < median THEN l ELSE r
        S0 == [S EXCEPT !.cached[l] = [i \in Slots |-> FALSE], !.page[l] = [i \in Slots |-> <<>>],
                        !.cached[r] = [i \in Slots |-> FALSE], !.page[r] = [i \in Slots |-> <<>>],
                        !.total[l] = 0, !.total[r] = 0]
        S1 == FoldLeft(LAMBDA T, pr : PlaceAt(T, Target(pr), SubPageOf[pr[1]], pr), S0, pairs)
    IN  [S |-> [S1 EXCEPT !.active[l] = ActiveOf(S1, l), !.active[r] = ActiveOf(S1, r)],
         median |-> median]

SlotSeq == [j \in 1..SUB_PAGES_PER_SUPER_LEAF |-> j - 1]

(* split_super_leaf: read every sub-page that has a block (the cached copy *)
(* or the block; a sub-page whose read fails is left out), sort the pairs, create the right sibling and             *)
(* redistribute; then allocate a block for each of the sibling's cached    *)
(* sub-pages, freeing the sibling and failing when the allocator is out of *)
(* blocks, and write back the dirty sub-pages of both leaves.  The left    *)
(* leaf is already redistributed when the allocation fails.                *)
split_super_leaf(S, l) ==
    LET read == {i \in Slots : /\ S.blk[l][i] # INVALID_BLOCK_ID
                               /\ S.cached[l][i] \/ S.blk[l][i] \notin S.fail}
        pairs == consolidate_and_sort(S, l, read)
        r == NewLeaf(S)
        D == redistribute_pairs_hashed(super_leaf_create(S, r), pairs, l, r)
        AllocOne(acc, i) ==
            IF ~acc.ok \/ ~acc.S.cached[r][i] THEN acc
            ELSE LET A == allocate_block(acc.S)
                 IN  IF A.id = INVALID_BLOCK_ID THEN [S |-> acc.S, ok |-> FALSE]
                     ELSE [S |-> [A.S EXCEPT !.blk[r][i] = A.id], ok |-> TRUE]
        B == FoldLeft(AllocOne, [S |-> D.S, ok |-> TRUE], SlotSeq)
    IN  IF read = {} \/ pairs = <<>> THEN [S |-> S, ok |-> FALSE]
        ELSE IF ~B.ok THEN [S |-> super_leaf_free(B.S, r), ok |-> FALSE]
        ELSE [S |-> super_leaf_flush_dirty(super_leaf_flush_dirty(B.S, l), r),
              ok |-> TRUE, key |-> D.median, right |-> r]

(* update_parent_with_promoted_key: the promoted key goes after the        *)
(* leading keys it is greater than, the sibling just right of it; a root   *)
(* with BPLUS_MAX_ORDER children refuses.                                  *)
update_parent_with_promoted_key(S, k, r) ==
    LET insert_pos == Max({n \in 0..Len(S.key) : \A j \in 1..n : k > S.key[j]})
    IN  IF ~S.rooted \/ Len(S.sub) >= BPLUS_MAX_ORDER THEN [S |-> S, ok |-> FALSE]
        ELSE [S |-> [S EXCEPT !.key = InsertAt(@, insert_pos + 1, k),
                              !.sub = InsertAt(@, insert_pos + 2, r)],
              ok |-> TRUE]

(* bplus_tree_insert: the first insert creates the root and one            *)
(* super-leaf; every later one goes to the root's first super-leaf,        *)
(* sub_ptr[0].  On -2 the super-leaf is split, the parent takes the        *)
(* promoted key, and the insert starts over.  When the parent refuses, the *)
(* new sibling is freed.                                                   *)
RECURSIVE bplus_tree_insert(_, _, _)
bplus_tree_insert(S, k, data) ==
    IF ~S.rooted
    THEN LET R0 == [S EXCEPT !.rooted = TRUE, !.level = 1, !.key = <<>>, !.sub = <<>>]
             l == NewLeaf(R0)
             I == super_leaf_insert_hashed(super_leaf_create(R0, l), l, k, data)
         IN  IF I.r # 0 THEN [S |-> super_leaf_free(I.S, l), r |-> -1]
             ELSE [S |-> [I.S EXCEPT !.sub = <<l>>], r |-> 0]
    ELSE IF Len(S.sub) = 0 THEN [S |-> S, r |-> -1]
    ELSE LET I == super_leaf_insert_hashed(S, S.sub[1], k, data)
             P == split_super_leaf(I.S, S.sub[1])
             U == update_parent_with_promoted_key(P.S, P.key, P.right)
         IN  IF I.r # -2 THEN I
             ELSE IF ~P.ok THEN [S |-> P.S, r |-> -1]
             ELSE IF ~U.ok THEN [S |-> super_leaf_free(U.S, P.right), r |-> -1]
             ELSE bplus_tree_insert(U.S, k, data)

(* bplus_tree_search: pick the child by the root's separators (a key      *)
(* equal to a separator goes right) and search it by hash.                 *)
bplus_tree_search(S, k) ==
    LET i == key_binary_search(S.key, Len(S.sub) - 1, k)
        idx == IF i >= 0 THEN i + 1 ELSE -i - 1
    IN  IF ~S.rooted \/ idx >= Len(S.sub) THEN [S |-> S, r |-> -1]
        ELSE super_leaf_search_hashed(S, S.sub[idx + 1], k)

-----------------------------------------------------------------------------
SetTree(T) ==
    /\ bitmap' = T.bitmap /\ allocated_blocks' = T.nalloc /\ next_search_hint' = T.hint
    /\ disk' = T.disk /\ live' = T.live /\ total_entries' = T.total
    /\ active_sub_pages' = T.active /\ sub_page_blocks' = T.blk /\ cached' = T.cached
    /\ page' = T.page /\ dirty_flags' = T.dirty /\ rooted' = T.rooted
    /\ key' = T.key /\ sub_ptr' = T.sub /\ level' = T.level
    /\ lookup' = [k \in Keys |-> bplus_tree_search([T EXCEPT !.fail = {}], k).r]

(* bplus_tree_ssd_init: no root, an empty allocator, a zeroed disk file.   *)
Init ==
    /\ bitmap = {} /\ allocated_blocks = 0 /\ next_search_hint = 0
    /\ disk = [b \in Blocks |-> <<>>]
    /\ live = {} /\ total_entries = [l \in LeafIds |-> 0]
    /\ active_sub_pages = [l \in LeafIds |-> 0]
    /\ sub_page_blocks = [l \in LeafIds |-> [i \in Slots |-> INVALID_BLOCK_ID]]
    /\ cached = [l \in LeafIds |-> [i \in Slots |-> FALSE]]
    /\ page = [l \in LeafIds |-> [i \in Slots |-> <<>>]]
    /\ dirty_flags = [l \in LeafIds |-> [i \in Slots |-> FALSE]]
    /\ rooted = FALSE /\ key = <<>> /\ sub_ptr = <<>> /\ level = 0
    /\ closed = FALSE
    /\ lookup = [k \in Keys |-> -1]
    /\ last_call = <<>>

(* An update counts as one more entry, so total_entries grows without     *)
(* bound under repeated puts of one key; puts stop at MaxTotal.            *)
TotalBelowBound == \A l \in live : total_entries[l] < MaxTotal

(* bplus_tree_ssd_put: data 0 is refused (deletion is not implemented).    *)
bplus_tree_ssd_put(k, data) ==
    /\ ~closed /\ TotalBelowBound
    /\ IF data = 0 THEN UNCHANGED vars
       ELSE \E F \in IOFaultSets :
            \E I \in {bplus_tree_insert([State EXCEPT !.fail = F], k, data)} :
                /\ SetTree(I.S)
                /\ last_call' = IF I.r = 0 THEN <<"put", k, data>> ELSE last_call
    /\ UNCHANGED closed

(* bplus_tree_ssd_get: a search loads the key's sub-page into the cache.   *)
(* A get whose read fails returns -1 and changes nothing, a stuttering     *)
(* step, so gets are made with a healthy disk.                             *)
bplus_tree_ssd_get(k) ==
    /\ ~closed
    /\ \E R \in {bplus_tree_search(State, k)} : SetTree(R.S)
    /\ UNCHANGED <<closed, last_call>>

(* bplus_tree_ssd_deinit: the root is a leaf parent, so each of its        *)
(* super-leaves is flushed (the result is not looked at) and freed; then   *)
(* the disk manager closes the file and frees the allocator.  What stays  *)
(* is the disk file; the freed memory is shown as it was at init.         *)
bplus_tree_ssd_deinit ==
    /\ ~closed
    /\ \E F \in IOFaultSets :
       \E T \in {FoldLeft(LAMBDA A, l : super_leaf_flush_dirty(A, l),
                          [State EXCEPT !.fail = F], sub_ptr)} :
           disk' = T.disk
    /\ closed' = TRUE
    /\ bitmap' = {} /\ allocated_blocks' = 0 /\ next_search_hint' = 0
    /\ live' = {} /\ total_entries' = [l \in LeafIds |-> 0]
    /\ active_sub_pages' = [l \in LeafIds |-> 0]
    /\ sub_page_blocks' = [l \in LeafIds |-> [i \in Slots |-> INVALID_BLOCK_ID]]
    /\ cached' = [l \in LeafIds |-> [i \in Slots |-> FALSE]]
    /\ page' = [l \in LeafIds |-> [i \in Slots |-> <<>>]]
    /\ dirty_flags' = [l \in LeafIds |-> [i \in Slots |-> FALSE]]
    /\ rooted' = FALSE /\ key' = <<>> /\ sub_ptr' = <<>> /\ level' = 0
    /\ UNCHANGED <<lookup, last_call>>

(* The program goes on without the tree.                                   *)
closed_tree == closed /\ UNCHANGED vars

Next ==
    \/ \E k \in Keys :
          \/ \E data \in Vals \cup {0} : bplus_tree_ssd_put(k, data)
          \/ bplus_tree_ssd_get(k)
    \/ bplus_tree_ssd_deinit
    \/ closed_tree

Spec == Init /\ [][Next]_vars

-----------------------------------------------------------------------------
IsSubPage(p) ==
    /\ p \in Seq(Keys \X Vals)
    /\ Len(p) <= ENTRIES_PER_SUB_PAGE
    /\ \A j \in 2..Len(p) : p[j - 1][1] < p[j][1]

TypeOK ==
    /\ bitmap \subseteq Blocks /\ allocated_blocks \in 0..TotalBlocks
    /\ next_search_hint \in Blocks
    /\ \A b \in Blocks : IsSubPage(disk[b])
    /\ live \subseteq LeafIds /\ total_entries \in [LeafIds -> Nat]
    /\ active_sub_pages \in [LeafIds -> 0..SUB_PAGES_PER_SUPER_LEAF]
    /\ sub_page_blocks \in [LeafIds -> [Slots -> Blocks \cup {INVALID_BLOCK_ID}]]
    /\ cached \in [LeafIds -> [Slots -> BOOLEAN]]
    /\ dirty_flags \in [LeafIds -> [Slots -> BOOLEAN]]
    /\ \A l \in LeafIds, i \in Slots : IsSubPage(page[l][i])
    /\ rooted \in BOOLEAN /\ key \in Seq(Keys) /\ sub_ptr \in Seq(LeafIds)
    /\ level \in 0..1 /\ closed \in BOOLEAN
    /\ lookup \in [Keys -> Vals \cup {-1}]
    /\ last_call \in {<<>>} \cup ({"put"} \X Keys \X Vals)

(* Write-back is only as good as the dirty flags: a cached sub-page of a   *)
(* live super-leaf that is not marked dirty is exactly what its block on   *)
(* disk holds, through inserts, splits that drop and recreate the cached   *)
(* copies, flushes and reloads by later gets.                              *)
CacheCoherent ==
    \A l \in live, i \in Slots :
        cached[l][i] /\ ~dirty_flags[l][i] => page[l][i] = disk[sub_page_blocks[l][i]]

(* Each block holds one sub-page: through allocations for new sub-pages    *)
(* and for split siblings, siblings freed after a failed split (whose      *)
(* blocks stay taken), and failed reads and writes, the blocks of the      *)
(* live super-leaves' sub-pages are pairwise distinct, each is set in the  *)
(* bitmap, and allocated_blocks counts the bitmap.                         *)
BlocksExclusive ==
    /\ allocated_blocks = Cardinality(bitmap)
    /\ \A l \in live, i \in Slots :
          sub_page_blocks[l][i] # INVALID_BLOCK_ID => sub_page_blocks[l][i] \in bitmap
    /\ \A l, m \in live, i, j \in Slots :
          /\ <<l, i>> # <<m, j>>
          /\ sub_page_blocks[l][i] = sub_page_blocks[m][j]
          => sub_page_blocks[l][i] = INVALID_BLOCK_ID

(* Hashed search looks only in the sub-page hash_key_to_sub_page picks, so *)
(* every pair a live super-leaf holds, cached or on disk, must sit in that *)
(* sub-page, after any number of inserts and redistributions.              *)
EntriesInHashedSlot ==
    \A l \in live, i \in Slots :
        \A j \in 1..Len(EffectivePage(State, l, i)) :
            SubPageOf[EffectivePage(State, l, i)[j][1]] = i

(* The tree implements a key-value map: bplus_tree_ssd_put(k, v) that      *)
(* returns 0 makes bplus_tree_ssd_get(k) return v, and no other call       *)
(* changes what any get returns.                                           *)
SSDM == INSTANCE LOMap WITH NoObject <- -1, lomap <- lookup, last <- last_call
SSDMapRefined == SSDM!Spec
=============================================================================
