--------------------------- MODULE CompressedTree ---------------------------
(***************************************************************************)
(* The DRAM compressed B+tree of src/DRAM-tier/lib/bplustree_compressed.c *)
(* around one leaf: the per-leaf write buffer, the work queue, the         *)
(* background flusher thread, the tree's reader-writer lock, the          *)
(* compressed flag of the leaf, bplus_tree_compressed_set_config and      *)
(* _flush_all_buffers called by a client, and bplus_tree_compressed_deinit. *)
(*                                                                         *)
(* The base B+tree the leaf belongs to (bplustree.h, not under src/) is    *)
(* modelled by its contract (spec 4.G): the leaf is a map from key to      *)
(* value, 0 marks a deleted key and -1 is the result of a lookup miss.     *)
(* The codecs are modelled by their outcomes: a decompression that fails,  *)
(* and a compression that succeeds, leaves the leaf uncompressed, or      *)
(* fails on an allocation.                                                 *)
(***************************************************************************)
EXTENDS Integers, Sequences, SequencesExt

CONSTANTS
    Keys,                     \* hashed keys routed to the leaf
    Vals,                     \* non-zero values a caller stores
    Clients,                  \* caller threads
    MAX_BUFFER_ENTRIES,       \* capacity of a writing_buffer
    BufferFlushThreshold,     \* ct_tree->buffer_flush_threshold
    MaxCalls,                 \* bound on the number of put/get/delete calls
    CodecFaults,              \* whether compression and decompression may fail
    LazyModes,                \* config.enable_lazy_compression values at init
    ConfigToggles,            \* whether set_config may change that flag
    NoThread                  \* model value: no thread holds the write lock

ASSUME /\ Vals \subseteq Int \ {0, -1}
       /\ MAX_BUFFER_ENTRIES \in Nat \ {0}
       /\ BufferFlushThreshold \in Int
       /\ MaxCalls \in Nat
       /\ CodecFaults \in BOOLEAN
       /\ LazyModes \subseteq BOOLEAN /\ ConfigToggles \in BOOLEAN

\* bplus_tree_get's result for a key the leaf does not hold.
NOT_FOUND == -1

\* bplus_tree_compressed_delete stores 0, the base tree's deleted marker.
DELETED == 0

LeafValues == Vals \cup {DELETED, NOT_FOUND}

VARIABLES
    leaf,            \* the base tree leaf: key -> value
    is_compressed,   \* leaf_metadata[idx].is_compressed
    image,           \* the leaf as compressed_data holds it (sub-page blocks)
    buffer,          \* writing_buffer entries[0..count-1] as a sequence
    dirty,           \* writing_buffer.dirty
    queue,           \* work_queue.count (every item names this leaf)
    writer,          \* holder of rwlock in write mode
    readers,         \* holders of rwlock in read mode
    pc, op, ret,     \* per caller: position, arguments and result
    fpc,             \* background_compression_thread position
    shutdown_flag,   \* ct_tree->shutdown_flag
    owner,           \* the thread that calls bplus_tree_compressed_deinit
    calls,           \* number of calls started
    latest,          \* history: the value of the last write of each key
    lazy             \* ct_tree->config.enable_lazy_compression

vars == <<leaf, is_compressed, image, buffer, dirty, queue, writer, readers, pc, op,
          ret, fpc, shutdown_flag, owner, calls, latest, lazy>>

Record == [key : Keys, value : Vals \cup {DELETED}]

TypeOK ==
    /\ leaf \in [Keys -> LeafValues]
    /\ is_compressed \in BOOLEAN
    /\ image \in [Keys -> LeafValues]
    /\ buffer \in Seq(Record) /\ Len(buffer) <= MAX_BUFFER_ENTRIES
    /\ dirty \in BOOLEAN
    /\ queue \in 0..MaxCalls
    /\ writer \in Clients \cup {NoThread}
    /\ readers \subseteq Clients
    /\ pc \in [Clients -> {"idle", "put_lock", "put_enqueue", "put_sync_flush",
                           "put_direct", "get_lock", "get_read", "flush_check",
                           "flush_body"}]
    /\ op \in [Clients -> Record]
    /\ ret \in [Clients -> LeafValues]
    /\ fpc \in {"none", "wait", "check", "flush", "exited"}
    /\ shutdown_flag \in BOOLEAN
    /\ owner \in {"running", "joining", "destroyed"}
    /\ calls \in 0..MaxCalls
    /\ latest \in [Keys -> LeafValues]
    /\ lazy \in BOOLEAN

-----------------------------------------------------------------------------
(* Helpers translated from the code.                                        *)

\* Index of the buffered record for key k, 0 if there is none (search_buffer).
BufferIndex(buf, k) ==
    IF \E i \in 1..Len(buf) : buf[i].key = k
    THEN CHOOSE i \in 1..Len(buf) : buf[i].key = k
    ELSE 0

\* add_to_buffer under buffer_lock: refuses a full buffer before looking for
\* the key, otherwise overwrites the key's record in place or appends one.
AddToBuffer(buf, r) ==
    LET i == BufferIndex(buf, r.key)
    IN IF i # 0 THEN [buf EXCEPT ![i] = r] ELSE Append(buf, r)

\* Fault variant: the flush test never fires for a buffer within capacity.
NeedsFlushStrict(count) == count > MAX_BUFFER_ENTRIES

\* The flush decision at the end of add_to_buffer.
NeedsFlush(count) == count >= BufferFlushThreshold

\* flush_to_hashed_leaf: each buffered record, in buffer order, updates its
\* key's slot, fills a free slot of its sub-page, or falls back to
\* bplus_tree_put; for the key -> value map all three are the same write.
ApplyRecord(l, r) == [l EXCEPT ![r.key] = r.value]
ApplyBuffer(l, buf) == FoldLeft(ApplyRecord, l, buf)

\* decompress_leaf_node_with_metadata_ex: a compressed leaf gets its arrays
\* back from the sub-page blocks; a codec error leaves it marked compressed.
Decompress(l, comp, img) ==
    IF ~comp
    THEN {[leaf |-> l, comp |-> FALSE, ok |-> TRUE]}
    ELSE {[leaf |-> img, comp |-> FALSE, ok |-> TRUE]}
         \cup (IF CodecFaults THEN {[leaf |-> l, comp |-> TRUE, ok |-> FALSE]}
                              ELSE {})

\* compress_leaf_node_with_metadata_ex: returns at once if the leaf is
\* marked compressed; otherwise it rebuilds the blocks from the arrays, or
\* keeps the leaf uncompressed when the codec gives up (still success), or
\* fails on an allocation.
Compress(l, comp, img) ==
    IF comp
    THEN {[comp |-> TRUE, img |-> img, ok |-> TRUE]}
    ELSE {[comp |-> TRUE, img |-> l, ok |-> TRUE],
          [comp |-> FALSE, img |-> img, ok |-> TRUE]}
         \cup (IF CodecFaults THEN {[comp |-> FALSE, img |-> img, ok |-> FALSE]}
                              ELSE {})

\* flush_to_hashed_leaf under buffer_lock, and the reset flush_buffer_to_leaf
\* makes when it returns 0: decompress, apply the records, recompress.
FlushBodyOutcomes(l, comp, img, buf) ==
    UNION { IF ~d.ok
            THEN {[leaf |-> l, comp |-> comp, img |-> img, cleared |-> FALSE]}
            ELSE LET applied == ApplyBuffer(d.leaf, buf)
                 IN {[leaf |-> applied, comp |-> c.comp, img |-> c.img,
                      cleared |-> c.ok] : c \in Compress(applied, d.comp, img)}
          : d \in Decompress(l, comp, img) }

\* The check flush_buffer_to_leaf makes before taking buffer_lock.
NothingToFlush(buf, d) == buf = <<>> \/ ~d

\* flush_buffer_to_leaf as one step: the unlocked check, then the body.
FlushOutcomes(l, comp, img, buf, d) ==
    IF NothingToFlush(buf, d)
    THEN {[leaf |-> l, comp |-> comp, img |-> img, cleared |-> FALSE]}
    ELSE FlushBodyOutcomes(l, comp, img, buf)

\* Commit one flush outcome f to the leaf and the buffer.
Flushed(f) ==
    /\ leaf' = f.leaf
    /\ is_compressed' = f.comp
    /\ image' = f.img
    /\ buffer' = IF f.cleared THEN <<>> ELSE buffer
    /\ dirty' = IF f.cleared THEN FALSE ELSE dirty

-----------------------------------------------------------------------------
(* Initial state: bplus_tree_compressed_init_with_config on an empty base  *)
(* tree.  Only with lazy compression on does it allocate the work queue    *)
(* and start the flusher, which then waits on the queue; fpc = "none"      *)
(* stands for no work queue and no thread.                                 *)

Init ==
    /\ leaf = [k \in Keys |-> NOT_FOUND]
    /\ is_compressed = FALSE
    /\ image = [k \in Keys |-> NOT_FOUND]
    /\ buffer = <<>>
    /\ dirty = FALSE
    /\ queue = 0
    /\ writer = NoThread
    /\ readers = {}
    /\ pc = [c \in Clients |-> "idle"]
    /\ op = [c \in Clients |-> CHOOSE r \in Record : TRUE]
    /\ ret = [c \in Clients |-> NOT_FOUND]
    /\ lazy \in LazyModes
    /\ fpc = IF lazy THEN "wait" ELSE "none"
    /\ shutdown_flag = FALSE
    /\ owner = "running"
    /\ calls = 0
    /\ latest = [k \in Keys |-> NOT_FOUND]

-----------------------------------------------------------------------------
(* Callers.  A call starts while the tree is alive; the caller contract of *)
(* bplus_tree_compressed_deinit is that no call runs concurrently with it. *)

Call(c) ==
    /\ pc[c] = "idle"
    /\ owner = "running"
    /\ calls < MaxCalls
    /\ calls' = calls + 1

Return(c) == pc' = [pc EXCEPT ![c] = "idle"]

\* bplus_tree_compressed_put(ct_tree, key, data), up to the write lock.
bplus_tree_compressed_put(c, k, v) ==
    /\ Call(c)
    /\ pc' = [pc EXCEPT ![c] = "put_lock"]
    /\ op' = [op EXCEPT ![c] = [key |-> k, value |-> v]]
    /\ UNCHANGED <<leaf, is_compressed, image, buffer, dirty, queue, writer,
                   readers, ret, fpc, shutdown_flag, owner, latest, lazy>>

\* bplus_tree_compressed_delete is a put of 0.
bplus_tree_compressed_delete(c, k) == bplus_tree_compressed_put(c, k, DELETED)

\* bplus_tree_compressed_get, up to the read lock.
bplus_tree_compressed_get(c, k) ==
    /\ Call(c)
    /\ pc' = [pc EXCEPT ![c] = "get_lock"]
    /\ op' = [op EXCEPT ![c] = [key |-> k, value |-> DELETED]]
    /\ UNCHANGED <<leaf, is_compressed, image, buffer, dirty, queue, writer,
                   readers, ret, fpc, shutdown_flag, owner, latest, lazy>>

WriteLockFree == writer = NoThread /\ readers = {}

\* find_leaf_for_key finds a leaf once the base tree has a root, which its
\* first bplus_tree_put creates (an empty tree's root is NULL).
HasLeaf == \E k \in Keys : leaf[k] # NOT_FOUND

\* The test at line 774: the buffered path needs a leaf and lazy compression.
Buffered == HasLeaf /\ lazy

\* wrlock, and find_leaf_for_key finding no leaf or lazy compression off:
\* the put goes straight to the direct insertion.
put_unbuffered(c) ==
    /\ pc[c] = "put_lock"
    /\ WriteLockFree
    /\ ~Buffered
    /\ writer' = c
    /\ pc' = [pc EXCEPT ![c] = "put_direct"]
    /\ UNCHANGED <<leaf, is_compressed, image, buffer, dirty, queue, readers,
                   op, ret, fpc, shutdown_flag, owner, calls, latest, lazy>>

\* wrlock, find_leaf_for_key, and add_to_buffer succeeding.  With no flush
\* needed the put unlocks and returns 0 in the same step.
put_buffered(c) ==
    LET r == op[c]
        nb == AddToBuffer(buffer, r)
    IN /\ pc[c] = "put_lock"
       /\ WriteLockFree
       /\ Buffered
       /\ Len(buffer) < MAX_BUFFER_ENTRIES
       /\ buffer' = nb
       /\ dirty' = TRUE
       /\ latest' = [latest EXCEPT ![r.key] = r.value]
       /\ IF NeedsFlush(Len(nb))
          THEN /\ writer' = c
               /\ pc' = [pc EXCEPT ![c] = "put_enqueue"]
          ELSE /\ UNCHANGED writer
               /\ Return(c)
       /\ UNCHANGED <<leaf, is_compressed, image, queue, readers, op, ret, fpc,
                      shutdown_flag, owner, calls, lazy>>

\* wrlock, find_leaf_for_key, and add_to_buffer refusing a full buffer.
put_buffer_full(c) ==
    /\ pc[c] = "put_lock"
    /\ WriteLockFree
    /\ Buffered
    /\ Len(buffer) >= MAX_BUFFER_ENTRIES
    /\ writer' = c
    /\ pc' = [pc EXCEPT ![c] = "put_sync_flush"]
    /\ UNCHANGED <<leaf, is_compressed, image, buffer, dirty, queue, readers,
                   op, ret, fpc, shutdown_flag, owner, calls, latest, lazy>>

\* add_to_buffer's work item appended under queue_lock, then the unlock.
put_enqueue(c) ==
    /\ pc[c] = "put_enqueue"
    /\ queue' = queue + 1
    /\ writer' = NoThread
    /\ Return(c)
    /\ UNCHANGED <<leaf, is_compressed, image, buffer, dirty, readers, op, ret,
                   fpc, shutdown_flag, owner, calls, latest, lazy>>

\* Fault variant of put_sync_flush: the full buffer is not flushed.
put_sync_flush_skipped(c) ==
    /\ pc[c] = "put_sync_flush"
    /\ pc' = [pc EXCEPT ![c] = "put_direct"]
    /\ UNCHANGED <<leaf, is_compressed, image, buffer, dirty, queue, writer,
                   readers, op, ret, fpc, shutdown_flag, owner, calls, latest, lazy>>

\* The recompression after bplus_tree_put, made only with lazy compression
\* on; with it off the leaf keeps whatever state the decompression left.
Recompress(l, comp, img) ==
    IF lazy THEN Compress(l, comp, img)
    ELSE {[comp |-> comp, img |-> img, ok |-> TRUE]}

\* The synchronous flush_buffer_to_leaf of a put that found the buffer
\* full; its result is ignored.
put_sync_flush(c) ==
    /\ pc[c] = "put_sync_flush"
    /\ \E f \in FlushOutcomes(leaf, is_compressed, image, buffer, dirty) :
          Flushed(f)
    /\ pc' = [pc EXCEPT ![c] = "put_direct"]
    /\ UNCHANGED <<queue, writer, readers, op, ret, fpc, shutdown_flag, owner,
                   calls, latest, lazy>>

\* Fault variant of put_direct: bplus_tree_put on a leaf still marked
\* compressed, without decompressing it first.
put_direct_no_decompress(c) ==
    LET r == op[c]
        l2 == [leaf EXCEPT ![r.key] = r.value]
    IN /\ pc[c] = "put_direct"
       /\ \E cp \in Recompress(l2, is_compressed, image) :
            /\ leaf' = l2
            /\ is_compressed' = cp.comp
            /\ image' = cp.img
       /\ latest' = [latest EXCEPT ![r.key] = r.value]
       /\ writer' = NoThread
       /\ Return(c)
       /\ UNCHANGED <<buffer, dirty, queue, readers, op, ret, fpc,
                      shutdown_flag, owner, calls, lazy>>

\* The direct insertion: decompress a compressed leaf (result ignored),
\* bplus_tree_put, recompress when lazy compression is on, unlock and
\* return 0.
put_direct(c) ==
    LET r == op[c]
    IN /\ pc[c] = "put_direct"
       /\ \E d \in Decompress(leaf, is_compressed, image) :
            LET l2 == [d.leaf EXCEPT ![r.key] = r.value]
            IN \E cp \in Recompress(l2, d.comp, image) :
                 /\ leaf' = l2
                 /\ is_compressed' = cp.comp
                 /\ image' = cp.img
       /\ latest' = [latest EXCEPT ![r.key] = r.value]
       /\ writer' = NoThread
       /\ Return(c)
       /\ UNCHANGED <<buffer, dirty, queue, readers, op, ret, fpc,
                      shutdown_flag, owner, calls, lazy>>

\* rdlock.
get_lock(c) ==
    /\ pc[c] = "get_lock"
    /\ writer = NoThread
    /\ readers' = readers \cup {c}
    /\ pc' = [pc EXCEPT ![c] = "get_read"]
    /\ UNCHANGED <<leaf, is_compressed, image, buffer, dirty, queue, writer,
                   op, ret, fpc, shutdown_flag, owner, calls, latest, lazy>>

\* bplus_tree_get on the base tree, unlock, return.
get_read(c) ==
    /\ pc[c] = "get_read"
    /\ ret' = [ret EXCEPT ![c] = leaf[op[c].key]]
    /\ readers' = readers \ {c}
    /\ Return(c)
    /\ UNCHANGED <<leaf, is_compressed, image, buffer, dirty, queue, writer,
                   op, fpc, shutdown_flag, owner, calls, latest, lazy>>

\* bplus_tree_compressed_set_config: ct_tree->config = *config, with no
\* lock, as one step.  Without ConfigToggles a caller writes back the flag
\* it read with get_config, as lazy_flush_test.c does; with them it may
\* flip it.  The other fields it copies are not read by the modelled code.
bplus_tree_compressed_set_config(c, l) ==
    /\ Call(c)
    /\ l \in IF ConfigToggles THEN BOOLEAN ELSE {lazy}
    /\ lazy' = l
    /\ UNCHANGED <<leaf, is_compressed, image, buffer, dirty, queue, writer,
                   readers, pc, op, ret, fpc, shutdown_flag, owner, latest>>

\* bplus_tree_compressed_flush_all_buffers: flush_buffer_to_leaf for the
\* one leaf, without rwlock.  Its unlocked check of count and dirty.
bplus_tree_compressed_flush_all_buffers(c) ==
    /\ Call(c)
    /\ pc' = [pc EXCEPT ![c] = "flush_check"]
    /\ UNCHANGED <<leaf, is_compressed, image, buffer, dirty, queue, writer,
                   readers, op, ret, fpc, shutdown_flag, owner, latest, lazy>>

flush_all_check(c) ==
    /\ pc[c] = "flush_check"
    /\ IF NothingToFlush(buffer, dirty) THEN Return(c)
       ELSE pc' = [pc EXCEPT ![c] = "flush_body"]
    /\ UNCHANGED <<leaf, is_compressed, image, buffer, dirty, queue, writer,
                   readers, op, ret, fpc, shutdown_flag, owner, calls, latest, lazy>>

\* The rest of flush_buffer_to_leaf, under buffer_lock only.
flush_all_body(c) ==
    /\ pc[c] = "flush_body"
    /\ \E f \in FlushBodyOutcomes(leaf, is_compressed, image, buffer) :
          Flushed(f)
    /\ Return(c)
    /\ UNCHANGED <<queue, writer, readers, op, ret, fpc, shutdown_flag, owner,
                   calls, latest, lazy>>

\* The steps of a call in progress.
InCall(c) ==
    \/ put_unbuffered(c) \/ put_buffered(c) \/ put_buffer_full(c) \/ put_enqueue(c)
    \/ put_sync_flush(c) \/ put_direct(c)
    \/ get_lock(c) \/ get_read(c)
    \/ flush_all_check(c) \/ flush_all_body(c)

-----------------------------------------------------------------------------
(* background_compression_thread.  It takes queue_lock, never rwlock.      *)

FlusherVars == <<leaf, is_compressed, image, buffer, dirty>>

\* Fault variant of fl_dequeue: the wait loop's count test is dropped, so
\* a wakeup takes an item from an empty queue.
fl_dequeue_no_wait ==
    /\ fpc = "wait"
    /\ ~shutdown_flag
    /\ queue' = queue - 1
    /\ fpc' = "check"
    /\ UNCHANGED <<FlusherVars, writer, readers, pc, op, ret, shutdown_flag,
                   owner, calls, latest, lazy>>

\* Wait on queue_cond until there is work, then take the head item.
fl_dequeue ==
    /\ fpc = "wait"
    /\ ~shutdown_flag
    /\ queue > 0
    /\ queue' = queue - 1
    /\ fpc' = "check"
    /\ UNCHANGED <<FlusherVars, writer, readers, pc, op, ret, shutdown_flag,
                   owner, calls, latest, lazy>>

\* The loop's shutdown checks: leave without taking another item.
fl_exit ==
    /\ fpc = "wait"
    /\ shutdown_flag
    /\ fpc' = "exited"
    /\ UNCHANGED <<FlusherVars, queue, writer, readers, pc, op, ret,
                   shutdown_flag, owner, calls, latest, lazy>>

\* flush_buffer_to_leaf's check of count and dirty, made without the lock.
fl_check ==
    /\ fpc = "check"
    /\ fpc' = IF NothingToFlush(buffer, dirty) THEN "wait" ELSE "flush"
    /\ UNCHANGED <<FlusherVars, queue, writer, readers, pc, op, ret,
                   shutdown_flag, owner, calls, latest, lazy>>

\* The rest of flush_buffer_to_leaf, under buffer_lock only.
fl_flush ==
    /\ fpc = "flush"
    /\ \E f \in FlushBodyOutcomes(leaf, is_compressed, image, buffer) :
          Flushed(f)
    /\ fpc' = "wait"
    /\ UNCHANGED <<queue, writer, readers, pc, op, ret, shutdown_flag, owner,
                   calls, latest, lazy>>

-----------------------------------------------------------------------------
(* bplus_tree_compressed_deinit.                                           *)

\* With lazy compression on: set shutdown_flag and signal queue_cond.  With
\* it off the flag is left alone and no thread is joined.
deinit_signal ==
    /\ owner = "running"
    /\ \A c \in Clients : pc[c] = "idle"
    /\ shutdown_flag' = (shutdown_flag \/ lazy)
    /\ owner' = "joining"
    /\ UNCHANGED <<FlusherVars, queue, writer, readers, pc, op, ret, fpc,
                   calls, latest, lazy>>

\* Fault variant of deinit_flush_all: the tree is torn down without
\* waiting for the flusher thread.
deinit_flush_all_no_join ==
    /\ owner = "joining"
    /\ \E f \in FlushOutcomes(leaf, is_compressed, image, buffer, dirty) :
          Flushed(f)
    /\ queue' = 0
    /\ owner' = "destroyed"
    /\ UNCHANGED <<writer, readers, pc, op, ret, fpc, shutdown_flag, calls,
                   latest, lazy>>

\* pthread_join when lazy compression is on (config read again at line
\* 47), bplus_tree_compressed_flush_all_buffers (result ignored), then the
\* queue's remaining items, the queue and the tree are freed.
deinit_flush_all ==
    /\ owner = "joining"
    /\ lazy => fpc = "exited"
    /\ \E f \in FlushOutcomes(leaf, is_compressed, image, buffer, dirty) :
          Flushed(f)
    /\ queue' = 0
    /\ owner' = "destroyed"
    /\ UNCHANGED <<writer, readers, pc, op, ret, fpc, shutdown_flag, calls,
                   latest, lazy>>

\* The tree is gone; the rest of the process goes on without it.
destroyed ==
    /\ owner = "destroyed"
    /\ UNCHANGED vars

-----------------------------------------------------------------------------

Caller(c) ==
    \/ \E k \in Keys, v \in Vals : bplus_tree_compressed_put(c, k, v)
    \/ \E k \in Keys : bplus_tree_compressed_delete(c, k)
    \/ \E k \in Keys : bplus_tree_compressed_get(c, k)
    \/ \E l \in BOOLEAN : bplus_tree_compressed_set_config(c, l)
    \/ bplus_tree_compressed_flush_all_buffers(c)
    \/ InCall(c)

Next ==
    \/ \E c \in Clients : Caller(c)
    \/ fl_dequeue \/ fl_exit \/ fl_check \/ fl_flush
    \/ deinit_signal \/ deinit_flush_all \/ destroyed

\* A caller inside a call keeps running until it returns; the flusher
\* thread is never descheduled for good; deinit, once begun, completes.
Fairness ==
    /\ \A c \in Clients : WF_vars(InCall(c))
    /\ WF_vars(fl_dequeue) /\ WF_vars(fl_exit)
    /\ WF_vars(fl_check) /\ WF_vars(fl_flush)
    /\ WF_vars(deinit_flush_all)

Spec == Init /\ [][Next]_vars /\ Fairness

-----------------------------------------------------------------------------
(* Properties.                                                             *)

\* Spec 8.4: the key -> value map of the leaf's arrays with the buffered
\* records applied in buffer order is the map of the writes that put and
\* delete have made, whatever the flusher, a synchronous flush or deinit
\* has done with the buffer so far.
LogicalMapPreserved == ApplyBuffer(leaf, buffer) = latest

\* Compression round trip (spec 8): while the leaf is marked compressed,
\* decompressing its sub-page blocks gives back the arrays readers see, so
\* the next flush or direct put starts from the current contents.
CompressedImageCurrent == is_compressed => image = leaf

\* Every buffered write reaches the leaf: add_to_buffer queues a work item
\* and the background thread flushes the buffer.
BufferDrains == buffer # <<>> ~> buffer = <<>>

\* Steps in which a caller touches the base tree's leaf arrays.
LeafAccess == {"get_read", "put_direct"}

\* The tree's rwlock guards the leaf (spec 5): the background thread never
\* rewrites the leaf while a caller is reading or writing it under rwlock.
NoLeafRace ==
    [][(fpc = "flush" /\ fpc' = "wait") =>
         \A c \in Clients : pc[c] \notin LeafAccess]_vars

\* The flusher thread's lifetime matches the work queue's users.
\* add_to_buffer appends to ct_tree->work_queue, and deinit signals it and
\* joins background_thread, only where init_with_config allocated and
\* started them; and deinit frees the queue and the tree only after the
\* thread has left its loop.  init, add_to_buffer and deinit each decide
\* by config.enable_lazy_compression, which set_config can change between
\* them.
FlusherLifecycle ==
    /\ \A c \in Clients : pc[c] = "put_enqueue" => fpc # "none"
    /\ owner = "joining" /\ shutdown_flag => fpc # "none"
    /\ owner = "destroyed" => fpc \in {"none", "exited"}

=============================================================================
