------------------------------ MODULE HashedLeaf ------------------------------
(***************************************************************************)
(* The arrays of one DRAM leaf under src/DRAM-tier/lib/bplustree_compressed.c *)
(* with lazy compression on, as one caller's puts and the flushes of its  *)
(* buffer leave them.  Two writers share the arrays:                       *)
(*   - the base tree's bplus_tree_put (bplustree.h, not under src/), which *)
(*     keeps key[0..entries-1] sorted (spec 4.G) and is used for the      *)
(*     first put into an empty tree, the direct insertion after a full    *)
(*     buffer, and the flush's overflow path;                             *)
(*   - flush_to_hashed_leaf, which places each buffered record in the slot *)
(*     range of sub-page key % num_sub_pages, treating key 0 as a free    *)
(*     slot (spec 4.I).                                                    *)
(* Compression is left out here: a successful round trip gives the arrays *)
(* back (CompressedTree checks the compressed image and codec failures).  *)
(* Threads are left out too: the flusher's steps are whole flushes.       *)
(***************************************************************************)
EXTENDS Integers, Sequences, SequencesExt

CONSTANTS
    Keys,                \* key_t values a caller passes (int, any sign)
    Vals,                \* non-zero data values
    LEAF_ENTRIES,        \* tree->entries: slots in a leaf's key/data arrays
    NUM_SUB_PAGES,       \* config.default_sub_pages, copied into the metadata
    MAX_BUFFER_ENTRIES,  \* capacity of a writing_buffer
    MaxCalls             \* bound on the number of puts

ASSUME /\ Keys \subseteq Int /\ Vals \subseteq Int \ {0}
       /\ LEAF_ENTRIES \in Nat \ {0} /\ NUM_SUB_PAGES \in Nat \ {0}
       /\ MAX_BUFFER_ENTRIES \in Nat \ {0} /\ MaxCalls \in Nat

Slots == 0..LEAF_ENTRIES - 1

\* An array cell flush_to_hashed_leaf takes to be free.
EMPTY_KEY == 0

VARIABLES
    leaf,     \* [key, data: Slots -> Int, entries, oob, split]
    buffer,   \* writing_buffer entries[0..count-1]
    calls     \* number of puts made

vars == <<leaf, buffer, calls>>

Record == [key : Keys, value : Vals]

-----------------------------------------------------------------------------
(* C's % truncates toward zero, so a negative key has a negative remainder. *)
CRem(a, n) == IF a >= 0 THEN a % n ELSE -((-a) % n)

hash_key_to_sub_page(k, n) == IF n = 0 THEN 0 ELSE CRem(k, n)

\* bplus_tree_put into the leaf (spec 4.G): update the key in
\* key[0..entries-1], or shift the greater keys up one slot and insert it
\* in order.  A leaf with no free slot splits, which leaves this one leaf;
\* split marks that the model stops following it.
BasePut(L, k, v) ==
    LET n == L.entries
        Hit == {j \in 0..n - 1 : L.key[j] = k}
        pos == Cardinality({j \in 0..n - 1 : L.key[j] < k})
        Shift(a, x) == [j \in Slots |-> IF j < pos \/ j > n THEN a[j]
                                        ELSE IF j = pos THEN x ELSE a[j - 1]]
    IN  IF Hit # {} THEN [L EXCEPT !.data[Min(Hit)] = v]
        ELSE IF n = LEAF_ENTRIES THEN [L EXCEPT !.split = TRUE]
        ELSE [L EXCEPT !.key = Shift(L.key, k), !.data = Shift(L.data, v),
                       !.entries = n + 1]

\* One buffered record in flush_to_hashed_leaf's loop: scan the key's
\* sub-page range for the key (stop there) and remember the first free
\* slot; update in place, or take the free slot and raise entries past it,
\* or fall back to bplus_tree_put.  A range outside the arrays is an
\* out-of-bounds access; oob records it and the record has no modelled effect.
FlushRecord(L, r) ==
    LET cap == LEAF_ENTRIES \div NUM_SUB_PAGES
        start == hash_key_to_sub_page(r.key, NUM_SUB_PAGES) * cap
        range == start..start + cap - 1
    IN  IF L.oob \/ L.split THEN L
        ELSE IF ~(range \subseteq Slots) THEN [L EXCEPT !.oob = TRUE]
        ELSE LET T == {j \in range : L.key[j] = r.key}
                 E == {j \in range : L.key[j] = EMPTY_KEY}
             IN  IF T # {} THEN [L EXCEPT !.data[Min(T)] = r.value]
                 ELSE IF E # {}
                 THEN LET e == Min(E)
                      IN  [L EXCEPT !.key[e] = r.key, !.data[e] = r.value,
                                    !.entries = IF e >= @ THEN e + 1 ELSE @]
                 ELSE BasePut(L, r.key, r.value)

\* flush_to_hashed_leaf over the whole buffer, in buffer order.
flush_to_hashed_leaf(L, buf) == FoldLeft(FlushRecord, L, buf)

\* add_to_buffer: overwrite the key's record in place or append one.
AddToBuffer(buf, r) ==
    LET I == {i \in 1..Len(buf) : buf[i].key = r.key}
    IN  IF I # {} THEN [buf EXCEPT ![Min(I)] = r] ELSE Append(buf, r)

-----------------------------------------------------------------------------
(* bplus_tree_compressed_init: an empty base tree whose leaf arrays, once  *)
(* allocated, are zero.                                                    *)
Init ==
    /\ leaf = [key |-> [j \in Slots |-> 0], data |-> [j \in Slots |-> 0],
               entries |-> 0, oob |-> FALSE, split |-> FALSE]
    /\ buffer = <<>>
    /\ calls = 0

\* find_leaf_for_key finds a leaf once the first put has created the root.
HasLeaf == leaf.entries > 0

\* Commit a new leaf unless it left the one leaf the model follows.
SetLeaf(L) == ~L.split /\ leaf' = L

\* bplus_tree_compressed_put with no leaf yet: the direct insertion.
put_first(k, v) ==
    /\ calls < MaxCalls /\ ~HasLeaf
    /\ SetLeaf(BasePut(leaf, k, v))
    /\ calls' = calls + 1
    /\ UNCHANGED buffer

\* bplus_tree_compressed_put into a buffer with room (add_to_buffer then
\* queues a work item for the flusher).
put_buffered(k, v) ==
    /\ calls < MaxCalls /\ HasLeaf /\ Len(buffer) < MAX_BUFFER_ENTRIES
    /\ buffer' = AddToBuffer(buffer, [key |-> k, value |-> v])
    /\ calls' = calls + 1
    /\ UNCHANGED leaf

\* bplus_tree_compressed_put into a full buffer: the synchronous flush,
\* which clears the buffer, then the direct bplus_tree_put.
put_buffer_full(k, v) ==
    /\ calls < MaxCalls /\ HasLeaf /\ Len(buffer) >= MAX_BUFFER_ENTRIES
    /\ SetLeaf(BasePut(flush_to_hashed_leaf(leaf, buffer), k, v))
    /\ buffer' = <<>>
    /\ calls' = calls + 1

\* background_compression_thread: flush_buffer_to_leaf for a work item.
background_flush ==
    /\ buffer # <<>>
    /\ SetLeaf(flush_to_hashed_leaf(leaf, buffer))
    /\ buffer' = <<>>
    /\ UNCHANGED calls

Next ==
    \/ \E k \in Keys, v \in Vals :
          put_first(k, v) \/ put_buffered(k, v) \/ put_buffer_full(k, v)
    \/ background_flush

Spec == Init /\ [][Next]_vars

-----------------------------------------------------------------------------
TypeOK ==
    /\ leaf.key \in [Slots -> Keys \cup {0}] /\ leaf.data \in [Slots -> Vals \cup {0}]
    /\ leaf.entries \in 0..LEAF_ENTRIES /\ leaf.oob \in BOOLEAN
    /\ buffer \in Seq(Record) /\ Len(buffer) <= MAX_BUFFER_ENTRIES
    /\ calls \in 0..MaxCalls

(* What bplus_tree_get and bplus_tree_put assume of a leaf (spec 4.G):    *)
(* every access stays inside its arrays, and key[0..entries-1] is strictly *)
(* increasing, so a binary search over it finds every key the leaf holds. *)
(* Both the base tree's inserts and the hashed flush write these arrays. *)
LeafWellFormed ==
    /\ ~leaf.oob
    /\ \A j \in 1..leaf.entries - 1 : leaf.key[j - 1] < leaf.key[j]
=============================================================================
