----------------------------- MODULE SSDSuperLeaf -----------------------------
(***************************************************************************)
(* One super-leaf of src/SSD-tier/lib/bplustree.c driven through its own  *)
(* public API (bplustree.h:244-275), as hashed_io_test.c drives it: a     *)
(* disk manager and one super_leaf_create, then super_leaf_insert_hashed, *)
(* _search_hashed, _delete_hashed and super_leaf_flush_dirty on it, in    *)
(* any order.  The state and the operators on it are those of SSDTree;   *)
(* the root fields stay as bplus_tree_ssd_init left them.  lookup is what *)
(* super_leaf_search_hashed returns for each key.                          *)
(***************************************************************************)
EXTENDS SSDTree

\* The one super-leaf the caller created.
Leaf == 1

-----------------------------------------------------------------------------
(* A sub_page_delete whose memmove length drops the entries after pos.     *)
sub_page_delete_truncating(p, k) ==
    LET pos == key_binary_search(PageKeys(p), Len(p), k)
    IN  IF pos < 0 THEN [p |-> p, r |-> -1] ELSE [p |-> SubSeq(p, 1, pos), r |-> 0]

(* sub_page_delete: -1 when the key is absent, else shift the tail down    *)
(* over it.                                                                *)
sub_page_delete(p, k) ==
    LET pos == key_binary_search(PageKeys(p), Len(p), k)
    IN  IF pos < 0 THEN [p |-> p, r |-> -1] ELSE [p |-> RemoveAt(p, pos + 1), r |-> 0]

(* A delete that counts one entry less even when the key was not found.    *)
super_leaf_delete_hashed_always_counts(S, l, k) ==
    LET i == SubPageOf[k]
    IN  IF S.blk[l][i] = INVALID_BLOCK_ID THEN [S |-> S, r |-> -1]
        ELSE LET L == super_leaf_load_sub_page_by_hash(S, l, k)
                 D == sub_page_delete(L.S.page[l][i], k)
             IN  [S |-> [L.S EXCEPT !.page[l][i] = D.p, !.dirty[l][i] = @ \/ D.r = 0,
                                    !.total[l] = @ - 1], r |-> D.r]

(* super_leaf_delete_hashed: -1 when the key's sub-page has no block;      *)
(* else load it (its block exists, so the load is a cache hit or a read)  *)
(* and delete there, marking it dirty and counting one entry less.        *)
super_leaf_delete_hashed(S, l, k) ==
    LET i == SubPageOf[k]
    IN  IF S.blk[l][i] = INVALID_BLOCK_ID THEN [S |-> S, r |-> -1]
        ELSE LET L == super_leaf_load_sub_page_by_hash(S, l, k)
                 D == sub_page_delete(L.S.page[l][i], k)
             IN  IF D.r # 0 THEN [S |-> L.S, r |-> -1]
                 ELSE [S |-> [L.S EXCEPT !.page[l][i] = D.p, !.dirty[l][i] = TRUE,
                                         !.total[l] = @ - 1], r |-> 0]

-----------------------------------------------------------------------------
(* What super_leaf_search_hashed returns for k.                            *)
Found(S, k) == super_leaf_search_hashed(S, Leaf, k).r

SetLeaf(T) ==
    /\ bitmap' = T.bitmap /\ allocated_blocks' = T.nalloc /\ next_search_hint' = T.hint
    /\ disk' = T.disk /\ total_entries' = T.total /\ active_sub_pages' = T.active
    /\ sub_page_blocks' = T.blk /\ cached' = T.cached /\ page' = T.page
    /\ dirty_flags' = T.dirty
    /\ lookup' = [k \in Keys |-> Found(T, k)]
    /\ UNCHANGED <<live, rooted, key, sub_ptr, level, closed>>

(* disk_manager_init (a zeroed file, an empty allocator), then             *)
(* super_leaf_create: no sub-page has a block yet.                         *)
LeafInit ==
    /\ bitmap = {} /\ allocated_blocks = 0 /\ next_search_hint = 0
    /\ disk = [b \in Blocks |-> <<>>]
    /\ live = {Leaf} /\ total_entries = [l \in LeafIds |-> 0]
    /\ active_sub_pages = [l \in LeafIds |-> 0]
    /\ sub_page_blocks = [l \in LeafIds |-> [i \in Slots |-> INVALID_BLOCK_ID]]
    /\ cached = [l \in LeafIds |-> [i \in Slots |-> FALSE]]
    /\ page = [l \in LeafIds |-> [i \in Slots |-> <<>>]]
    /\ dirty_flags = [l \in LeafIds |-> [i \in Slots |-> FALSE]]
    /\ rooted = FALSE /\ key = <<>> /\ sub_ptr = <<>> /\ level = 0
    /\ closed = FALSE
    /\ lookup = [k \in Keys |-> -1]
    /\ last_call = <<>>

(* A put: super_leaf_insert_hashed.  An update counts as one more entry,  *)
(* so puts stop at MaxTotal (TotalBelowBound).                             *)
leaf_put(k, data) ==
    /\ TotalBelowBound
    /\ \E I \in {super_leaf_insert_hashed(State, Leaf, k, data)} :
           /\ SetLeaf(I.S)
           /\ last_call' = IF I.r = 0 THEN <<"put", k, data>> ELSE last_call

(* A get: super_leaf_search_hashed, which loads the sub-page it reads     *)
(* into the cache.                                                         *)
leaf_get(k) ==
    /\ \E R \in {super_leaf_search_hashed(State, Leaf, k)} :
           SetLeaf(R.S)
    /\ UNCHANGED last_call

(* A delete: super_leaf_delete_hashed.                                     *)
leaf_delete(k) ==
    /\ \E D \in {super_leaf_delete_hashed(State, Leaf, k)} :
           /\ SetLeaf(D.S)
           /\ last_call' = IF D.r = 0 THEN <<"delete", k>> ELSE last_call

leaf_flush ==
    /\ SetLeaf(super_leaf_flush_dirty(State, Leaf))
    /\ UNCHANGED last_call

LeafNext ==
    \/ \E k \in Keys :
          \/ \E data \in Vals : leaf_put(k, data)
          \/ leaf_get(k)
          \/ leaf_delete(k)
    \/ leaf_flush

LeafSpec == LeafInit /\ [][LeafNext]_vars

-----------------------------------------------------------------------------
LeafTypeOK ==
    /\ bitmap \subseteq Blocks /\ allocated_blocks = Cardinality(bitmap)
    /\ \A b \in Blocks : IsSubPage(disk[b])
    /\ total_entries[Leaf] \in Nat
    /\ active_sub_pages[Leaf] \in 0..SUB_PAGES_PER_SUPER_LEAF
    /\ sub_page_blocks[Leaf] \in [Slots -> Blocks \cup {INVALID_BLOCK_ID}]
    /\ \A i \in Slots : IsSubPage(page[Leaf][i])
    /\ lookup \in [Keys -> Vals \cup {-1}]
    /\ last_call \in {<<>>} \cup ({"put"} \X Keys \X Vals) \cup ({"delete"} \X Keys)
=============================================================================
