---------------------------- MODULE MC_SSDPrograms ----------------------------
(***************************************************************************)
(* The two programs that drive src/SSD-tier/lib/bplustree.c, checked in   *)
(* one model: prog is chosen at the start and never changes.               *)
(*   "tree": bplus_tree_ssd_init, then bplus_tree_ssd_put and _get        *)
(*           (SSDTree), as ssd_test.c drives the tree;                    *)
(*   "leaf": disk_manager_init and one super_leaf_create, then the hashed *)
(*           super-leaf API (SSDSuperLeaf), as hashed_io_test.c drives it. *)
(* Both share the state and the operators of SSDTree, so each invariant   *)
(* about sub-pages, blocks and the write-back cache is checked under      *)
(* both callers.                                                           *)
(***************************************************************************)
EXTENDS SSDSuperLeaf, TLC

VARIABLE prog

Programs == {"tree", "leaf"}

ProgInit ==
    \/ prog = "tree" /\ Init
    \/ prog = "leaf" /\ LeafInit

ProgNext ==
    /\ \/ prog = "tree" /\ Next
       \/ prog = "leaf" /\ LeafNext
    /\ UNCHANGED prog

ProgSpec == ProgInit /\ [][ProgNext]_<<vars, prog>>

-----------------------------------------------------------------------------
\* Each program's type invariant (the super-leaf program also deletes, so
\* its last call may be a delete).
ProgTypeOK ==
    /\ prog \in Programs
    /\ prog = "tree" => TypeOK
    /\ prog = "leaf" => LeafTypeOK

(* The super-leaf, driven through its hashed API, is a key-value map: a   *)
(* super_leaf_insert_hashed that returns 0 makes super_leaf_search_hashed *)
(* return its data, a super_leaf_delete_hashed that returns 0 makes it    *)
(* miss, and no call or flush changes what any other key's search        *)
(* returns.                                                                *)
LeafProgramRefinesMap ==
    /\ prog = "leaf" => SSDM!Init
    /\ [][prog = "leaf" => [SSDM!Next]_<<lookup, last_call>>]_<<vars, prog>>
=============================================================================
