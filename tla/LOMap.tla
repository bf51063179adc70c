------------------------------- MODULE LOMap -------------------------------
(***************************************************************************)
(* What the large-object index promises its caller, zipcache.c: a map from *)
(* key hash to object descriptor.  bplus_tree_lo_put(k, p) makes k map to  *)
(* p, bplus_tree_lo_delete(k) removes k, and bplus_tree_lo_get(k) returns  *)
(* what k maps to, or INVALID_OBJECT_POINTER when nothing does             *)
(* (bplustree_lo.h:165-167).  last is the call that returned last, so that *)
(* a call whose effect the map does not show is a step, not a stutter.     *)
(***************************************************************************)
CONSTANTS Keys, Vals, NoObject

VARIABLES lomap, last

Init == lomap = [k \in Keys |-> NoObject] /\ last = <<>>

Put(k, v) == lomap' = [lomap EXCEPT ![k] = v] /\ last' = <<"put", k, v>>

Delete(k) == lomap' = [lomap EXCEPT ![k] = NoObject] /\ last' = <<"delete", k>>

Next == \E k \in Keys : Delete(k) \/ \E v \in Vals : Put(k, v)

Spec == Init /\ [][Next]_<<lomap, last>>
=============================================================================
