----------------------------- MODULE KeySearch -----------------------------
(***************************************************************************)
(* key_binary_search, the search both on-disk trees use on a node's key    *)
(* array (src/LO-tier/lib/bplustree_lo.c:25-42 and                         *)
(* src/SSD-tier/lib/bplustree.c:27-44).  It returns the 0-based index of   *)
(* target in arr[0..len-1], or -(insertion point)-1 when target is absent. *)
(* Sequences here are 1-based: C's arr[i] is arr[i + 1].                   *)
(***************************************************************************)
EXTENDS Integers, Sequences, FiniteSets

(* The while loop: low and high close in on the first element that is not  *)
(* smaller than target.  mid = low + (high - low) / 2 rounds down because  *)
(* high - low is positive.                                                 *)
RECURSIVE SearchLoop(_, _, _, _)
SearchLoop(arr, target, low, high) ==
    IF low + 1 < high
    THEN LET mid == low + (high - low) \div 2
         IN  IF target > arr[mid + 1]
             THEN SearchLoop(arr, target, mid, high)
             ELSE SearchLoop(arr, target, low, mid)
    ELSE high

(* A search that starts its lower bound at index 0 instead of -1.          *)
key_binary_search_low0(arr, len, target) ==
    LET high == SearchLoop(arr, target, 0, len)
    IN  IF high >= len \/ arr[high + 1] # target
        THEN -high - 1
        ELSE high

key_binary_search(arr, len, target) ==
    LET high == SearchLoop(arr, target, -1, len)
    IN  IF high >= len \/ arr[high + 1] # target
        THEN -high - 1
        ELSE high

(* Reference definition: the number of keys below target is where target   *)
(* is, or where it belongs.                                                *)
SearchReference(arr, len, target) ==
    LET below == Cardinality({i \in 1..len : arr[i] < target})
    IN  IF \E i \in 1..len : arr[i] = target THEN below ELSE -below - 1
=============================================================================
