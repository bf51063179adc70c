------------------------------- MODULE LOTree -------------------------------
(***************************************************************************)
(* The large-object index, src/LO-tier/lib/bplustree_lo.c: a B+ tree from  *)
(* key hash to object descriptor, used by zipcache.c under cache_lock, so  *)
(* each call is one atomic step.                                           *)
(*                                                                         *)
(* Nodes come from a pool NodeIds; a node's C arrays are sequences of      *)
(* their live length (leaf->entries keys and data, node->children          *)
(* sub_ptr and children - 1 keys).  chain is tree->list[0], the leaf list  *)
(* bplus_tree_lo_get_range walks; the lists of the upper levels are        *)
(* written but never read and are left out, as are the allocator counters  *)
(* next_lba, total_objects and total_size.  A descriptor is a member of    *)
(* Vals or INVALID_OBJECT_POINTER.  MAX_ENTRIES stands for                 *)
(* BPLUS_MAX_ENTRIES and ORDER for the order given to bplus_tree_lo_init;  *)
(* the code is written for any values of both.                             *)
(***************************************************************************)
EXTENDS Integers, Sequences, SequencesExt, FiniteSets, KeySearch

CONSTANTS Keys,               \* key hashes, integers
          Vals,               \* valid object descriptors
          INVALID_OBJECT_POINTER,
          MAX_ENTRIES,        \* BPLUS_MAX_ENTRIES
          ORDER,              \* tree->order
          MaxNodes,           \* size of the node pool
          InputOrder          \* "any", or "ascending": new keys arrive in increasing order

ASSUME ORDER >= 3 /\ MAX_ENTRIES >= 2 /\ InputOrder \in {"any", "ascending"}

NodeIds == 1..MaxNodes
NIL == 0
LEAF == "leaf"
NON_LEAF == "non_leaf"
FREE == "free"

VARIABLES ntype,    \* node -> LEAF, NON_LEAF or FREE
          nkey,     \* node -> key array
          ndata,    \* leaf -> data array
          nsub,     \* non-leaf -> sub_ptr array
          nparent,  \* node -> parent, or NIL
          root,     \* tree->root
          level,    \* tree->level
          entries,  \* tree->entries
          chain,    \* tree->list[0]
          latest,   \* history: what the last put or delete of each key left
          top,      \* history: the largest key put so far, or 0
          assert_failed, \* an assert() of the tree has aborted the process
          lookup,   \* what bplus_tree_lo_get returns for each key after the last call
          last_call \* history: the last put or delete that returned

tree == <<ntype, nkey, ndata, nsub, nparent, root, level, entries, chain, assert_failed>>
vars == <<tree, latest, top, lookup, last_call>>

TypeOK ==
    /\ ntype \in [NodeIds -> {LEAF, NON_LEAF, FREE}]
    /\ nkey \in [NodeIds -> Seq(Keys)]
    /\ ndata \in [NodeIds -> Seq(Vals)]
    /\ nsub \in [NodeIds -> Seq(NodeIds)]
    /\ nparent \in [NodeIds -> NodeIds \cup {NIL}]
    /\ root \in NodeIds /\ level \in Nat /\ entries \in Int
    /\ chain \in Seq(NodeIds)
    /\ latest \in [Keys -> Vals \cup {INVALID_OBJECT_POINTER}]
    /\ top \in Keys \cup {0}
    /\ assert_failed \in BOOLEAN
    /\ lookup \in [Keys -> Vals \cup {INVALID_OBJECT_POINTER}]
    /\ last_call \in {<<>>} \cup ({"put"} \X Keys \X Vals) \cup ({"delete"} \X Keys)

(* The whole tree as one record, so that a put can pass it through the     *)
(* mutually recursive split helpers.                                       *)
State == [type |-> ntype, key |-> nkey, data |-> ndata, sub |-> nsub,
          parent |-> nparent, root |-> root, level |-> level,
          entries |-> entries, chain |-> chain, failed |-> assert_failed]

(* The index of the child to descend into, as bplus_tree_lo_get,          *)
(* leaf_locate and bplus_tree_lo_put compute it: past an equal key, else   *)
(* at the insertion point.  1-based.                                       *)
ChildFor_equal_left(S, n, k) ==
    LET i == key_binary_search(S.key[n], Len(S.sub[n]) - 1, k)
    IN  IF i >= 0 THEN i + 1 ELSE -i

ChildFor(S, n, k) ==
    LET i == key_binary_search(S.key[n], Len(S.sub[n]) - 1, k)
    IN  IF i >= 0 THEN i + 2 ELSE -i

(* leaf_locate: the leaf a search for k ends in.                           *)
RECURSIVE Descend(_, _, _)
Descend(S, n, k) ==
    IF S.type[n] = LEAF THEN n ELSE Descend(S, S.sub[n][ChildFor(S, n, k)], k)

leaf_locate(S, k) == Descend(S, S.root, k)

bplus_tree_lo_get(S, k) ==
    LET l == leaf_locate(S, k)
        i == key_binary_search(S.key[l], Len(S.key[l]), k)
    IN  IF i >= 0 THEN S.data[l][i + 1] ELSE INVALID_OBJECT_POINTER

(* leaf_new and non_leaf_new take a node from the pool (calloc).           *)
NewNode(S) == CHOOSE n \in NodeIds : S.type[n] = FREE

Position(s, x) == SelectInSeq(s, LAMBDA y : y = x)

(* non_leaf_simple_insert: key goes in at insert and r_ch right after it.  *)
(* sub_ptr[insert] is left as it is; l_ch only gets its parent pointer.    *)
non_leaf_simple_insert(S, node, l_ch, r_ch, key, insert) ==
    [S EXCEPT !.key[node] = InsertAt(@, insert + 1, key),
              !.sub[node] = InsertAt(@, insert + 2, r_ch),
              !.parent[r_ch] = node,
              !.parent[l_ch] = node]

(* Re-point the parent pointers of the nodes in subs to p.                 *)
Adopt_none(parent, subs, p) == parent

Adopt(parent, subs, p) == [n \in DOMAIN parent |-> IF n \in ToSet(subs) THEN p ELSE parent[n]]
(* The first case of parent_node_build: a new root above left and right,  *)
(* one level up.                                                           *)
NewRoot_same_level(S, left, right, key) ==
    LET p == NewNode(S)
    IN  [S EXCEPT !.type[p] = NON_LEAF, !.key[p] = <<key>>, !.sub[p] = <<left, right>>,
                  !.parent[left] = p, !.parent[right] = p, !.root = p]

NewRoot(S, left, right, key) ==
    LET p == NewNode(S)
    IN  [S EXCEPT !.type[p] = NON_LEAF, !.key[p] = <<key>>, !.sub[p] = <<left, right>>,
                  !.parent[left] = p, !.parent[right] = p, !.root = p, !.level = @ + 1]

RECURSIVE parent_node_build(_, _, _, _), non_leaf_insert(_, _, _, _, _)

(* parent_node_build: after a split of left and right, either a new root   *)
(* holds the two, or the separator goes into an existing parent, which is  *)
(* right's parent when right already has one and left's otherwise.         *)
parent_node_build(S, left, right, key) ==
    IF S.parent[left] = NIL /\ S.parent[right] = NIL
    THEN NewRoot(S, left, right, key)
    ELSE IF S.parent[right] = NIL
    THEN non_leaf_insert([S EXCEPT !.parent[right] = S.parent[left]],
                         S.parent[left], left, right, key)
    ELSE non_leaf_insert([S EXCEPT !.parent[left] = S.parent[right]],
                         S.parent[right], left, right, key)

(* non_leaf_insert: a separator already in node fails assert(insert < 0), *)
(* which aborts the process.  Else insert key and r_ch into node,          *)
(* splitting a full node at split = children / 2.  When the insertion point is in the left half  *)
(* the right half moves to the sibling and the insert goes into node; else *)
(* the keys past key[split] move to the sibling, key[split] goes up, and   *)
(* the insert goes into the sibling at insert - split - 1, which is -1,    *)
(* and so skipped, when insert = split.                                    *)
non_leaf_insert(S, node, l_ch, r_ch, key) ==
    LET found    == key_binary_search(S.key[node], Len(S.key[node]), key)
        insert   == -found - 1
        children == Len(S.sub[node])
        split    == children \div 2
        sibling  == NewNode(S)
    IN
    IF found >= 0 THEN [S EXCEPT !.failed = TRUE]   \* assert(insert < 0)
    ELSE IF children < ORDER
    THEN non_leaf_simple_insert(S, node, l_ch, r_ch, key, insert)
    ELSE IF insert < split
    THEN LET sibSub == SubSeq(S.sub[node], split + 1, children)
             S1 == [S EXCEPT !.type[sibling] = NON_LEAF,
                             !.key[sibling] = SubSeq(S.key[node], split + 1, children - 1),
                             !.sub[sibling] = sibSub,
                             !.parent = Adopt(@, sibSub, sibling),
                             !.key[node] = SubSeq(@, 1, split - 1),
                             !.sub[node] = SubSeq(@, 1, split)]
         IN  parent_node_build(non_leaf_simple_insert(S1, node, l_ch, r_ch, key, insert),
                               node, sibling, S.key[node][split])
    ELSE LET count      == children - split - 1
             new_insert == insert - split - 1
             keys0 == SubSeq(S.key[node], split + 2, split + count)
             subs0 == SubSeq(S.sub[node], split + 2, children)
             sibKey == IF new_insert >= 0 THEN InsertAt(keys0, new_insert + 1, key) ELSE keys0
             sibSub == IF new_insert >= 0 THEN InsertAt(subs0, new_insert + 2, r_ch) ELSE subs0
             S1 == [S EXCEPT !.type[sibling] = NON_LEAF,
                             !.key[sibling] = sibKey,
                             !.sub[sibling] = sibSub,
                             !.parent = Adopt(@, sibSub, sibling),
                             !.key[node] = SubSeq(@, 1, split),
                             !.sub[node] = SubSeq(@, 1, split + 1)]
         IN  parent_node_build(S1, node, sibling, S.key[node][split + 1])

(* leaf_insert: update an existing key in place; insert into a leaf with   *)
(* room; or split a full leaf at split = (MAX_ENTRIES + 1) / 2.  The first *)
(* split entries of the merged array stay on the left: in a new sibling    *)
(* linked before leaf when the insertion point is below split              *)
(* (leaf_split_left), in leaf itself otherwise, with the rest in a new     *)
(* sibling linked after it (leaf_split_right).                             *)
leaf_split_left(S, leaf, sibling, keys, data, split) ==
    [S EXCEPT !.type[sibling] = LEAF,
              !.key[sibling] = SubSeq(keys, 1, split),
              !.data[sibling] = SubSeq(data, 1, split),
              !.key[leaf] = SubSeq(keys, split + 1, Len(keys)),
              !.data[leaf] = SubSeq(data, split + 1, Len(data)),
              !.chain = InsertAt(@, Position(@, leaf), sibling),
              !.entries = @ + 1]

leaf_split_right_drop(S, leaf, sibling, keys, data, split) ==
    [S EXCEPT !.type[sibling] = LEAF,
              !.key[leaf] = SubSeq(keys, 1, split),
              !.data[leaf] = SubSeq(data, 1, split),
              !.key[sibling] = SubSeq(keys, split + 2, Len(keys)),
              !.data[sibling] = SubSeq(data, split + 2, Len(data)),
              !.chain = InsertAt(@, Position(@, leaf) + 1, sibling),
              !.entries = @ + 1]

leaf_split_right_chain_before(S, leaf, sibling, keys, data, split) ==
    [S EXCEPT !.type[sibling] = LEAF,
              !.key[leaf] = SubSeq(keys, 1, split),
              !.data[leaf] = SubSeq(data, 1, split),
              !.key[sibling] = SubSeq(keys, split + 1, Len(keys)),
              !.data[sibling] = SubSeq(data, split + 1, Len(data)),
              !.chain = InsertAt(@, Position(@, leaf), sibling),
              !.entries = @ + 1]

leaf_split_right(S, leaf, sibling, keys, data, split) ==
    [S EXCEPT !.type[sibling] = LEAF,
              !.key[leaf] = SubSeq(keys, 1, split),
              !.data[leaf] = SubSeq(data, 1, split),
              !.key[sibling] = SubSeq(keys, split + 1, Len(keys)),
              !.data[sibling] = SubSeq(data, split + 1, Len(data)),
              !.chain = InsertAt(@, Position(@, leaf) + 1, sibling),
              !.entries = @ + 1]

leaf_insert(S, leaf, key, obj) ==
    LET found   == key_binary_search(S.key[leaf], Len(S.key[leaf]), key)
        insert  == -found - 1
        keys    == InsertAt(S.key[leaf], insert + 1, key)
        data    == InsertAt(S.data[leaf], insert + 1, obj)
        split   == (MAX_ENTRIES + 1) \div 2
        sibling == NewNode(S)
    IN
    IF found >= 0
    THEN [S EXCEPT !.data[leaf][found + 1] = obj]
    ELSE IF Len(S.key[leaf]) < MAX_ENTRIES
    THEN [S EXCEPT !.key[leaf] = keys, !.data[leaf] = data, !.entries = @ + 1]
    ELSE IF insert < split
    THEN parent_node_build(leaf_split_left(S, leaf, sibling, keys, data, split),
                           sibling, leaf, keys[split + 1])
    ELSE parent_node_build(leaf_split_right(S, leaf, sibling, keys, data, split),
                           leaf, sibling, keys[split + 1])

(* leaf_remove: shift the tail left over the key; no rebalancing.          *)
leaf_remove(S, leaf, key) ==
    LET pos == key_binary_search(S.key[leaf], Len(S.key[leaf]), key)
    IN  IF pos < 0 THEN S
        ELSE [S EXCEPT !.key[leaf] = RemoveAt(@, pos + 1),
                       !.data[leaf] = RemoveAt(@, pos + 1),
                       !.entries = @ - 1]

(* bplus_tree_lo_get_range: walk tree->list[0] leaf by leaf and collect    *)
(* the pairs with key1 <= key <= key2, at most max_count of them.          *)
bplus_tree_lo_get_range(S, key1, key2, max_count) ==
    LET pairs == FlattenSeq([i \in 1..Len(S.chain) |->
                    LET l == S.chain[i]
                    IN  [j \in 1..Len(S.key[l]) |-> <<S.key[l][j], S.data[l][j]>>]])
        inRange == SelectSeq(pairs, LAMBDA p : key1 <= p[1] /\ p[1] <= key2)
    IN  IF key1 > key2 \/ max_count <= 0 THEN <<>>
        ELSE SubSeq(inRange, 1, IF Len(inRange) < max_count THEN Len(inRange) ELSE max_count)

(* bplus_tree_lo_init(ORDER): one empty root leaf at level 1, the only    *)
(* member of tree->list[0].                                                *)
Init ==
    /\ ntype = [n \in NodeIds |-> IF n = 1 THEN LEAF ELSE FREE]
    /\ nkey = [n \in NodeIds |-> <<>>]
    /\ ndata = [n \in NodeIds |-> <<>>]
    /\ nsub = [n \in NodeIds |-> <<>>]
    /\ nparent = [n \in NodeIds |-> NIL]
    /\ root = 1
    /\ level = 1
    /\ entries = 0
    /\ chain = <<1>>
    /\ latest = [k \in Keys |-> INVALID_OBJECT_POINTER]
    /\ top = 0
    /\ assert_failed = FALSE
    /\ lookup = [k \in Keys |-> INVALID_OBJECT_POINTER]
    /\ last_call = <<>>

SetTree(S) ==
    /\ ntype' = S.type /\ nkey' = S.key /\ ndata' = S.data /\ nsub' = S.sub
    /\ nparent' = S.parent /\ root' = S.root /\ level' = S.level
    /\ entries' = S.entries /\ chain' = S.chain /\ assert_failed' = S.failed
    /\ lookup' = [k \in Keys |-> bplus_tree_lo_get(S, k)]

(* A put can take one node per level plus a new root; the pool bounds the  *)
(* tree (the code asserts calloc never fails).                             *)
PoolHasRoom == Cardinality({n \in NodeIds : ntype[n] = FREE}) >= level + 1

(* The caller's keys: any key, or, for InputOrder = "ascending", a key     *)
(* that is present or above every key put so far, as the sequential       *)
(* workloads of src/LO-tier/tests/splitting_test.c insert them.            *)
KeyArrives(k) == InputOrder = "any" \/ latest[k] # INVALID_OBJECT_POINTER \/ k > top

bplus_tree_lo_put_unchecked(k, v) ==
    /\ PoolHasRoom
    /\ KeyArrives(k)
    /\ SetTree(leaf_insert(State, leaf_locate(State, k), k, v))
    /\ latest' = [latest EXCEPT ![k] = v]
    /\ top' = IF k > top THEN k ELSE top
    /\ last_call' = <<"put", k, v>>

(* bplus_tree_lo_put: reject an invalid descriptor, else descend to the    *)
(* leaf and leaf_insert there.                                             *)
bplus_tree_lo_put(k, v) ==
    /\ PoolHasRoom
    /\ KeyArrives(k)
    /\ IF v = INVALID_OBJECT_POINTER
       THEN UNCHANGED vars
       ELSE /\ SetTree(leaf_insert(State, leaf_locate(State, k), k, v))
            /\ latest' = [latest EXCEPT ![k] = v]
            /\ top' = IF k > top THEN k ELSE top
            /\ last_call' = <<"put", k, v>>

(* bplus_tree_lo_delete: descend to the leaf and leaf_remove there.        *)
bplus_tree_lo_delete(k) ==
    /\ SetTree(leaf_remove(State, leaf_locate(State, k), k))
    /\ latest' = [latest EXCEPT ![k] = INVALID_OBJECT_POINTER]
    /\ last_call' = <<"delete", k>>
    /\ UNCHANGED top

Next ==
    ~assert_failed /\ \E k \in Keys :
        \/ \E v \in Vals \cup {INVALID_OBJECT_POINTER} : bplus_tree_lo_put(k, v)
        \/ bplus_tree_lo_delete(k)

Spec == Init /\ [][Next]_vars

(* The nodes reachable from n.                                             *)
RECURSIVE Reachable(_, _)
Reachable(S, n) ==
    IF S.type[n] = LEAF THEN {n}
    ELSE {n} \cup UNION {Reachable(S, c) : c \in ToSet(S.sub[n])}

(* Every node of the tree below the root points to a parent that holds it, *)
(* so that parent_node_build, which climbs by these pointers, inserts a    *)
(* split's separator into the node that holds the split node.              *)
ParentsAgree ==
    \A n \in Reachable(State, root) \ {root} :
        /\ nparent[n] \in Reachable(State, root)
        /\ n \in ToSet(nsub[nparent[n]])

-----------------------------------------------------------------------------
(* The tree implements the map of LOMap: what bplus_tree_lo_get returns    *)
(* for each key, recorded in lookup after every call, is the abstract map. *)
LOM == INSTANCE LOMap WITH NoObject <- INVALID_OBJECT_POINTER,
                            lomap <- lookup, last <- last_call

(* Every put or delete changes what bplus_tree_lo_get returns for its own *)
(* key, in the way LOMap says, and for no other key: a put is never lost   *)
(* and a split never hides a key that was there before.                    *)
LOMapRefined == LOM!Spec

(* The leaves on tree->list[0] hold, in order and once each, exactly the   *)
(* keys and descriptors the puts and deletes left, so that                 *)
(* bplus_tree_lo_get_range over all keys returns the map in key order.     *)
ChainListsMap ==
    LET present == {k \in Keys : latest[k] # INVALID_OBJECT_POINTER}
        sorted  == SetToSortSeq(present, <)
    IN  bplus_tree_lo_get_range(State, Min(Keys), Max(Keys), Cardinality(Keys))
          = [i \in 1..Len(sorted) |-> <<sorted[i], latest[sorted[i]]>>]

(* assert(insert < 0) in non_leaf_insert never aborts the process: every  *)
(* separator a leaf or non-leaf split sends up is new to the parent that   *)
(* receives it, through splits that cascade to a new root.                 *)
NoAssertAbort == ~assert_failed

(* The depths at which the leaves under n hang, n at depth d.              *)
RECURSIVE LeafDepths(_, _, _)
LeafDepths(S, n, d) ==
    IF S.type[n] = LEAF THEN {d}
    ELSE UNION {LeafDepths(S, c, d + 1) : c \in ToSet(S.sub[n])}

(* Every leaf reachable from the root is at depth tree->level, whatever    *)
(* the order of splits: a split adds a level only at a new root.           *)
LevelsBalanced == LeafDepths(State, root, 1) = {level}

(* Every search the tree makes on a node's key array (leaf->entries keys,  *)
(* or children - 1 keys of a non-leaf) gives what the reference search     *)
(* gives, for every key: the arrays stay sorted through every split, and   *)
(* the loop's bounds are right for every length the nodes reach.           *)
SearchAgrees ==
    \A n \in NodeIds, k \in Keys :
        ntype[n] # FREE =>
            key_binary_search(nkey[n], Len(nkey[n]), k) = SearchReference(nkey[n], Len(nkey[n]), k)

=============================================================================
