---------------------------- MODULE MC_HashedLeaf ----------------------------
EXTENDS HashedLeaf, TLC

\* Key 2 hashes to sub-page 0 and keys 1 and 3 to sub-page 1.  A negative
\* int key such as -1 hashes to sub-page -1, whose slot range lies below
\* the arrays; adding it makes the out-of-bounds range a second way to
\* violate LeafWellFormed in as many steps.
MCKeys == {1, 2, 3}
=============================================================================
