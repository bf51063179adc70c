------------------------- MODULE MC_CompressedTree -------------------------
EXTENDS CompressedTree, TLC

\* Two hashed keys and two values, so that an overwrite and a second key
\* can both be buffered.
MCKeys == {3, 5}
MCVals == {7, 8}

\* A writing_buffer of two entries, so that a third write finds it full.
MCMaxBufferEntries == 2

\* ct_tree->buffer_flush_threshold is never assigned after calloc.
MCBufferFlushThreshold == 0

MCClientSymmetry == Permutations(Clients)
=============================================================================
