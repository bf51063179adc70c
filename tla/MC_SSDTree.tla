------------------------------ MODULE MC_SSDTree ------------------------------
EXTENDS SSDTree, TLC
=============================================================================
