------------------------------ MODULE MC_LOTree ------------------------------
EXTENDS LOTree, TLC
=============================================================================
