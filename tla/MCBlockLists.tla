---------------------------- MODULE MCBlockLists ----------------------------
(* The threads that free blocks from elsewhere are interchangeable.          *)
EXTENDS BlockLists, TLC

Symmetric == Permutations(Remote)
=============================================================================
