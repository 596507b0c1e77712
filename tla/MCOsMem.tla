------------------------------ MODULE MCOsMem ------------------------------
(* Threads are interchangeable.                                              *)
EXTENDS OsMem, TLC

Symmetric == Permutations(Thread)
=============================================================================
