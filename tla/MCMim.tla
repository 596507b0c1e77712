-------------------------------- MODULE MCMim --------------------------------
(***************************************************************************)
(* Mim for TLC: two threads, a segment of two slices that one of them     *)
(* makes, pages of one slice or of both, blocks that begin in either.      *)
(***************************************************************************)
EXTENDS Mim, TLC

Symmetry == Permutations(Access) \cup Permutations(ThreadId)
=============================================================================
