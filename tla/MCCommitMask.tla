---------------------------- MODULE MCCommitMask ----------------------------
(***************************************************************************)
(* Instances of CommitMask for TLC.                                        *)
(***************************************************************************)
EXTENDS CommitMask
=============================================================================
