--------------------------- MODULE MCCommitSegment ---------------------------
(***************************************************************************)
(* Instances of CommitSegment for TLC.                                     *)
(***************************************************************************)
EXTENDS CommitSegment
=============================================================================
