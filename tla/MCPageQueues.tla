---------------------------- MODULE MCPageQueues ----------------------------
(***************************************************************************)
(* Instances of PageQueues for TLC: two small classes, one of which has    *)
(* several entries of pages_free_direct, and one that is not small.        *)
(***************************************************************************)
EXTENDS PageQueues

ThreeClasses == <<1, 3, 5>>
=============================================================================
