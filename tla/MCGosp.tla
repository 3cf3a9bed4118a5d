-------------------------------- MODULE MCGosp --------------------------------
(***************************************************************************)
(* Small instances of Gosp for TLC.  Workers, pids and pages are told      *)
(* apart by nothing but their names.                                       *)
(***************************************************************************)
EXTENDS Gosp, TLC

Symmetric == Permutations(Workers) \cup Permutations(Pids) \cup Permutations(Pages)
=============================================================================
