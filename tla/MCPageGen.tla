------------------------------ MODULE MCPageGen ------------------------------
(***************************************************************************)
(* Small instances of PageGen for TLC: three statuses, all of them model   *)
(* values, and a page that sends and writes little.                        *)
(***************************************************************************)
EXTENDS PageGen

CONSTANTS s200, s404, s500
=============================================================================
