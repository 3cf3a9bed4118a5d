----------------------------- MODULE MCServeLoop -----------------------------
(***************************************************************************)
(* An instance of ServeLoop for TLC.                                       *)
(***************************************************************************)
EXTENDS ServeLoop, TLC
=============================================================================
