----------------------------- MODULE MCExchange ------------------------------
(***************************************************************************)
(* A small instance of Exchange for TLC: four statuses and four pieces of  *)
(* metadata for the header, all of them model values.                      *)
(***************************************************************************)
EXTENDS Exchange

CONSTANTS s0, s200, s404, s500, setX, addX, noName, mimeType

KindOf == (setX :> "set") @@ (addX :> "add") @@ (noName :> "bad") @@ (mimeType :> "mime")
=============================================================================
