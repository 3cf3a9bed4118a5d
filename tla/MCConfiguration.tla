--------------------------- MODULE MCConfiguration ---------------------------
(***************************************************************************)
(* A small instance of Configuration for TLC: two nested sections, one     *)
(* setting without a built-in value, and the lists of imports that say     *)
(* something simple, alone or with those that need care.                   *)
(***************************************************************************)
EXTENDS Configuration

TwoSections == <<"outer", "inner">>

SimpleTexts == { <<Entry(plus, "os")>> : plus \in BOOLEAN }
               \cup { <<Entry(FALSE, name)>> : name \in {"ALL", "NONE"} }

AllTexts == SimpleTexts
            \cup { <<Entry(TRUE, name)>> : name \in {"ALL", "NONE"} }
            \cup { <<Entry(FALSE, "NONE"), Entry(FALSE, "os")>> }
=============================================================================
