------------------------------ MODULE MCGosp2go ------------------------------
(***************************************************************************)
(* A small tree of files for Gosp2go: /www with a page, a fragment and a   *)
(* directory of fragments, one of which has the name of another; and /else *)
(* with a file, and a symbolic link to a fragment of the page.             *)
(***************************************************************************)
EXTENDS Gosp2go, TLC

Directories == {"/", "/www", "/www/sub", "/else", "/tmp"}
PageFiles   == {"page", "foot", "subhead", "subfoot", "other"}

Parent == ("/" :> "/") @@ ("/www" :> "/") @@ ("/www/sub" :> "/www") @@ ("/else" :> "/")
            @@ ("/tmp" :> "/") @@ ("page" :> "/www") @@ ("foot" :> "/www")
            @@ ("subhead" :> "/www/sub") @@ ("subfoot" :> "/www/sub") @@ ("other" :> "/else")

Tree == (<<"/", "www">> :> "/www") @@ (<<"/", "else">> :> "/else")
          @@ (<<"/www", "sub">> :> "/www/sub") @@ (<<"/www", "page">> :> "page")
          @@ (<<"/www", "foot">> :> "foot") @@ (<<"/www/sub", "head">> :> "subhead")
          @@ (<<"/www/sub", "foot">> :> "subfoot") @@ (<<"/else", "other">> :> "other")
          @@ (<<"/else", "link">> :> "subhead")

Rel(via) == [abs |-> FALSE, via |-> via]
Abs(via) == [abs |-> TRUE, via |-> via]

InputNames    == { Rel(<<"www", "page">>), Rel(<<"missing">>) }
IncludedNames == { Rel(<<"sub", "head">>), Rel(<<"foot">>), Rel(<<"..", "foot">>),
                   Abs(<<"else", "link">>), Abs(<<"else", "other">>) }
=============================================================================
