----------------------------- MODULE PageService -----------------------------
(***************************************************************************)
(* What Go Server Pages promises to a Web client, with neither plugins nor *)
(* processes in sight.  Authors rewrite pages; clients ask for pages; a    *)
(* request is answered with the text that its page had at some moment      *)
(* between the request and the answer, or with no text at all.  A rewrite  *)
(* may go unnoticed, until the next that does not: what a client may count *)
(* on is the last text that was published before it asked.                 *)
(***************************************************************************)
EXTENDS Naturals

CONSTANTS Clients,    \* Web clients, each with at most one request in progress
          Pages,      \* Go Server Pages
          NoText      \* no version of a page: an answer without its text

VARIABLES
    text,       \* text[p]: the version of page p
    published,  \* published[p]: the last version that did not go unnoticed
    waiting,    \* the clients whose request is unanswered
    wanted,     \* wanted[c]: the page c asked for last
    oldest,     \* oldest[c]: the published version of that page when c asked
    answer      \* answer[c]: the version c was shown, or NoText

vars == <<text, published, waiting, wanted, oldest, answer>>

Init == /\ text = [p \in Pages |-> 0]
        /\ published = [p \in Pages |-> 0]
        /\ waiting = {}
        /\ wanted \in [Clients -> Pages]
        /\ oldest = [c \in Clients |-> 0]
        /\ answer = [c \in Clients |-> NoText]

Rewrite(p) == /\ text' = [text EXCEPT ![p] = @ + 1]
              /\ \/ published' = [published EXCEPT ![p] = text[p] + 1]
                 \/ UNCHANGED published
              /\ UNCHANGED <<waiting, wanted, oldest, answer>>

Ask(c, p) == /\ c \notin waiting
             /\ waiting' = waiting \cup {c}
             /\ wanted' = [wanted EXCEPT ![c] = p]
             /\ oldest' = [oldest EXCEPT ![c] = published[p]]
             /\ answer' = [answer EXCEPT ![c] = NoText]
             /\ UNCHANGED <<text, published>>

\* The page is gone: the request is refused on arrival.
AskInVain(c, p) == /\ c \notin waiting
                   /\ wanted' = [wanted EXCEPT ![c] = p]
                   /\ oldest' = [oldest EXCEPT ![c] = published[p]]
                   /\ answer' = [answer EXCEPT ![c] = NoText]
                   /\ UNCHANGED <<text, published, waiting>>

Answer(c) == /\ c \in waiting
             /\ waiting' = waiting \ {c}
             /\ \E v \in (oldest[c] .. text[wanted[c]]) \cup {NoText} :
                  answer' = [answer EXCEPT ![c] = v]
             /\ UNCHANGED <<text, published, wanted, oldest>>

Next == \/ \E p \in Pages : Rewrite(p)
        \/ \E c \in Clients, p \in Pages : Ask(c, p) \/ AskInVain(c, p)
        \/ \E c \in Clients : Answer(c)

Spec == Init /\ [][Next]_vars
=============================================================================
