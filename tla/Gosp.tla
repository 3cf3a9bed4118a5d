--------------------------------- MODULE Gosp ---------------------------------
(***************************************************************************)
(* Go Server Pages at work: Apache workers (ModGosp), gosp-server          *)
(* processes (GospServer) and the authors of the pages, who edit and       *)
(* delete files at any time.                                               *)
(***************************************************************************)
EXTENDS ModGosp, GospServer

\* The author rewrites a page (or creates it again).  The page becomes newer
\* than its plugin, save for a hidden edit.
Edit(p) ==
    /\ edits[p] < MaxEdits
    /\ edits'  = [edits EXCEPT ![p] = @ + 1]
    /\ exists' = [exists EXCEPT ![p] = TRUE]
    /\ \/ /\ \A w \in Workers : pc[w] = "building" => page[w] # p
          /\ newer' = [newer EXCEPT ![p] = TRUE]
          /\ published' = [published EXCEPT ![p] = edits[p] + 1]
       \/ /\ May("hidden_edit")
          /\ newer' \in {newer, [newer EXCEPT ![p] = TRUE]}
          /\ UNCHANGED published
    /\ UNCHANGED <<plugin, compiles, servers, lock, pc, build, result, conns,
                   request, effects>>

Delete(p) ==
    /\ May("delete")
    /\ exists[p]
    /\ exists' = [exists EXCEPT ![p] = FALSE]
    /\ UNCHANGED <<edits, published, newer, plugin, compiles, servers, lock, pc,
                   build, result, conns, request, effects>>

\* Apache has just started.  An earlier run may have left plugins behind, and
\* socket files whose servers are gone.
Init ==
    /\ exists = [p \in Pages |-> TRUE]
    /\ edits  = [p \in Pages |-> 0]
    /\ published = [p \in Pages |-> 0]
    /\ newer  = [p \in Pages |-> FALSE]
    /\ plugin \in [Pages -> {None, 0}]
    /\ compiles = [p \in Pages |-> 0]
    /\ sock \in [Pages -> {None, Stale}]
    /\ proc = [s \in Pids |-> "free"]
    /\ home = [s \in Pids |-> None]
    /\ ver  = [s \in Pids |-> None]
    /\ lock = None
    /\ pc   = [w \in Workers |-> "idle"]
    /\ page \in [Workers -> Pages]
    /\ build  = [w \in Workers |-> None]
    /\ result = [w \in Workers |-> "none"]
    /\ peer = [w \in Workers |-> None]
    /\ link = [w \in Workers |-> "none"]
    /\ floor = [w \in Workers |-> 0]
    /\ runs  = [w \in Workers |-> 0]
    /\ shown = [w \in Workers |-> None]

WorkerNext(w) == Request(w) \/ LockAcquire(w) \/ LockFails(w) \/ HandlerStep(w)
AuthorNext(p) == Edit(p) \/ Delete(p)

Next == \/ \E w \in Workers : WorkerNext(w)
        \/ \E s \in Pids : ServerNext(s)
        \/ \E p \in Pages : AuthorNext(p)

Spec == Init /\ [][Next]_vars

(***************************************************************************)
(* Fairness.  A worker in mid-request, a server between launch and listen, *)
(* and each goroutine of a server are running processes or threads: they   *)
(* go on, and the clocks they read go on.  The global mutex is a kernel    *)
(* object that does not starve its waiters, hence strong fairness.  No     *)
(* request has to arrive, no page to be edited, nothing to crash, no kill  *)
(* clock to fire, no accept loop to notice that it is done.                *)
(***************************************************************************)
Fairness ==
    /\ \A w \in Workers : WF_vars(HandlerStep(w)) /\ SF_vars(LockAcquire(w))
    /\ \A s \in Pids : WF_vars(ServerStep(s))
    /\ \A s \in Pids, w \in Workers : WF_vars(ConnectionStep(s, w))

FairSpec == Spec /\ Fairness

-----------------------------------------------------------------------------
\* Every variable has its type; a process that lives belongs to a page.
TypeOK ==
    /\ exists \in [Pages -> BOOLEAN]
    /\ edits \in [Pages -> Nat]
    /\ published \in [Pages -> Nat]
    /\ newer \in [Pages -> BOOLEAN]
    /\ plugin \in [Pages -> Nat \cup {None}]
    /\ compiles \in [Pages -> Nat]
    /\ sock \in [Pages -> Pids \cup {None, Stale}]
    /\ proc \in [Pids -> ProcStates]
    /\ home \in [Pids -> Pages \cup {None}]
    /\ ver \in [Pids -> Nat \cup {None}]
    /\ lock \in Workers \cup {None}
    /\ pc \in [Workers -> PcStates]
    /\ page \in [Workers -> Pages]
    /\ build \in [Workers -> Nat \cup {None}]
    /\ result \in [Workers -> Results]
    /\ peer \in [Workers -> Pids \cup {None}]
    /\ link \in [Workers -> LinkStates]
    /\ runs \in [Workers -> Nat]
    /\ shown \in [Workers -> Nat \cup {None}]
    /\ floor \in [Workers -> Nat]
    /\ \A s \in Pids : proc[s] # "free" => home[s] \in Pages

-----------------------------------------------------------------------------
(***************************************************************************)
(* What holds whatever goes wrong.                                         *)
(***************************************************************************)

\* The worker that holds the global mutex is the one that is inside
\* rebuild_relaunch_retry: no early return leaves the mutex locked, and
\* nothing under it happens without it (mod_gosp.c:329-399).
LockDiscipline == \A w \in Workers : lock = w <=> pc[w] \in Critical

\* However many requests find a plugin missing or outdated at once, it is
\* compiled at most once per version of its page: the losers of the race for
\* the mutex test again (mod_gosp.c:347) and find nothing left to compile.
CompileEconomy == \A p \in Pages : compiles[p] <= edits[p] + 1

\* The code of a page runs at most once for a request, however often the
\* module retries: it retries only when no connection was made, never after a
\* request was sent (comm.c:563-568, mod_gosp.c:385-392).
AtMostOnce == \A w \in Workers : runs[w] <= 1

\* A plugin is never replaced by one built from an older text of its page,
\* however the compilations of several workers and the edits of the page
\* interleave (launch.c:101, under the mutex).
NoRollback == \A p \in Pages :
                plugin[p] # None => plugin'[p] # None /\ plugin'[p] >= plugin[p]
NeverRollsBack == [][NoRollback]_vars

-----------------------------------------------------------------------------
(***************************************************************************)
(* What holds while servers may crash, idle servers may leave and edits be *)
(* hidden, but servers start and answer in time and no call into APR fails.*)
(***************************************************************************)

\* At most one gosp-server is at work for a page; one whose kill clock has
\* fired only waits to exit.  ("the actions ... are protected by a mutex to
\* ensure that concurrent accesses ... do not trigger multiple compilations
\* or launches of the same plugin", docs/implementation/apache_module.md:26.)
AtWork(s) == proc[s] \notin {"free", "expired"}
OneServer == \A s, t \in Pids :
               AtWork(s) /\ AtWork(t) /\ home[s] = home[t] => s = t

\* The server a request for a page reaches runs the plugin that is there: the
\* server of an older plugin is gone before the new one is installed
\* (mod_gosp.c:348-361, launch.c:220).
ServerCurrent == \A p \in Pages : Reachable(p) => ver[sock[p]] = plugin[p]

\* The whole of Apache, module, plugins and gosp-servers, implements a service
\* that answers a request with the text its page had at some moment while the
\* request was being served, although file, plugin and server are looked at one
\* after the other and the first look is taken without the mutex
\* (mod_gosp.c:448).  Edits that the mtimes do not show are not waited for, but
\* neither do they keep an edit that shows from being served (utils.c:113).
Service == INSTANCE PageService
             WITH Clients <- Workers,
                  NoText  <- None,
                  text    <- edits,
                  published <- published,
                  waiting <- {w \in Workers : pc[w] # "idle"},
                  wanted  <- page,
                  oldest  <- floor,
                  answer  <- [w \in Workers |-> IF result[w] = "ok" THEN shown[w]
                                                                   ELSE None]
ImplementsService == Service!Spec

\* Once kill_gosp_server has returned OK no server of the page is left
\* ("Return GOSP_STATUS_OK if the Gosp server is no longer running,
\* GOSP_STATUS_FAIL if it might be", launch.c:218-219).
KilledMeansGone == \A w \in Workers, s \in Pids :
                     pc[w] \in {"compile", "building"} /\ home[s] = page[w]
                       => ~AtWork(s)

-----------------------------------------------------------------------------
(***************************************************************************)
(* What the documentation says and the code does not do.                   *)
(***************************************************************************)

\* A server told to exit lets its current requests complete, so no page that
\* was in progress is cut off and then answered 200 with nothing in it
\* (docs/implementation/back_end_server.md:12).
OkMeansComplete == \A w \in Workers : result[w] = "ok" => shown[w] # None

-----------------------------------------------------------------------------
\* Every request is answered: no worker waits for ever for the mutex, for a
\* compilation, for a server to start or for a server to answer.
RequestsFinish == \A w \in Workers : pc[w] # "idle" ~> pc[w] = "idle"

-----------------------------------------------------------------------------
(***************************************************************************)
(* The inductive invariant behind the properties that hold whatever goes   *)
(* wrong (see GospProofs).                                                 *)
(***************************************************************************)

\* A page without a plugin, or newer than its plugin, has an edit that was
\* not compiled yet.
CompileDue(p) == plugin[p] = None \/ newer[p]
CompilesCounted == \A p \in Pages : /\ compiles[p] <= edits[p] + 1
                                    /\ CompileDue(p) => compiles[p] <= edits[p]

\* Nobody else compiles a page that a worker has found in need of it.
RebuildIsDue == \A w \in Workers : pc[w] \in Rebuilding => CompileDue(page[w])

\* What is being compiled is no older than what is installed.
BuildsInOrder ==
    /\ \A p \in Pages : plugin[p] # None => plugin[p] <= edits[p]
    /\ \A w \in Workers :
         pc[w] = "building" =>
           /\ build[w] \in Nat
           /\ build[w] <= edits[page[w]]
           /\ plugin[page[w]] # None => plugin[page[w]] <= build[w]

\* Before its connection is accepted, a request has not reached any code.
NotYetRun(w) == \/ pc[w] \notin AwaitsPage \cup {"idle"}
                \/ pc[w] \in AwaitsPage /\ link[w] = "queued"
RunsCounted == \A w \in Workers : /\ runs[w] <= 1
                                  /\ NotYetRun(w) => runs[w] = 0

IInv == /\ TypeOK
        /\ LockDiscipline
        /\ CompilesCounted
        /\ RebuildIsDue
        /\ BuildsInOrder
        /\ RunsCounted
=============================================================================
