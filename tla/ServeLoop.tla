------------------------------ MODULE ServeLoop ------------------------------
(***************************************************************************)
(* One gosp-server from listening to its end: StartServer's accept loop,   *)
(* the goroutines of its connections, the kill clock, and the queue that   *)
(* the kernel keeps for the socket (src/src/gosp-server/serve.go).         *)
(* GospServer shows the same process in a few steps; every step here is    *)
(* one of those or none (ActsAsOneServer).                                 *)
(***************************************************************************)
EXTENDS Naturals, Sequences, FiniteSets, SequencesExt

CONSTANTS
    MaxConns,   \* bound: how many connections clients make
    MaxBacklog, \* how many connections the socket's queue holds
    Dummy       \* a connection that the server makes to itself

ASSUME ConnAssumption == MaxConns \in Nat /\ MaxBacklog \in Nat \ {0} /\ Dummy \notin Nat

Conns == 1 .. MaxConns      \* in the order in which they are made

Kinds == {"page", "pid", "exit"}

VARIABLES
    loop,       \* where the loop of StartServer is, "gone" after the process
    done,       \* done, set by an ExitNow request
    clock,      \* killClk: "running", "fired" (its function runs), "removed"
                \*   (and has removed the socket file), "nil" for a negative
                \*   -max-idle, "off" after the process; a -max-idle of 0 is a
                \*   clock that never fires
    sock,       \* the process bound to the socket file, "stale" or "none"
    backlog,    \* connections not accepted yet
    taken,      \* the connection Accept returned last
    kind,       \* kind[c]: what is asked for over c
    conn,       \* conn[c]: what became of c (LinkStates of GospBase)
    at          \* at[c]: where the goroutine of c is, or "none"

shared == <<done, clock, sock, backlog>>
peers  == <<kind, conn, at>>
vars   == <<loop, taken, shared, peers>>

Init ==
    /\ loop = "test" /\ done = FALSE /\ sock = "server"
    /\ clock \in {"running", "nil"}
    /\ backlog = <<>> /\ taken = Dummy
    /\ kind = [c \in Conns |-> "page"]
    /\ conn = [c \in Conns |-> "none"]
    /\ at   = [c \in Conns |-> "none"]

-----------------------------------------------------------------------------
\* The clients, and what other processes do to the socket file: the module
\* removes it, or another server takes it over.
HasRoom == Len(backlog) < MaxBacklog

Connect(c, k) ==
    /\ sock = "server" /\ HasRoom
    /\ conn[c] = "none" /\ \A d \in 1 .. c - 1 : conn[d] # "none"
    /\ conn' = [conn EXCEPT ![c] = "queued"]
    /\ kind' = [kind EXCEPT ![c] = k]
    /\ backlog' = Append(backlog, c)
    /\ UNCHANGED <<loop, taken, done, clock, sock, at>>

LoseSocket ==
    /\ sock = "server"
    /\ sock' \in {"none", "another"}
    /\ UNCHANGED <<loop, taken, done, clock, backlog, peers>>

Environment == LoseSocket \/ \E c \in Conns, k \in Kinds : Connect(c, k)

-----------------------------------------------------------------------------
\* The process ends, and the kernel closes its connections.
Gone ==
    /\ loop' = "gone"
    /\ sock' = IF sock = "server" THEN "stale" ELSE sock
    /\ backlog' = <<>>
    /\ clock' = "off"
    /\ at' = [c \in Conns |-> "none"]
    /\ conn' = [c \in Conns |-> CASE conn[c] = "queued" -> "reset"
                                  [] conn[c] = "open"   -> "cut"
                                  [] OTHER              -> conn[c]]
    /\ UNCHANGED <<taken, done, kind>>

(***************************************************************************)
(* The loop of StartServer.                                                *)
(***************************************************************************)

\* Mutant of KeepsAccepting: whoever is in the queue is served, too.
AcceptsWhileQueued == ~done \/ backlog # <<>>
KeepsAccepting == ~done
TestDone ==
    /\ loop = "test"
    /\ loop' = IF KeepsAccepting THEN "accept" ELSE "wait"
    /\ UNCHANGED <<taken, shared, peers>>

Accept ==
    /\ loop = "accept"
    /\ backlog # <<>>
    /\ taken' = Head(backlog)
    /\ backlog' = Tail(backlog)
    /\ loop' = "accepted"
    /\ UNCHANGED <<done, clock, sock, peers>>

\* An error of Accept, such as too many open files, ends the server.
AcceptFails == loop = "accept" /\ backlog # <<>> /\ Gone

\* ResetKillClock.  A clock that has fired cannot be stopped, and a timer made
\* by AfterFunc has no channel to receive from; without a timer it panics.
ClockStops == clock = "running"

\* wg.Add and the goroutine.  That of the dummy connection reads its end only.
Spawn ==
    /\ loop = "accepted" /\ ClockStops
    /\ loop' = "test"
    /\ IF taken = Dummy THEN UNCHANGED <<conn, at>>
       ELSE /\ conn' = [conn EXCEPT ![taken] = "open"]
            /\ at' = [at EXCEPT ![taken] = "decode"]
    /\ UNCHANGED <<taken, shared, kind>>

\* Mutant of ResetBlocks: the loop goes on, without the connection it has.
ResetDrops ==
    /\ loop = "accepted" /\ clock \in {"fired", "removed"}
    /\ loop' = "test"
    /\ UNCHANGED <<taken, shared, peers>>
ResetBlocks ==
    /\ loop = "accepted" /\ clock \in {"fired", "removed"}
    /\ loop' = "stuck"
    /\ UNCHANGED <<taken, shared, peers>>

ResetPanics == loop = "accepted" /\ clock = "nil" /\ Gone

\* The goroutines that wg.Wait waits for: wg.Add comes before go.
\* Mutant of InProgress: wg.Add is the first statement of the goroutine.
PastTheirStart == { c \in Conns : at[c] \notin {"none", "decode"} }
InProgress == { c \in Conns : at[c] # "none" }

Wait ==
    /\ loop = "wait" /\ InProgress = {}
    /\ loop' = "returned"
    /\ UNCHANGED <<taken, shared, peers>>

Return == loop = "returned" /\ Gone

Loop == TestDone \/ Accept \/ Spawn \/ ResetBlocks \/ ResetPanics \/ Wait \/ Return

(***************************************************************************)
(* The goroutine of a connection.                                          *)
(***************************************************************************)
Goto(c, step) == at' = [at EXCEPT ![c] = step]
Close(c, outcome) == Goto(c, "none") /\ conn' = [conn EXCEPT ![c] = outcome]

\* The steps of an ExitNow request.
\* Mutant of AfterStep: the dummy connection is made before done is set.
DialsFirst == [reply |-> "dial", dial |-> "flag", flag |-> "close"]
AfterStep == [reply |-> "flag", flag |-> "dial", dial |-> "close"]

Decode(c) ==
    /\ at[c] = "decode"
    /\ Goto(c, IF kind[c] = "page" THEN "page" ELSE "reply")
    /\ UNCHANGED <<loop, taken, shared, kind, conn>>

\* The deadline cannot be set or passes, or what the client sends is no
\* request: the goroutine returns without an answer.
DecodeFails(c) ==
    /\ at[c] = "decode"
    /\ Close(c, "cut")
    /\ UNCHANGED <<loop, taken, shared, kind>>

\* The end of the goroutine.  Of an answer that was written after the ten
\* seconds nothing arrives, and nobody looks at the error.
Finish(c) == Close(c, "answered") \/ Close(c, "cut")

AnswerPage(c) ==
    /\ at[c] = "page"
    /\ Finish(c)
    /\ UNCHANGED <<loop, taken, shared, kind>>

Reply(c) ==
    /\ at[c] = "reply"
    /\ \/ kind[c] = "pid" /\ Finish(c)
       \/ kind[c] # "pid" /\ Goto(c, AfterStep["reply"]) /\ UNCHANGED conn
    /\ UNCHANGED <<loop, taken, shared, kind>>

SetDone(c) ==
    /\ at[c] = "flag"
    /\ done' = TRUE
    /\ Goto(c, AfterStep["flag"])
    /\ UNCHANGED <<loop, taken, clock, sock, backlog, kind, conn>>

\* The dummy connection goes where the socket file leads by now, if anywhere.
Dial(c) ==
    /\ at[c] = "dial"
    /\ backlog' = IF sock = "server" /\ HasRoom THEN Append(backlog, Dummy) ELSE backlog
    /\ Goto(c, AfterStep["dial"])
    /\ UNCHANGED <<loop, taken, done, clock, sock, kind, conn>>

CloseExit(c) ==
    /\ at[c] = "close"
    /\ Finish(c)
    /\ UNCHANGED <<loop, taken, shared, kind>>

Goroutine(c) == \/ Decode(c) \/ DecodeFails(c) \/ AnswerPage(c) \/ Reply(c)
                \/ SetDone(c) \/ Dial(c) \/ CloseExit(c)

(***************************************************************************)
(* The kill clock.                                                         *)
(***************************************************************************)
ClockFires ==
    /\ clock = "running"
    /\ clock' = "fired"
    /\ UNCHANGED <<loop, taken, done, sock, backlog, peers>>

ClockRemoves ==
    /\ clock = "fired"
    /\ clock' = "removed"
    /\ sock' = "none"
    /\ UNCHANGED <<loop, taken, done, backlog, peers>>

\* Mutant of ClockExits: the function ends without os.Exit.
ClockOnlyRemoves == FALSE /\ Gone
ClockExits == clock = "removed" /\ Gone

\* notify.Fatal, a signal.
Crash == loop # "gone" /\ Gone

Clock == ClockRemoves \/ ClockExits

Process == \/ Loop \/ \E c \in Conns : Goroutine(c)
           \/ ClockFires \/ Clock \/ AcceptFails \/ Crash

\* When the process is gone nothing is left to happen but to other servers.
Over == loop = "gone" /\ UNCHANGED vars

Next == Environment \/ Process \/ Over

\* The main goroutine, those of the connections, and that of a clock that has
\* fired run on, and a page's code comes to an end.  Nobody has to connect, and
\* no clock to fire.
Spec == /\ Init /\ [][Next]_vars
        /\ WF_vars(Loop) /\ WF_vars(Clock)
        /\ \A c \in Conns : WF_vars(Goroutine(c))
-----------------------------------------------------------------------------
(***************************************************************************)
(* What StartServer promises.                                              *)
(***************************************************************************)

\* Every variable has its type; a connection is in the queue just as long as
\* its state says, unless the loop has it in hand.
TypeOK ==
    /\ loop \in {"test", "accept", "accepted", "stuck", "wait", "returned", "gone"}
    /\ done \in BOOLEAN
    /\ clock \in {"off", "running", "fired", "removed", "nil"}
    /\ sock \in {"server", "another", "stale", "none"}
    /\ taken \in Conns \cup {Dummy}
    /\ kind \in [Conns -> Kinds]
    /\ conn \in [Conns -> {"none", "queued", "open", "answered", "cut", "reset"}]
    /\ at \in [Conns -> {"none", "decode", "page", "reply", "flag", "dial", "close"}]
    /\ Len(backlog) <= MaxBacklog
    /\ \A c \in Conns :
         conn[c] = "queued" <=> \/ c \in ToSet(backlog)
                                \/ taken = c /\ loop \in {"accepted", "stuck"}

\* When StartServer returns by itself, the goroutine of every accepted
\* connection has come to its end, and nobody who connected before the first
\* ExitNow request is left in the queue ("Wait until all existing requests
\* complete", serve.go:178).
EarlierRequestsComplete ==
    loop = "returned" =>
        \A c \in Conns :
            /\ conn[c] # "open"
            /\ conn[c] = "queued" => \E e \in 1 .. c - 1 : kind[e] = "exit"

\* A server that is told to exit does so: the loop cannot miss done, in
\* whatever step it is, as long as the dummy connection can reach it.
ExitEnds == done ~> loop = "gone" \/ sock # "server"

\* Every connection comes to an end: with an answer, cut off or reset.
Settled(c) == conn[c] \notin {"queued", "open"}
EveryConnectionEnds == \A c \in Conns : conn[c] = "queued" ~> Settled(c)

(***************************************************************************)
(* The process as GospServer shows it.  A connection that the loop has in  *)
(* hand is still queued.                                                   *)
(***************************************************************************)
Alive == loop # "gone"
Life == CASE ~Alive                        -> "free"
          [] Alive /\ clock = "removed"    -> "expired"
          [] Alive /\ clock # "removed" /\ ~done -> "listening"
          [] OTHER -> IF loop \in {"accept", "accepted", "stuck"} THEN "closing"
                                                                  ELSE "draining"
Asks == [page |-> "fastwait", pid |-> "pingwait", exit |-> "killwait"]
Reached(c) == conn[c] \in {"open", "answered", "cut"}

Server == INSTANCE GospServer WITH
            Workers <- Conns, Pages <- {"page"}, Pids <- {"server", "another"},
            MaxEdits <- 0, TimedLock <- FALSE, None <- "none", Stale <- "stale",
            Faults <- {"crash", "idle_exit", "slow_reply"},
            exists <- [p \in {"page"} |-> TRUE], edits <- [p \in {"page"} |-> 0],
            published <- [p \in {"page"} |-> 0],
            newer <- [p \in {"page"} |-> FALSE], plugin <- [p \in {"page"} |-> 0],
            compiles <- [p \in {"page"} |-> 0], lock <- "none",
            build <- [c \in Conns |-> "none"], result <- [c \in Conns |-> "none"],
            page <- [c \in Conns |-> "page"], floor <- [c \in Conns |-> 0],
            sock <- [p \in {"page"} |-> sock],
            proc <- [s \in {"server", "another"} |-> IF s = "server" THEN Life ELSE "free"],
            home <- [s \in {"server", "another"} |->
                        IF s = "server" /\ Alive THEN "page" ELSE "none"],
            ver  <- [s \in {"server", "another"} |->
                        IF s = "server" /\ Alive THEN 0 ELSE "none"],
            pc   <- [c \in Conns |-> IF conn[c] = "none" THEN "idle" ELSE Asks[kind[c]]],
            peer <- [c \in Conns |-> IF Alive /\ conn[c] # "none" THEN "server" ELSE "none"],
            link <- conn,
            runs <- [c \in Conns |-> IF kind[c] = "page" /\ Reached(c) THEN 1 ELSE 0],
            shown <- [c \in Conns |-> IF kind[c] = "page" /\ conn[c] = "answered"
                                      THEN 0 ELSE "none"]

\* Loop, goroutines and clock together do to the outside what GospServer says a
\* server does, or nothing: what Gosp shows of servers holds of this code.
ActsAsOneServer == [][Environment \/ Server!ServerNext("server")]_(Server!vars)
=============================================================================
