------------------------------ MODULE GospServer ------------------------------
(***************************************************************************)
(* The gosp-server processes, each seen from outside: load the plugin,     *)
(* take over the socket file, accept and answer connections, and leave.    *)
(* Translated from src/src/gosp-server (gosp-server.go, serve.go).  How    *)
(* one page request is answered is the subject of module PageGen.          *)
(***************************************************************************)
EXTENDS GospBase

Become(s, state) == proc' = [proc EXCEPT ![s] = state]

\* s is at the other end of w's connection, which is in the given state.
Linked(s, w, state) == peer[w] = s /\ link[w] = state

SetLink(w, state) == link' = [link EXCEPT ![w] = state]

-----------------------------------------------------------------------------
\* LoadPlugin: open the shared object, whatever version it is by now.
Load(s) ==
    /\ proc[s] = "loading"
    /\ Become(s, "loaded")
    /\ ver' = [ver EXCEPT ![s] = plugin[home[s]]]
    /\ UNCHANGED <<files, sock, home, lock, pc, build, result, conns, request,
                   effects>>

\* StartServer: os.Remove(sock), whoever is bound to that file.
RemoveSocket(s) ==
    /\ proc[s] = "loaded"
    /\ Become(s, "unlinked")
    /\ sock' = [sock EXCEPT ![home[s]] = None]
    /\ UNCHANGED <<files, home, ver, lock, pc, build, result, conns, request,
                   effects>>

\* StartServer: net.Listen, which fails if the file is there again.
Listen(s) ==
    /\ proc[s] = "unlinked"
    /\ \/ /\ sock[home[s]] = None
          /\ sock' = [sock EXCEPT ![home[s]] = s]
          /\ Become(s, "listening")
          /\ UNCHANGED <<home, ver, conns>>
       \/ sock[home[s]] # None /\ ProcessGone(s)
    /\ UNCHANGED <<files, lock, pc, build, result, request, effects>>

\* One turn of the accept loop.  The goroutine it spawns decodes the request
\* and, unless that asks for the PID or for an exit, runs the page's code.
\* After an ExitNow the loop takes at most one more connection.
Accept(s, w) ==
    /\ proc[s] \in {"listening", "closing"}
    /\ Linked(s, w, "queued")
    /\ SetLink(w, "open")
    /\ runs' = IF pc[w] \in AwaitsPage THEN [runs EXCEPT ![w] = @ + 1] ELSE runs
    /\ IF proc[s] = "closing" THEN Become(s, "draining") ELSE UNCHANGED proc
    /\ UNCHANGED <<files, sock, home, ver, lock, pc, build, result, peer,
                   request, shown>>

\* After an ExitNow: the dummy connection, or the test of done before the
\* next Accept, ends the loop.
AcceptDummy(s) ==
    /\ proc[s] = "closing"
    /\ Become(s, "draining")
    /\ UNCHANGED <<files, sock, home, ver, lock, pc, build, result, conns,
                   request, effects>>

\* A connection's goroutine lives until its process exits.
Handling(s, w) == /\ proc[s] \in Serving \cup {"expired"}
                  /\ Linked(s, w, "open")

\* The goroutine of a page request finishes LaunchPageGenerator.
AnswerPage(s, w) ==
    /\ Handling(s, w)
    /\ pc[w] \in AwaitsPage
    /\ SetLink(w, "answered")
    /\ shown' = [shown EXCEPT ![w] = ver[s]]
    /\ UNCHANGED <<files, servers, lock, pc, build, result, peer, request, runs>>

\* The goroutine of a GetPID request writes the PID.
AnswerPid(s, w) ==
    /\ Handling(s, w)
    /\ pc[w] = "pingwait"
    /\ SetLink(w, "answered")
    /\ UNCHANGED <<files, servers, lock, pc, build, result, peer, request,
                   effects>>

\* The goroutine of an ExitNow request writes the PID and sets done, between
\* two tests of the loop or while that waits in Accept.
HearExit(s, w) ==
    /\ Handling(s, w)
    /\ pc[w] = "killwait"
    /\ proc[s] = "listening"
    /\ Become(s, "closing") \/ Become(s, "draining")
    /\ UNCHANGED <<files, sock, home, ver, lock, pc, build, result, conns,
                   request, effects>>

\* It connects to its own socket, and then the deferred Close ends the answer.
AnswerExit(s, w) ==
    /\ Handling(s, w)
    /\ pc[w] = "killwait"
    /\ proc[s] # "listening"
    /\ SetLink(w, "answered")
    /\ UNCHANGED <<files, servers, lock, pc, build, result, peer, request,
                   effects>>

\* The 10-second deadline of a connection passes before the request is read or
\* the answer, whatever it is, is written: what follows of it is lost.
Deadline(s, w) ==
    /\ May("slow_reply")
    /\ Handling(s, w)
    /\ SetLink(w, "cut")
    /\ UNCHANGED <<files, servers, lock, pc, build, result, peer, request,
                   effects>>

\* wg.Wait() returns, and with it main.
AllAnswered(s) == \A w \in Workers : ~Linked(s, w, "open")

Drained(s) ==
    /\ proc[s] = "draining"
    /\ AllAnswered(s)
    /\ ProcessGone(s)
    /\ UNCHANGED <<files, lock, pc, build, result, request, effects>>

\* The kill clock fires: os.Remove(sock), whoever is bound to that file by
\* now.  Only an accepted connection resets the clock, so requests may be in
\* progress.  From here on the accept loop blocks in ResetKillClock.
IdleExpire(s) ==
    /\ May("idle_exit")
    /\ proc[s] \in Serving
    /\ Become(s, "expired")
    /\ sock' = [sock EXCEPT ![home[s]] = None]
    /\ UNCHANGED <<files, home, ver, lock, pc, build, result, conns, request,
                   effects>>

\* os.Exit(0) of the kill clock.
IdleExit(s) ==
    /\ proc[s] = "expired"
    /\ ProcessGone(s)
    /\ UNCHANGED <<files, lock, pc, build, result, request, effects>>

\* notify.Fatal, a panic in the page's code, or the kernel ends the process.
Crash(s) ==
    /\ May("crash")
    /\ proc[s] # "free"
    /\ ProcessGone(s)
    /\ UNCHANGED <<files, lock, pc, build, result, request, effects>>

\* The steps of the process itself, and those of a connection's goroutine.
ServerStep(s) == \/ Load(s) \/ RemoveSocket(s) \/ Listen(s)
                 \/ Drained(s) \/ IdleExit(s)
ConnectionStep(s, w) == \/ Accept(s, w)
                        \/ AnswerPage(s, w) \/ AnswerPid(s, w)
                        \/ HearExit(s, w) \/ AnswerExit(s, w) \/ Deadline(s, w)
ServerNext(s) == \/ ServerStep(s)
                 \/ \E w \in Workers : ConnectionStep(s, w)
                 \/ AcceptDummy(s) \/ IdleExpire(s) \/ Crash(s)
=============================================================================
