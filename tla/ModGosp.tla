------------------------------- MODULE ModGosp -------------------------------
(***************************************************************************)
(* The Apache module: what a worker does with one request, from            *)
(* gosp_handler to its return value.  Translated from src/src/module       *)
(* (mod_gosp.c, comm.c, launch.c, utils.c).  A step that reads or changes  *)
(* something other workers or processes can see is an action; what lies    *)
(* between two such steps is part of the earlier one.                      *)
(***************************************************************************)
EXTENDS GospBase

Goto(w, step) == pc' = [pc EXCEPT ![w] = step]

\* gosp_handler returns to Apache.
Respond(w, r) == /\ Goto(w, "idle")
                 /\ result' = [result EXCEPT ![w] = r]

\* release_global_lock, then return.
ReleaseAndRespond(w, r) == /\ lock' = None
                           /\ Respond(w, r)

\* Mutant of AbortRebuild: an early return that forgets the lock.
AbortKeepingLock(w) == UNCHANGED lock /\ Respond(w, "error")

\* An error under the lock: every early return of rebuild_relaunch_retry
\* releases the lock and answers HTTP_INTERNAL_SERVER_ERROR.
AbortRebuild(w) == ReleaseAndRespond(w, "error")

-----------------------------------------------------------------------------
\* utils.c

\* Mutant of IsNewer: the page's mtime is never looked at.
IsNeverNewer(p) == IF plugin[p] # None /\ ~exists[p] THEN -1 ELSE 0

\* 1 if the page is newer than its plugin, 0 if it is not or if there is no
\* plugin, -1 if the page cannot be queried.
IsNewer(p) == CASE plugin[p] = None -> 0
                [] plugin[p] # None /\ ~exists[p] -> -1
                [] plugin[p] # None /\ exists[p] -> IF newer[p] THEN 1 ELSE 0

\* Mutant of NeedsCompile: the test made without the lock is trusted.
NeedsCompileAnyway(p) == p \in Pages

\* The test under the lock, mod_gosp.c:347.
NeedsCompile(p) == plugin[p] = None \/ IsNewer(p) = 1

-----------------------------------------------------------------------------
\* comm.c

\* A socket that a live process is bound to accepts a connect(2) whether or
\* not that process will ever accept(2) it.
Reachable(p) == sock[p] \in Pids

\* connect_socket succeeds and the request is written to the socket.
Connect(w) == /\ Reachable(page[w])
              /\ peer' = [peer EXCEPT ![w] = sock[page[w]]]
              /\ link' = [link EXCEPT ![w] = "queued"]

\* Mutant of HangUp: the connection is marked by what marks a missing peer.
HangUpWithNone(w) == /\ peer' = [peer EXCEPT ![w] = None]
                     /\ link' = [link EXCEPT ![w] = None]

HangUp(w) == /\ peer' = [peer EXCEPT ![w] = None]
             /\ link' = [link EXCEPT ![w] = "none"]

\* receive_response gives up after GOSP_RESPONSE_TIMEOUT, or one of the calls
\* that set the timeout, read the answer and close the connection fails.
Abandons(w) == \/ link[w] \in {"queued", "open"} /\ May("slow_reply")
               \/ link[w] \in {"queued", "open", "answered"} /\ May("error")

\* What receive_response and process_response can make of a connection for a
\* page.  A connection the server closed early is an EOF like any other, and
\* metadata without an end-header line is no error (comm.c:477): it yields
\* whatever the lines received so far say.
PageReply(w) ==
    CASE link[w] \in {"answered", "cut"} -> {"ok", "status", "error"}
      [] link[w] = "reset"               -> {"error"}
      [] link[w] \in {"queued", "open"} /\ Abandons(w) -> {"error"}
      [] OTHER                           -> {}

\* No PID is had from the connection.
NoPid(w) == link[w] \in {"cut", "reset"} \/ Abandons(w)

-----------------------------------------------------------------------------
\* gosp_handler

\* A request arrives for page p and the handler stats the page.
Request(w) ==
    /\ pc[w] = "idle"
    /\ \E p \in Pages :
         /\ page'  = [page EXCEPT ![w] = p]
         /\ floor' = [floor EXCEPT ![w] = published[p]]
         /\ \/ /\ exists[p]
               /\ Goto(w, "check")
               /\ result' = [result EXCEPT ![w] = "none"]
            \/ /\ ~exists[p]
               /\ Respond(w, "notfound")
    /\ runs'  = [runs EXCEPT ![w] = 0]
    /\ shown' = [shown EXCEPT ![w] = None]
    /\ UNCHANGED <<files, servers, lock, build, conns>>

\* is_newer_than decides between the fast path and the rebuild.
Check(w) ==
    /\ pc[w] = "check"
    /\ \/ IsNewer(page[w]) = 0 /\ Goto(w, "fast")
       \/ (IsNewer(page[w]) # 0 \/ May("error")) /\ Goto(w, "lock")
    /\ UNCHANGED <<files, servers, lock, build, result, conns, request, effects>>

\* simple_request_response, first half: connect and send.
FastConnect(w) ==
    /\ pc[w] = "fast"
    /\ \/ Connect(w) /\ Goto(w, "fastwait") /\ UNCHANGED result
       \/ ~Reachable(page[w]) /\ Goto(w, "lock") /\ UNCHANGED <<result, conns>>
       \/ May("error") /\ Respond(w, "error") /\ UNCHANGED conns
    /\ UNCHANGED <<files, servers, lock, build, request, effects>>

\* Mutant of AfterReply: a failed receive is taken for NEED_ACTION.
RebuildAfterFailure(w, r) == \/ r = "error" /\ Goto(w, "lock") /\ UNCHANGED result
                             \/ r # "error" /\ Respond(w, r)

\* What simple_request_response's status is after a failed receive: FAIL,
\* never NEED_ACTION, so the handler answers 500 and does not retry.
AfterReply(w, r) == Respond(w, r)

\* simple_request_response, second half: receive and process the response.
FastReceive(w) ==
    /\ pc[w] = "fastwait"
    /\ \E r \in PageReply(w) : AfterReply(w, r)
    /\ HangUp(w)
    /\ UNCHANGED <<files, servers, lock, build, request, effects>>

-----------------------------------------------------------------------------
\* rebuild_relaunch_retry

\* Mutant of LockAcquire: the mutex lets everybody in.
LockIgnored(w) ==
    /\ pc[w] = "lock"
    /\ lock' = w
    /\ Goto(w, "stat")
    /\ UNCHANGED <<files, servers, build, result, conns, request, effects>>

LockAcquire(w) ==
    /\ pc[w] = "lock"
    /\ lock = None
    /\ lock' = w
    /\ Goto(w, "stat")
    /\ UNCHANGED <<files, servers, build, result, conns, request, effects>>

\* GOSP_LOCK_WAIT_TIME passes, in a build whose mutex has a timeout.
LockTimeout(w) ==
    /\ pc[w] = "lock"
    /\ TimedLock
    /\ lock # None
    /\ Respond(w, "error")
    /\ UNCHANGED <<files, servers, lock, build, conns, request, effects>>

\* apr_global_mutex_lock fails.  A worker waits for the mutex before it can
\* fail, so that no request may count on this for its end.
LockFails(w) ==
    /\ pc[w] = "lock"
    /\ May("error")
    /\ Respond(w, "error")
    /\ UNCHANGED <<files, servers, lock, build, conns, request, effects>>

\* is_newer_than cannot stat one of the two files: -1, which is not 1.
PassesUnseen(p) == plugin[p] # None /\ May("error")

\* Stat the plugin and compare it with the page, now under the lock.
Stat(w) ==
    /\ pc[w] = "stat"
    /\ \/ /\ NeedsCompile(page[w])
          /\ Goto(w, "kill")
          /\ UNCHANGED <<lock, result>>
       \/ /\ ~NeedsCompile(page[w]) \/ PassesUnseen(page[w])
          /\ Goto(w, "ping")
          /\ UNCHANGED <<lock, result>>
       \/ May("error") /\ AbortRebuild(w)
    /\ UNCHANGED <<files, servers, build, conns, request, effects>>

\* Mutant of KillConnect: the server is not told, its socket not removed.
KillSkipped(w) ==
    /\ pc[w] = "kill"
    /\ Goto(w, "compile")
    /\ UNCHANGED <<files, servers, lock, build, result, conns, request, effects>>

\* send_termination_request: connect and send ExitNow.  kill_gosp_server
\* ignores a failure.
KillConnect(w) ==
    /\ pc[w] = "kill"
    /\ \/ Connect(w) /\ Goto(w, "killwait")
       \/ /\ ~Reachable(page[w]) \/ May("error")
          /\ Goto(w, "unlink")
          /\ UNCHANGED conns
    /\ UNCHANGED <<files, servers, lock, build, result, request, effects>>

\* Receive the PID of the process that has been told to exit.
KillReceive(w) ==
    /\ pc[w] = "killwait"
    /\ \/ /\ link[w] = "answered"
          /\ link' = [link EXCEPT ![w] = "none"]
          /\ Goto(w, "reap")
          /\ UNCHANGED peer
       \/ /\ NoPid(w)
          /\ HangUp(w)
          /\ Goto(w, "unlink")
    /\ UNCHANGED <<files, servers, lock, build, result, request, effects>>

\* Mutant of Reap: a server that has answered is taken to have exited.
ReapByFaith(w) ==
    /\ pc[w] = "reap"
    /\ HangUp(w)
    /\ Goto(w, "unlink")
    /\ UNCHANGED <<files, servers, lock, build, result, request, effects>>

\* Poll the PID for GOSP_EXIT_WAIT_TIME, then send SIGKILL.
Reap(w) ==
    /\ pc[w] = "reap"
    /\ \/ peer[w] = None /\ UNCHANGED <<servers, conns>>
       \/ peer[w] # None /\ ProcessGone(peer[w])
    /\ Goto(w, "unlink")
    /\ UNCHANGED <<files, lock, build, result, request, effects>>

\* kill_gosp_server removes the socket file; only this failure counts.
Unlink(w) ==
    /\ pc[w] = "unlink"
    /\ \/ /\ sock' = [sock EXCEPT ![page[w]] = None]
          /\ Goto(w, "compile")
          /\ UNCHANGED <<lock, result>>
       \/ May("error") /\ AbortRebuild(w) /\ UNCHANGED sock
    /\ UNCHANGED <<files, proc, home, ver, build, conns, request, effects>>

\* compile_gosp_server starts gosp2go, which reads the page.
Compile(w) ==
    /\ pc[w] = "compile"
    /\ \/ /\ exists[page[w]]
          /\ build' = [build EXCEPT ![w] = edits[page[w]]]
          /\ Goto(w, "building")
          /\ UNCHANGED <<lock, result>>
       \/ /\ ~exists[page[w]] \/ May("error")
          /\ AbortRebuild(w)
          /\ UNCHANGED build
    /\ UNCHANGED <<files, servers, conns, request, effects>>

\* gosp2go has written the plugin: it is now newer than the page, and it
\* holds the text that gosp2go read.
InstallPlugin(w) ==
    /\ plugin'   = [plugin EXCEPT ![page[w]] = build[w]]
    /\ newer'    = [newer EXCEPT ![page[w]] = FALSE]
    /\ compiles' = [compiles EXCEPT ![page[w]] = @ + 1]

\* gosp2go exits, with a plugin or (a page may always have errors) without.
CompileEnd(w) ==
    /\ pc[w] = "building"
    /\ \/ InstallPlugin(w) /\ Goto(w, "ping") /\ UNCHANGED <<lock, result>>
       \/ AbortRebuild(w) /\ UNCHANGED <<plugin, newer, compiles>>
    /\ build' = [build EXCEPT ![w] = None]
    /\ UNCHANGED <<exists, edits, published, servers, conns, request, effects>>

\* Mutant of Ping: a server is launched whether or not one is there.
PingSkipped(w) ==
    /\ pc[w] = "ping"
    /\ Goto(w, "launch")
    /\ UNCHANGED <<files, servers, lock, build, result, conns, request, effects>>

\* server_is_responsive: connect and ask for the server's PID.
Ping(w) ==
    /\ pc[w] = "ping"
    /\ \/ Connect(w) /\ Goto(w, "pingwait")
       \/ /\ ~Reachable(page[w]) \/ May("error")
          /\ Goto(w, "launch")
          /\ UNCHANGED conns
    /\ UNCHANGED <<files, servers, lock, build, result, request, effects>>

PingReceive(w) ==
    /\ pc[w] = "pingwait"
    /\ \/ link[w] = "answered" /\ Goto(w, "retry")
       \/ NoPid(w) /\ Goto(w, "launch")
    /\ HangUp(w)
    /\ UNCHANGED <<files, servers, lock, build, result, request, effects>>

\* launch_gosp_server: a dry run, then a detached process.
Launch(w) ==
    /\ pc[w] = "launch"
    /\ \/ \E s \in Pids :
            /\ proc[s] = "free"
            /\ proc' = [proc EXCEPT ![s] = "loading"]
            /\ home' = [home EXCEPT ![s] = page[w]]
            /\ Goto(w, "retry")
            /\ UNCHANGED <<lock, result>>
       \/ /\ May("error") \/ \A s \in Pids : proc[s] # "free"
          /\ AbortRebuild(w)
          /\ UNCHANGED <<proc, home>>
    /\ UNCHANGED <<files, sock, ver, build, conns, request, effects>>

\* A turn of the retry loop: connect and send, or take a nap when that is
\* refused.  Later refusals change nothing.
RetryConnect(w) ==
    /\ pc[w] \in Retrying
    /\ \/ Connect(w) /\ Goto(w, "retrywait") /\ UNCHANGED <<lock, result>>
       \/ /\ pc[w] = "retry" /\ ~Reachable(page[w])
          /\ Goto(w, "again")
          /\ UNCHANGED <<lock, result, conns>>
       \/ May("error") /\ AbortRebuild(w) /\ UNCHANGED conns
    /\ UNCHANGED <<files, servers, build, request, effects>>

\* GOSP_LAUNCH_WAIT_TIME passes, and the server was not there in any turn of
\* the loop.  Unless servers are slow to start, one that is on its way gets
\* there while turns are left.  gstatus is overwritten by the release and
\* r->status is still HTTP_OK, so the handler returns OK.
GiveUp(w) ==
    /\ pc[w] = "again"
    /\ \/ May("slow_start")
       \/ /\ ~Reachable(page[w])
          /\ \A s \in Pids : home[s] = page[w] => proc[s] \notin StartingUp
    /\ ReleaseAndRespond(w, "ok")
    /\ UNCHANGED <<files, servers, build, conns, request, effects>>

\* The loop's simple_request_response got an answer, or failed for good.
RetryReceive(w) ==
    /\ pc[w] = "retrywait"
    /\ \E r \in PageReply(w) : ReleaseAndRespond(w, r)
    /\ HangUp(w)
    /\ UNCHANGED <<files, servers, build, request, effects>>

HandlerStep(w) == \/ Check(w) \/ FastConnect(w) \/ FastReceive(w)
                  \/ LockTimeout(w) \/ Stat(w)
                  \/ KillConnect(w) \/ KillReceive(w) \/ Reap(w) \/ Unlink(w)
                  \/ Compile(w) \/ CompileEnd(w)
                  \/ Ping(w) \/ PingReceive(w) \/ Launch(w)
                  \/ RetryConnect(w) \/ GiveUp(w) \/ RetryReceive(w)
=============================================================================
