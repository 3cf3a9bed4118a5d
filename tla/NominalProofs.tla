---------------------------- MODULE NominalProofs -----------------------------
(***************************************************************************)
(* Proofs of what Gosp promises when servers are given the time they need  *)
(* and every call into APR succeeds: one current server per page, and none *)
(* left behind while its plugin is rebuilt.  Servers may crash and leave   *)
(* at any moment, pages may be edited, visibly or not, and deleted.  Then  *)
(* the proof that the whole system, when no page is deleted, implements    *)
(* the abstract page service.                                              *)
(***************************************************************************)
EXTENDS GospProofs

Timely == ~May("error") /\ ~May("slow_start") /\ ~May("slow_reply")

(***************************************************************************)
(* The inductive invariant.                                                *)
(***************************************************************************)

\* The socket file of a page leads to a process exactly as long as that
\* process serves the page.
SocketIsServed ==
    /\ \A p \in Pages : Reachable(p) => proc[sock[p]] \in Serving /\ home[sock[p]] = p
    /\ \A s \in Pids : proc[s] \in Serving => sock[home[s]] = s

\* A process that is not listening yet is awaited by the worker that launched
\* it, which holds the mutex meanwhile.
LaunchIsAwaited ==
    \A s \in Pids : proc[s] \in StartingUp =>
        \E w \in Workers : pc[w] \in Retrying /\ page[w] = home[s]

\* A worker that is to compile or to launch has seen to it that no server of
\* its page is left.
NoneLeft ==
    \A w \in Workers, s \in Pids :
        pc[w] \in {"unlink", "compile", "building", "launch"} /\ home[s] = page[w]
          => ~AtWork(s)

\* A worker that asks a server to exit or for its PID asks the only one.
AsksTheServer ==
    \A w \in Workers, s \in Pids :
        pc[w] \in {"killwait", "reap", "pingwait"} /\ home[s] = page[w] /\ AtWork(s)
          => peer[w] = s

\* A connection ends early only when the process at its other end does.
CutByExit == \A w \in Workers : link[w] \in {"cut", "reset"} => peer[w] = None

\* A server runs the plugin that is there, since before it listens.
LoadedCurrent ==
    \A s \in Pids : proc[s] \in {"loaded", "unlinked"} \cup Serving
                      => ver[s] = plugin[home[s]]

NInv == /\ OneServer
        /\ SocketIsServed
        /\ LaunchIsAwaited
        /\ NoneLeft
        /\ AsksTheServer
        /\ CutByExit
        /\ LoadedCurrent

-----------------------------------------------------------------------------
\* The invariant holds at the start, when there are no servers.
LEMMA NominalInit == Init => NInv
  BY NoneAssumption
  DEF Init, NInv, OneServer, AtWork, SocketIsServed, Reachable, LaunchIsAwaited,
      NoneLeft, AsksTheServer, CutByExit, LoadedCurrent, StartingUp, Serving

\* Who finds the socket file of its page to lead nowhere, with the mutex held
\* and no launch of its own under way, has the page for itself.
LEMMA NobodyThere ==
  ASSUME TypeOK, LockDiscipline, NInv, NEW w \in Workers, NEW s \in Pids,
         pc[w] \in Critical \ Retrying, ~Reachable(page[w]), home[s] = page[w]
  PROVE  ~AtWork(s)
<1>1. proc[s] \notin Serving
  BY DEF NInv, SocketIsServed, Reachable
<1>2. proc[s] \notin StartingUp
  BY MutualExclusion DEF NInv, LaunchIsAwaited, Critical, Retrying
<1> QED
  BY <1>1, <1>2 DEF TypeOK, ProcStates, AtWork, Serving, StartingUp

\* Every step keeps the invariant, as long as servers start and answer in time.
LEMMA NominalStep ==
  ASSUME Timely, TypeOK, LockDiscipline, NInv, [Next]_vars
  PROVE  NInv'
<1> USE NoneAssumption
    DEF NInv, OneServer, AtWork, SocketIsServed, Reachable, LaunchIsAwaited,
        NoneLeft, AsksTheServer, CutByExit, LoadedCurrent, StartingUp, Serving,
        Retrying, TypeOK, Timely, Goto, Become, SetLink, files, servers, conns,
        request, effects
<1>1. ASSUME NEW w \in Workers, Request(w) PROVE NInv'
  BY <1>1, MutualExclusion, SMTT(60) DEF Request, Respond, Critical, Rebuilding
<1>2. ASSUME NEW w \in Workers, Check(w) PROVE NInv'
  BY <1>2, MutualExclusion DEF Check, Critical, Rebuilding
<1>3. ASSUME NEW w \in Workers, FastConnect(w) PROVE NInv'
  BY <1>3, MutualExclusion, SMTT(60) DEF FastConnect, Connect, Respond, Critical, Rebuilding
<1>4. ASSUME NEW w \in Workers, FastReceive(w) PROVE NInv'
  BY <1>4, MutualExclusion
  DEF FastReceive, AfterReply, Respond, HangUp, Critical, Rebuilding
<1>5. ASSUME NEW w \in Workers, LockAcquire(w) PROVE NInv'
  BY <1>5, MutualExclusion, SMTT(30) DEF LockAcquire, Critical, Rebuilding
<1>6. ASSUME NEW w \in Workers, LockTimeout(w) PROVE NInv'
  BY <1>6, MutualExclusion, SMTT(30) DEF LockTimeout, Respond, Critical, Rebuilding
<1>35. ASSUME NEW w \in Workers, LockFails(w) PROVE NInv'
  BY <1>35 DEF LockFails
<1>7. ASSUME NEW w \in Workers, Stat(w) PROVE NInv'
  BY <1>7, MutualExclusion, SMTT(30)
  DEF Stat, PassesUnseen, AbortRebuild, ReleaseAndRespond, Respond, Critical,
      Rebuilding
<1>8. ASSUME NEW w \in Workers, KillConnect(w) PROVE NInv'
  <2>1. OneServer'
    BY <1>8, MutualExclusion DEF KillConnect, Connect, Critical, Rebuilding
  <2>2. SocketIsServed'
    BY <1>8, MutualExclusion DEF KillConnect, Connect, Critical, Rebuilding
  <2>3. LaunchIsAwaited'
    BY <1>8, MutualExclusion DEF KillConnect, Connect, Critical, Rebuilding
  <2>4. NoneLeft'
    BY <1>8, NobodyThere, SMTT(60) DEF KillConnect, Connect, Critical, Rebuilding
  <2>5. AsksTheServer'
    BY <1>8, MutualExclusion, SMTT(30) DEF KillConnect, Connect, Critical, Rebuilding
  <2>6. CutByExit'
    BY <1>8, MutualExclusion DEF KillConnect, Connect, Critical, Rebuilding
  <2>7. LoadedCurrent'
    BY <1>8, MutualExclusion DEF KillConnect, Connect, Critical, Rebuilding
  <2> QED
    BY <2>1, <2>2, <2>3, <2>4, <2>5, <2>6, <2>7
<1>9. ASSUME NEW w \in Workers, KillReceive(w) PROVE NInv'
  BY <1>9, MutualExclusion
  DEF KillReceive, HangUp, NoPid, Abandons, Critical, Rebuilding
<1>10. ASSUME NEW w \in Workers, Reap(w) PROVE NInv'
  <2>1. CASE peer[w] = None /\ UNCHANGED <<servers, conns>>
    BY <1>10, <2>1, MutualExclusion, SMTT(30) DEF Reap, Critical, Rebuilding
  <2>2. CASE peer[w] # None /\ ProcessGone(peer[w])
    <3> DEFINE s == peer[w]
    <3>1. s \in Pids
      BY <2>2
    <3>2. \A t \in Pids : AtWork(t)' => t # s /\ AtWork(t) /\ home'[t] = home[t]
      BY <2>2, <3>1 DEF ProcessGone
    <3>3. OneServer'
      BY <3>2
    <3>4. SocketIsServed'
      BY <2>2, <3>1, <3>2 DEF ProcessGone
    <3>5. LaunchIsAwaited' /\ NoneLeft' /\ AsksTheServer'
      BY <1>10, <2>2, <3>1, <3>2, MutualExclusion, SMTT(60)
      DEF Reap, ProcessGone, Critical, Rebuilding
    <3>6. CutByExit' /\ LoadedCurrent'
      BY <1>10, <2>2, <3>1, <3>2 DEF Reap, ProcessGone
    <3> QED
      BY <3>3, <3>4, <3>5, <3>6
  <2> QED
    BY <1>10, <2>1, <2>2 DEF Reap
<1>11. ASSUME NEW w \in Workers, Unlink(w) PROVE NInv'
  BY <1>11, MutualExclusion, SMTT(60)
  DEF Unlink, AbortRebuild, ReleaseAndRespond, Respond, Critical, Rebuilding
<1>12. ASSUME NEW w \in Workers, Compile(w) PROVE NInv'
  BY <1>12, MutualExclusion, SMTT(30)
  DEF Compile, AbortRebuild, ReleaseAndRespond, Respond, Critical, Rebuilding
<1>13. ASSUME NEW w \in Workers, CompileEnd(w) PROVE NInv'
  BY <1>13, MutualExclusion, SMTT(60)
  DEF CompileEnd, InstallPlugin, AbortRebuild, ReleaseAndRespond, Respond,
      Critical, Rebuilding
<1>14. ASSUME NEW w \in Workers, Ping(w) PROVE NInv'
  <2>1. OneServer'
    BY <1>14, MutualExclusion DEF Ping, Connect, Critical, Rebuilding
  <2>2. SocketIsServed'
    BY <1>14, MutualExclusion DEF Ping, Connect, Critical, Rebuilding
  <2>3. LaunchIsAwaited'
    BY <1>14, MutualExclusion DEF Ping, Connect, Critical, Rebuilding
  <2>4. NoneLeft'
    BY <1>14, NobodyThere, SMTT(60) DEF Ping, Connect, Critical, Rebuilding
  <2>5. AsksTheServer'
    BY <1>14, MutualExclusion, SMTT(30) DEF Ping, Connect, Critical, Rebuilding
  <2>6. CutByExit'
    BY <1>14, MutualExclusion DEF Ping, Connect, Critical, Rebuilding
  <2>7. LoadedCurrent'
    BY <1>14, MutualExclusion DEF Ping, Connect, Critical, Rebuilding
  <2> QED
    BY <2>1, <2>2, <2>3, <2>4, <2>5, <2>6, <2>7
<1>15. ASSUME NEW w \in Workers, PingReceive(w) PROVE NInv'
  BY <1>15, MutualExclusion, SMTT(60)
  DEF PingReceive, HangUp, NoPid, Abandons, Critical, Rebuilding
<1>16. ASSUME NEW w \in Workers, Launch(w) PROVE NInv'
  <2>1. OneServer'
    BY <1>16, MutualExclusion, SMTT(30)
    DEF Launch, AbortRebuild, ReleaseAndRespond, Respond, Critical, Rebuilding
  <2>2. SocketIsServed'
    <3>1. CASE UNCHANGED <<proc, home>>
      BY <1>16, <3>1 DEF Launch
    <3>2. ASSUME NEW s \in Pids, proc[s] = "free",
                 proc' = [proc EXCEPT ![s] = "loading"],
                 home' = [home EXCEPT ![s] = page[w]]
          PROVE  SocketIsServed'
      BY <1>16, <3>2 DEF Launch
    <3> QED
      BY <1>16, <3>1, <3>2 DEF Launch
  <2>3. LaunchIsAwaited'
    BY <1>16, MutualExclusion, SMTT(30)
    DEF Launch, AbortRebuild, ReleaseAndRespond, Respond, Critical, Rebuilding
  <2>4. NoneLeft'
    BY <1>16, MutualExclusion, SMTT(30)
    DEF Launch, AbortRebuild, ReleaseAndRespond, Respond, Critical, Rebuilding
  <2>5. AsksTheServer'
    BY <1>16, MutualExclusion, SMTT(60)
    DEF Launch, AbortRebuild, ReleaseAndRespond, Respond, Critical, Rebuilding
  <2>6. CutByExit'
    BY <1>16, MutualExclusion
    DEF Launch, AbortRebuild, ReleaseAndRespond, Respond, Critical, Rebuilding
  <2>7. LoadedCurrent'
    BY <1>16, MutualExclusion, SMTT(30)
    DEF Launch, AbortRebuild, ReleaseAndRespond, Respond, Critical, Rebuilding
  <2> QED
    BY <2>1, <2>2, <2>3, <2>4, <2>5, <2>6, <2>7
<1>17. ASSUME NEW w \in Workers, RetryConnect(w) PROVE NInv'
  <2>1. OneServer'
    BY <1>17, MutualExclusion
    DEF RetryConnect, Connect, AbortRebuild, ReleaseAndRespond, Respond,
        Critical, Rebuilding
  <2>2. SocketIsServed'
    BY <1>17, MutualExclusion
    DEF RetryConnect, Connect, AbortRebuild, ReleaseAndRespond, Respond,
        Critical, Rebuilding
  <2>3. LaunchIsAwaited'
    <3>1. CASE Connect(w)
      <4>1. /\ sock[page[w]] \in Pids /\ home[sock[page[w]]] = page[w]
            /\ proc[sock[page[w]]] \in Serving
        BY <3>1 DEF Connect
      <4>2. ASSUME NEW s \in Pids, proc[s] \in StartingUp PROVE FALSE
        <5>1. home[s] = page[w]
          BY <1>17, <4>2, MutualExclusion DEF RetryConnect, Critical
        <5>2. AtWork(s) /\ s # sock[page[w]]
          BY <4>1, <4>2
        <5> QED
          BY <4>1, <5>1, <5>2
      <4> QED
        BY <1>17, <4>2 DEF RetryConnect
    <3>2. CASE pc' = [pc EXCEPT ![w] = "again"]
      BY <1>17, <3>2 DEF RetryConnect
    <3> QED
      BY <1>17, <3>1, <3>2 DEF RetryConnect
  <2>4. NoneLeft'
    BY <1>17, MutualExclusion
    DEF RetryConnect, Connect, AbortRebuild, ReleaseAndRespond, Respond,
        Critical, Rebuilding
  <2>5. AsksTheServer'
    BY <1>17, MutualExclusion
    DEF RetryConnect, Connect, AbortRebuild, ReleaseAndRespond, Respond,
        Critical, Rebuilding
  <2>6. CutByExit'
    BY <1>17, MutualExclusion
    DEF RetryConnect, Connect, AbortRebuild, ReleaseAndRespond, Respond,
        Critical, Rebuilding
  <2>7. LoadedCurrent'
    BY <1>17, MutualExclusion
    DEF RetryConnect, Connect, AbortRebuild, ReleaseAndRespond, Respond,
        Critical, Rebuilding
  <2> QED
    BY <2>1, <2>2, <2>3, <2>4, <2>5, <2>6, <2>7
<1>18. ASSUME NEW w \in Workers, GiveUp(w) PROVE NInv'
  BY <1>18, MutualExclusion
  DEF GiveUp, ReleaseAndRespond, Respond, Critical, Rebuilding
<1>19. ASSUME NEW w \in Workers, RetryReceive(w) PROVE NInv'
  BY <1>19, MutualExclusion
  DEF RetryReceive, ReleaseAndRespond, Respond, HangUp, Critical, Rebuilding
<1>20. ASSUME NEW s \in Pids, Load(s) PROVE NInv'
  BY <1>20 DEF Load
<1>21. ASSUME NEW s \in Pids, RemoveSocket(s) PROVE NInv'
  <2>1. OneServer'
    BY <1>21 DEF RemoveSocket
  <2>2. SocketIsServed'
    <3>1. \A t \in Pids : proc'[t] \in Serving => t # s /\ proc[t] \in Serving
      BY <1>21 DEF RemoveSocket
    <3>2. \A t \in Pids \ {s} : proc[t] \in Serving => home[t] # home[s]
      BY <1>21, SMTT(30) DEF RemoveSocket
    <3>3. \A p \in Pages : sock'[p] = IF p = home[s] THEN None ELSE sock[p]
      BY <1>21 DEF RemoveSocket
    <3>4. \A t \in Pids \ {s} : proc'[t] = proc[t] /\ home'[t] = home[t]
      BY <1>21 DEF RemoveSocket
    <3>5. home' = home /\ proc[s] \notin Serving
      BY <1>21 DEF RemoveSocket
    <3> QED
      BY <3>1, <3>2, <3>3, <3>4, <3>5, SMTT(30)
  <2>3. LaunchIsAwaited'
    BY <1>21 DEF RemoveSocket
  <2>4. NoneLeft'
    BY <1>21 DEF RemoveSocket
  <2>5. AsksTheServer'
    BY <1>21 DEF RemoveSocket
  <2>6. CutByExit'
    BY <1>21 DEF RemoveSocket
  <2>7. LoadedCurrent'
    BY <1>21 DEF RemoveSocket
  <2> QED
    BY <2>1, <2>2, <2>3, <2>4, <2>5, <2>6, <2>7
<1>22. ASSUME NEW s \in Pids, Listen(s) PROVE NInv'
  <2>1. OneServer'
    BY <1>22, SMTT(30) DEF Listen, ProcessGone
  <2>2. SocketIsServed'
    BY <1>22, SMTT(60) DEF Listen, ProcessGone
  <2>3. LaunchIsAwaited'
    BY <1>22, SMTT(30) DEF Listen, ProcessGone
  <2>4. NoneLeft'
    BY <1>22, SMTT(30) DEF Listen, ProcessGone
  <2>5. AsksTheServer'
    BY <1>22, SMTT(30) DEF Listen, ProcessGone
  <2>6. CutByExit'
    BY <1>22 DEF Listen, ProcessGone
  <2>7. LoadedCurrent'
    BY <1>22 DEF Listen, ProcessGone
  <2> QED
    BY <2>1, <2>2, <2>3, <2>4, <2>5, <2>6, <2>7
<1>23. ASSUME NEW s \in Pids, Drained(s) PROVE NInv'
  BY <1>23 DEF Drained, ProcessGone
<1>24. ASSUME NEW s \in Pids, IdleExit(s) PROVE NInv'
  BY <1>24 DEF IdleExit, ProcessGone
<1>25. ASSUME NEW s \in Pids, AcceptDummy(s) PROVE NInv'
  BY <1>25 DEF AcceptDummy
<1>26. ASSUME NEW s \in Pids, IdleExpire(s) PROVE NInv'
  BY <1>26 DEF IdleExpire
<1>27. ASSUME NEW s \in Pids, Crash(s) PROVE NInv'
  BY <1>27 DEF Crash, ProcessGone
<1>28. ASSUME NEW s \in Pids, NEW w \in Workers, Accept(s, w) PROVE NInv'
  <2>1. OneServer'
    BY <1>28, SMTT(30) DEF Accept, Linked
  <2>2. SocketIsServed'
    BY <1>28, SMTT(60) DEF Accept, Linked
  <2>3. LaunchIsAwaited'
    BY <1>28 DEF Accept, Linked
  <2>4. NoneLeft'
    BY <1>28, SMTT(60) DEF Accept, Linked
  <2>5. AsksTheServer'
    BY <1>28, SMTT(30) DEF Accept, Linked
  <2>6. CutByExit'
    BY <1>28 DEF Accept, Linked
  <2>7. LoadedCurrent'
    BY <1>28 DEF Accept, Linked
  <2> QED
    BY <2>1, <2>2, <2>3, <2>4, <2>5, <2>6, <2>7
<1>29. ASSUME NEW s \in Pids, NEW w \in Workers, AnswerPage(s, w) PROVE NInv'
  BY <1>29 DEF AnswerPage, Handling, Linked
<1>30. ASSUME NEW s \in Pids, NEW w \in Workers, AnswerPid(s, w) PROVE NInv'
  BY <1>30 DEF AnswerPid, Handling, Linked
<1>31. ASSUME NEW s \in Pids, NEW w \in Workers, AnswerExit(s, w) PROVE NInv'
  BY <1>31 DEF AnswerExit, Handling, Linked
<1>36. ASSUME NEW s \in Pids, NEW w \in Workers, HearExit(s, w) PROVE NInv'
  <2>1. OneServer'
    BY <1>36, SMTT(30) DEF HearExit, Handling, Linked
  <2>2. SocketIsServed'
    BY <1>36, SMTT(60) DEF HearExit, Handling, Linked
  <2>3. LaunchIsAwaited'
    BY <1>36 DEF HearExit, Handling, Linked
  <2>4. NoneLeft'
    BY <1>36, SMTT(30) DEF HearExit, Handling, Linked
  <2>5. AsksTheServer'
    BY <1>36, SMTT(30) DEF HearExit, Handling, Linked
  <2>6. CutByExit'
    BY <1>36 DEF HearExit, Handling, Linked
  <2>7. LoadedCurrent'
    BY <1>36 DEF HearExit, Handling, Linked
  <2> QED
    BY <2>1, <2>2, <2>3, <2>4, <2>5, <2>6, <2>7
<1>32. ASSUME NEW s \in Pids, NEW w \in Workers, Deadline(s, w) PROVE NInv'
  BY <1>32 DEF Deadline
<1>33. ASSUME NEW p \in Pages, AuthorNext(p) PROVE NInv'
  BY <1>33, AuthorFrame
<1>34. CASE UNCHANGED vars
  BY <1>34 DEF vars
<1> QED
  BY <1>1, <1>2, <1>3, <1>4, <1>5, <1>6, <1>7, <1>8, <1>9, <1>10, <1>11, <1>12,
     <1>13, <1>14, <1>15, <1>16, <1>17, <1>18, <1>19, <1>20, <1>21, <1>22,
     <1>23, <1>24, <1>25, <1>26, <1>27, <1>28, <1>29, <1>30, <1>31, <1>32,
     <1>33, <1>34, <1>35, <1>36
  DEF Next, WorkerNext, HandlerStep, ServerNext, ServerStep, ConnectionStep

-----------------------------------------------------------------------------
(***************************************************************************)
(* The theorems about servers.                                             *)
(***************************************************************************)

\* The inductive invariant of the servers.
THEOREM Nominal == ASSUME Timely PROVE Spec => []NInv
<1>1. Init => NInv
  BY NominalInit
<1>2. TypeOK /\ LockDiscipline /\ NInv /\ [Next]_vars => NInv'
  BY NominalStep
<1> QED
  BY <1>1, <1>2, Typing, Mutex, PTL DEF Spec

\* There is one gosp-server at work per page, however launches, exits, crashes
\* and kill clocks follow one another (mod_gosp.c:362-376, serve.go:106-123).
THEOREM OneServerAtATime == ASSUME Timely PROVE Spec => []OneServer
<1>1. NInv => OneServer
  BY DEF NInv
<1> QED
  BY <1>1, Nominal, PTL

\* What a request for a page is sent to runs the plugin that is there, even if
\* that is replaced while the request looks for it (mod_gosp.c:348-361).
THEOREM ServersAreCurrent == ASSUME Timely PROVE Spec => []ServerCurrent
<1>1. TypeOK /\ NInv => ServerCurrent
  BY DEF TypeOK, NInv, SocketIsServed, LoadedCurrent, ServerCurrent, Reachable
<1> QED
  BY <1>1, Nominal, Typing, PTL

\* A page is compiled when its last server is gone (launch.c:218-235).
THEOREM KilledServersAreGone == ASSUME Timely PROVE Spec => []KilledMeansGone
<1>1. NInv => KilledMeansGone
  BY DEF NInv, NoneLeft, KilledMeansGone
<1> QED
  BY <1>1, Nominal, PTL

-----------------------------------------------------------------------------
(***************************************************************************)
(* Plugins and the texts of their pages.                                   *)
(***************************************************************************)

\* A plugin that is not older than its page has the last text of the page that
\* was published or a later one, and so will one that is being compiled.
UpToDate ==
    /\ \A p \in Pages : published[p] <= edits[p]
    /\ \A p \in Pages :
         plugin[p] # None => /\ plugin[p] <= edits[p]
                             /\ newer[p] \/ published[p] <= plugin[p]
    /\ \A w \in Workers :
         pc[w] = "building" => /\ build[w] \in Nat
                               /\ published[page[w]] <= build[w]
                               /\ build[w] <= edits[page[w]]

\* Every step keeps that what passes for up to date has what was published: an
\* edit of which the mtimes tell nothing publishes nothing.
LEMMA UpToDateStep ==
  ASSUME TypeOK, UpToDate, [Next]_vars
  PROVE  UpToDate'
<1> USE DEF UpToDate
<1>1. ASSUME NEW w \in Workers, WorkerNext(w) PROVE UpToDate'
  <2>1. UNCHANGED <<edits, published>>
    BY <1>1, WorkerFrame
  <2>2. ASSUME NEW p \in Pages, plugin'[p] # None
        PROVE  /\ plugin'[p] <= edits'[p]
               /\ newer'[p] \/ published'[p] <= plugin'[p]
    <3>1. CASE UNCHANGED <<plugin, newer, compiles>>
      BY <2>1, <2>2, <3>1
    <3>2. CASE CompileEnd(w) /\ InstallPlugin(w)
      <4>1. pc[w] = "building"
        BY <3>2 DEF CompileEnd
      <4>2. CASE p = page[w]
        <5>1. plugin'[p] = build[w]
          BY <3>2, <4>2 DEF InstallPlugin, TypeOK
        <5> QED
          BY <2>1, <4>1, <4>2, <5>1
      <4>3. CASE p # page[w]
        <5>1. plugin'[p] = plugin[p] /\ newer'[p] = newer[p]
          BY <3>2, <4>3 DEF InstallPlugin, TypeOK
        <5> QED
          BY <2>1, <2>2, <5>1
      <4> QED
        BY <4>2, <4>3
    <3> QED
      BY <1>1, <3>1, <3>2, OnlyCompileEndInstalls, CompileEnds
  <2>3. ASSUME NEW x \in Workers, pc'[x] = "building"
        PROVE  /\ build'[x] \in Nat
               /\ published'[page'[x]] <= build'[x]
               /\ build'[x] <= edits'[page'[x]]
    <3>1. CASE x = w
      <4>1. build'[x] = edits[page[x]] /\ page' = page
        BY <1>1, <2>3, <3>1, BuildStarts, RebuildStarts DEF Rebuilding
      <4> QED
        BY <2>1, <4>1 DEF TypeOK
    <3>2. CASE x # w
      BY <1>1, <2>1, <2>3, <3>2, WorkerFrame
    <3> QED
      BY <3>1, <3>2
  <2> QED
    BY <2>1, <2>2, <2>3
<1>2. ASSUME NEW s \in Pids, ServerNext(s) PROVE UpToDate'
  BY <1>2, ServerFrame DEF files, request
<1>3. ASSUME NEW p \in Pages, AuthorNext(p) PROVE UpToDate'
  <2>1. UNCHANGED <<plugin, pc, build, page>>
    BY <1>3, AuthorFrame DEF request
  <2>2. CASE Delete(p)
    BY <2>1, <2>2 DEF Delete
  <2>3. CASE Edit(p)
    <3>1. edits' = [edits EXCEPT ![p] = @ + 1]
      BY <2>3 DEF Edit
    <3>2. \A q \in Pages : edits'[q] = IF q = p THEN edits[q] + 1 ELSE edits[q]
      BY <3>1 DEF TypeOK
    <3>3. CASE /\ \A w \in Workers : pc[w] = "building" => page[w] # p
               /\ newer' = [newer EXCEPT ![p] = TRUE]
               /\ published' = [published EXCEPT ![p] = edits[p] + 1]
      <4>1. \A q \in Pages : /\ newer'[q] = IF q = p THEN TRUE ELSE newer[q]
                             /\ published'[q] = IF q = p THEN edits[q] + 1
                                                         ELSE published[q]
        BY <3>3 DEF TypeOK
      <4> QED
        BY <2>1, <3>2, <3>3, <4>1 DEF TypeOK
    <3>4. CASE /\ newer' \in {newer, [newer EXCEPT ![p] = TRUE]}
               /\ UNCHANGED published
      <4>1. \A q \in Pages : newer[q] => newer'[q]
        BY <3>4 DEF TypeOK
      <4> QED
        BY <2>1, <3>2, <3>4, <4>1 DEF TypeOK
    <3> QED
      BY <2>3, <3>3, <3>4 DEF Edit
  <2> QED
    BY <1>3, <2>2, <2>3 DEF AuthorNext
<1>4. CASE UNCHANGED vars
  BY <1>4 DEF vars, files, request
<1> QED
  BY <1>1, <1>2, <1>3, <1>4 DEF Next

\* Therefore it always has, whatever fails and however the files change.
LEMMA UpToDateAlways == Spec => []UpToDate
<1>1. Init => UpToDate
  BY NoneAssumption DEF Init, UpToDate
<1>2. TypeOK /\ UpToDate /\ [Next]_vars => UpToDate'
  BY UpToDateStep
<1> QED
  BY <1>1, <1>2, Typing, PTL DEF Spec

-----------------------------------------------------------------------------
(***************************************************************************)
(* The proof that Gosp implements PageService: whatever a client is shown  *)
(* is a text that its page had at some moment of its request.              *)
(***************************************************************************)

\* No page disappears.  (The handler pings the old server of a page that
\* disappears behind its back: utils.c:113 answers -1, which is not 1.)
Kept == ~May("delete")

(***************************************************************************)
(* The inductive invariant, on top of IInv, NInv and UpToDate.             *)
(***************************************************************************)

\* v is a text that the page of w's request had since the request arrived, or
\* no text.
InTime(w, v) == v = None \/ (floor[w] <= v /\ v <= edits[page[w]])

PagesExist == \A p \in Pages : exists[p]

\* Nobody who is waiting has a result.
NoResultYet == \A w \in Workers : pc[w] # "idle" => result[w] # "ok"

FloorIsPast == \A w \in Workers : floor[w] <= published[page[w]]

\* Who is about to ask a server, by way of the fast path or after a rebuild,
\* has seen a plugin that is new enough, or that there is none.
PluginInTime ==
    \A w \in Workers :
        pc[w] \in {"fast", "ping", "pingwait", "launch"} \cup Retrying
          => InTime(w, plugin[page[w]])

\* Who is at the other end of a connection has loaded a plugin, and keeps it.
PeersServe ==
    \A w \in Workers : peer[w] # None => proc[peer[w]] \in Serving \cup {"expired"}
PeerInTime ==
    \A w \in Workers : pc[w] \in AwaitsPage /\ peer[w] # None
                         => InTime(w, ver[peer[w]])

ShownInTime == \A w \in Workers : InTime(w, shown[w])

SInv == /\ PagesExist
        /\ NoResultYet
        /\ FloorIsPast
        /\ PluginInTime
        /\ PeersServe
        /\ PeerInTime
        /\ ShownInTime

-----------------------------------------------------------------------------
\* At the start no request has arrived.
LEMMA ServiceInit == Init => SInv
  BY NoneAssumption
  DEF Init, SInv, PagesExist, NoResultYet, FloorIsPast, PluginInTime, PeersServe,
      PeerInTime, ShownInTime, InTime

\* A worker connects to a process that serves its page with the plugin that is
\* there.
LEMMA ConnectsToServer ==
  ASSUME TypeOK, NInv, NEW w \in Workers, Connect(w)
  PROVE  /\ peer' = [peer EXCEPT ![w] = sock[page[w]]]
         /\ link' = [link EXCEPT ![w] = "queued"]
         /\ proc[sock[page[w]]] \in Serving
         /\ ver[sock[page[w]]] = plugin[page[w]]
  BY DEF TypeOK, NInv, Connect, Reachable, SocketIsServed, LoadedCurrent

\* A plugin that is_newer_than lets pass is new enough for any request.
LEMMA PluginPasses ==
  ASSUME TypeOK, PagesExist, FloorIsPast, UpToDate, NEW w \in Workers,
         IsNewer(page[w]) = 0 \/ ~NeedsCompile(page[w])
  PROVE  InTime(w, plugin[page[w]])
<1>1. page[w] \in Pages /\ exists[page[w]]
  BY DEF TypeOK, PagesExist
<1>2. plugin[page[w]] = None \/ ~newer[page[w]]
  BY <1>1 DEF TypeOK, IsNewer, NeedsCompile
<1> QED
  BY <1>1, <1>2 DEF TypeOK, UpToDate, FloorIsPast, InTime

\* Every step keeps the invariant: a server is asked while its plugin is new
\* enough, and an edit makes no text older than it was.
LEMMA ServiceStep ==
  ASSUME Timely, Kept, TypeOK, NInv, UpToDate, SInv, [Next]_vars
  PROVE  SInv'
<1> USE NoneAssumption
    DEF SInv, PagesExist, NoResultYet, FloorIsPast, PluginInTime, PeersServe,
        PeerInTime, ShownInTime, InTime, AwaitsPage, Retrying,
        TypeOK, Goto, Become, SetLink, files, servers, conns, request, effects
<1>1. ASSUME NEW w \in Workers, Request(w) PROVE SInv'
  BY <1>1 DEF Request, Respond
<1>2. ASSUME NEW w \in Workers, Check(w) PROVE SInv'
  BY <1>2, PluginPasses DEF Check
<1>3. ASSUME NEW w \in Workers, FastConnect(w) PROVE SInv'
  <2>1. CASE Connect(w) /\ Goto(w, "fastwait") /\ UNCHANGED result
    BY <1>3, <2>1, ConnectsToServer, SMTT(30) DEF FastConnect
  <2>2. CASE Goto(w, "lock") /\ UNCHANGED <<result, conns>>
    BY <1>3, <2>2 DEF FastConnect
  <2>3. CASE Respond(w, "error") /\ UNCHANGED conns
    BY <1>3, <2>3 DEF FastConnect, Respond
  <2> QED
    BY <1>3, <2>1, <2>2, <2>3 DEF FastConnect
<1>4. ASSUME NEW w \in Workers, FastReceive(w) PROVE SInv'
  BY <1>4 DEF FastReceive, AfterReply, Respond, HangUp
<1>5. ASSUME NEW w \in Workers, LockAcquire(w) PROVE SInv'
  BY <1>5 DEF LockAcquire
<1>6. ASSUME NEW w \in Workers, LockTimeout(w) PROVE SInv'
  BY <1>6 DEF LockTimeout, Respond
<1>35. ASSUME NEW w \in Workers, LockFails(w) PROVE SInv'
  BY <1>35 DEF LockFails, Timely
<1>7. ASSUME NEW w \in Workers, Stat(w) PROVE SInv'
  BY <1>7, PluginPasses DEF Stat, PassesUnseen, Timely, AbortRebuild, ReleaseAndRespond, Respond
<1>8. ASSUME NEW w \in Workers, KillConnect(w) PROVE SInv'
  <2>1. CASE Connect(w) /\ Goto(w, "killwait")
    BY <1>8, <2>1, ConnectsToServer DEF KillConnect
  <2>2. CASE Goto(w, "unlink") /\ UNCHANGED conns
    BY <1>8, <2>2 DEF KillConnect
  <2> QED
    BY <1>8, <2>1, <2>2 DEF KillConnect
<1>9. ASSUME NEW w \in Workers, KillReceive(w) PROVE SInv'
  BY <1>9 DEF KillReceive, HangUp
<1>10. ASSUME NEW w \in Workers, Reap(w) PROVE SInv'
  BY <1>10 DEF Reap, ProcessGone
<1>11. ASSUME NEW w \in Workers, Unlink(w) PROVE SInv'
  BY <1>11 DEF Unlink, AbortRebuild, ReleaseAndRespond, Respond
<1>12. ASSUME NEW w \in Workers, Compile(w) PROVE SInv'
  BY <1>12 DEF Compile, AbortRebuild, ReleaseAndRespond, Respond
<1>13. ASSUME NEW w \in Workers, CompileEnd(w) PROVE SInv'
  <2>1. CASE InstallPlugin(w) /\ Goto(w, "ping") /\ UNCHANGED <<lock, result>>
    <3>1. \A p \in Pages : plugin'[p] = IF p = page[w] THEN build[w] ELSE plugin[p]
      BY <2>1 DEF InstallPlugin
    <3>2. UNCHANGED <<edits, published, floor, page>>
      BY <1>13 DEF CompileEnd
    <3>3. /\ build[w] \in Nat
          /\ published[page[w]] <= build[w] /\ build[w] <= edits[page[w]]
      BY <1>13 DEF CompileEnd, UpToDate
    <3>4. \A x \in Workers : page[x] = page[w] => InTime(x, build[w])
      BY <3>3
    <3>5. \A x \in Workers :
            InTime(x, plugin[page[x]]) => InTime(x, plugin[page[x]])'
      BY <3>1, <3>2, <3>4
    <3>6. \A x \in Workers : x # w => pc'[x] = pc[x]
      BY <2>1
    <3>7. InTime(w, plugin[page[w]])'
      BY <3>1, <3>2, <3>4
    <3>8. PluginInTime'
      BY <3>5, <3>6, <3>7
    <3> QED
      BY <1>13, <2>1, <3>8 DEF CompileEnd
  <2>2. CASE AbortRebuild(w) /\ UNCHANGED <<plugin, newer, compiles>>
    BY <1>13, <2>2 DEF CompileEnd, AbortRebuild, ReleaseAndRespond, Respond
  <2> QED
    BY <1>13, <2>1, <2>2 DEF CompileEnd
<1>14. ASSUME NEW w \in Workers, Ping(w) PROVE SInv'
  <2>1. CASE Connect(w) /\ Goto(w, "pingwait")
    BY <1>14, <2>1, ConnectsToServer DEF Ping
  <2>2. CASE Goto(w, "launch") /\ UNCHANGED conns
    BY <1>14, <2>2 DEF Ping
  <2> QED
    BY <1>14, <2>1, <2>2 DEF Ping
<1>15. ASSUME NEW w \in Workers, PingReceive(w) PROVE SInv'
  BY <1>15 DEF PingReceive, HangUp
<1>16. ASSUME NEW w \in Workers, Launch(w) PROVE SInv'
  <2>1. \A x \in Workers : peer[x] # None => proc'[peer[x]] = proc[peer[x]]
    BY <1>16 DEF Launch, Serving
  <2>2. UNCHANGED <<peer, link, ver>>
    BY <1>16 DEF Launch
  <2> QED
    BY <1>16, <2>1, <2>2 DEF Launch, AbortRebuild, ReleaseAndRespond, Respond
<1>17. ASSUME NEW w \in Workers, RetryConnect(w) PROVE SInv'
  <2>1. CASE Connect(w) /\ Goto(w, "retrywait") /\ UNCHANGED <<lock, result>>
    BY <1>17, <2>1, ConnectsToServer, SMTT(30) DEF RetryConnect
  <2>2. CASE AbortRebuild(w) /\ UNCHANGED conns
    BY <1>17, <2>2 DEF RetryConnect, AbortRebuild, ReleaseAndRespond, Respond
  <2>3. CASE Goto(w, "again") /\ UNCHANGED <<lock, result, conns>>
    BY <1>17, <2>3 DEF RetryConnect
  <2> QED
    BY <1>17, <2>1, <2>2, <2>3 DEF RetryConnect
<1>18. ASSUME NEW w \in Workers, GiveUp(w) PROVE SInv'
  BY <1>18 DEF GiveUp, ReleaseAndRespond, Respond
<1>19. ASSUME NEW w \in Workers, RetryReceive(w) PROVE SInv'
  BY <1>19 DEF RetryReceive, ReleaseAndRespond, Respond, HangUp
<1>20. ASSUME NEW s \in Pids, Load(s) PROVE SInv'
  BY <1>20 DEF Load, Serving
<1>21. ASSUME NEW s \in Pids, RemoveSocket(s) PROVE SInv'
  BY <1>21 DEF RemoveSocket, Serving
<1>22. ASSUME NEW s \in Pids, Listen(s) PROVE SInv'
  BY <1>22, SMTT(30) DEF Listen, ProcessGone, Serving
<1>23. ASSUME NEW s \in Pids, Drained(s) PROVE SInv'
  BY <1>23 DEF Drained, ProcessGone, Serving
<1>24. ASSUME NEW s \in Pids, IdleExit(s) PROVE SInv'
  BY <1>24 DEF IdleExit, ProcessGone, Serving
<1>25. ASSUME NEW s \in Pids, AcceptDummy(s) PROVE SInv'
  BY <1>25 DEF AcceptDummy, Serving
<1>26. ASSUME NEW s \in Pids, IdleExpire(s) PROVE SInv'
  BY <1>26 DEF IdleExpire, Serving
<1>27. ASSUME NEW s \in Pids, Crash(s) PROVE SInv'
  BY <1>27 DEF Crash, ProcessGone, Serving
<1>28. ASSUME NEW s \in Pids, NEW w \in Workers, Accept(s, w) PROVE SInv'
  BY <1>28 DEF Accept, Linked, Serving
<1>29. ASSUME NEW s \in Pids, NEW w \in Workers, AnswerPage(s, w) PROVE SInv'
  BY <1>29 DEF AnswerPage, Handling, Linked, Serving
<1>30. ASSUME NEW s \in Pids, NEW w \in Workers, AnswerPid(s, w) PROVE SInv'
  BY <1>30 DEF AnswerPid, Handling, Linked, Serving
<1>31. ASSUME NEW s \in Pids, NEW w \in Workers, AnswerExit(s, w) PROVE SInv'
  BY <1>31 DEF AnswerExit, Handling, Linked, Serving
<1>36. ASSUME NEW s \in Pids, NEW w \in Workers, HearExit(s, w) PROVE SInv'
  BY <1>36 DEF HearExit, Handling, Linked, Serving
<1>32. ASSUME NEW s \in Pids, NEW w \in Workers, Deadline(s, w) PROVE SInv'
  BY <1>32 DEF Deadline, Handling, Linked, Serving
<1>33. ASSUME NEW p \in Pages, AuthorNext(p) PROVE SInv'
  <2>1. \A q \in Pages : edits'[q] \in Nat /\ edits[q] <= edits'[q]
    BY <1>33, EditIsDue
  <2>7. \A q \in Pages : published[q] <= published'[q] /\ published'[q] \in Nat
    BY <1>33 DEF AuthorNext, Edit, Delete, UpToDate
  <2>2. UNCHANGED <<plugin, servers, pc, result, conns, request, shown>>
    BY <1>33, AuthorFrame
  <2>3. \A w \in Workers : InTime(w, plugin[page[w]]) => InTime(w, plugin[page[w]])'
    BY <2>1, <2>2
  <2>4. \A w \in Workers : InTime(w, shown[w]) => InTime(w, shown[w])'
    BY <2>1, <2>2
  <2>5. \A w \in Workers : peer[w] # None /\ InTime(w, ver[peer[w]])
                             => InTime(w, ver[peer[w]])'
    BY <2>1, <2>2
  <2>6. PagesExist'
    BY <1>33 DEF AuthorNext, Edit, Delete, Kept
  <2> QED
    BY <2>1, <2>2, <2>3, <2>4, <2>5, <2>6, <2>7
<1>34. CASE UNCHANGED vars
  BY <1>34 DEF vars
<1> QED
  BY <1>1, <1>2, <1>3, <1>4, <1>5, <1>6, <1>7, <1>8, <1>9, <1>10, <1>11, <1>12,
     <1>13, <1>14, <1>15, <1>16, <1>17, <1>18, <1>19, <1>20, <1>21, <1>22,
     <1>23, <1>24, <1>25, <1>26, <1>27, <1>28, <1>29, <1>30, <1>31, <1>32,
     <1>33, <1>34, <1>35, <1>36
  DEF Next, WorkerNext, HandlerStep, ServerNext, ServerStep, ConnectionStep

\* While servers have the time they need and no page disappears, what a worker
\* is about to show was a text of its page during the request.
THEOREM ShownWhileServed == ASSUME Timely, Kept PROVE Spec => []SInv
<1>1. Init => SInv
  BY ServiceInit
<1>2. TypeOK /\ NInv /\ UpToDate /\ SInv /\ [Next]_vars => SInv'
  BY ServiceStep
<1>3. Spec => []UpToDate
  BY UpToDateAlways
<1> QED
  BY <1>1, <1>2, <1>3, Nominal, Typing, PTL DEF Spec

-----------------------------------------------------------------------------
(***************************************************************************)
(* The refinement mapping, step by step.                                   *)
(***************************************************************************)

\* Until it answers, a worker changes nothing that the service knows of.
LEMMA WorkerEffect ==
  ASSUME TypeOK, NEW w \in Workers,
         LockAcquire(w) \/ LockFails(w) \/ HandlerStep(w)
  PROVE  /\ pc[w] # "idle"
         /\ UNCHANGED <<edits, published, page, floor, shown>>
         /\ \/ \E step \in PcStates \ {"idle"} : Goto(w, step) /\ UNCHANGED result
            \/ \E r \in Results : Respond(w, r)
  BY DEF TypeOK, HandlerStep, LockAcquire, LockFails, Check, FastConnect, FastReceive,
         LockTimeout, Stat, KillConnect, KillReceive, Reap, Unlink, Compile,
         CompileEnd, Ping, PingReceive, Launch, RetryConnect, GiveUp,
         RetryReceive, ReleaseAndRespond, AbortRebuild, AfterReply, PageReply,
         InstallPlugin, PcStates, Critical, Rebuilding, Retrying, Results, files, servers,
         conns, request, effects, Goto, Respond

\* A worker that goes on without answering is still waited for.
LEMMA StillWaiting ==
  ASSUME TypeOK, NEW w \in Workers, pc[w] # "idle",
         NEW step \in PcStates \ {"idle"}, Goto(w, step),
         UNCHANGED <<edits, published, page, floor, shown, result>>
  PROVE  UNCHANGED Service!vars
  BY DEF TypeOK, Goto, Service!vars

\* The return of gosp_handler is the answer of the service.
LEMMA RespondAnswers ==
  ASSUME TypeOK, SInv, NEW w \in Workers, pc[w] # "idle",
         NEW r \in Results, Respond(w, r),
         UNCHANGED <<edits, published, page, floor, shown>>
  PROVE  Service!Answer(w)
<1> DEFINE told(rs) == [x \in Workers |-> IF rs[x] = "ok" THEN shown[x] ELSE None]
           v == IF r = "ok" THEN shown[w] ELSE None
<1>1. v \in (floor[w] .. edits[page[w]]) \cup {None}
  BY DEF TypeOK, SInv, ShownInTime, InTime
<1>2. told(result') = [told(result) EXCEPT ![w] = v]
  BY DEF TypeOK, Respond
<1>3. {x \in Workers : pc'[x] # "idle"} = {x \in Workers : pc[x] # "idle"} \ {w}
  BY DEF TypeOK, Respond, Goto
<1> QED
  BY <1>1, <1>2, <1>3 DEF Service!Answer

\* A request that arrives is a client asking.
LEMMA RequestAsks ==
  ASSUME TypeOK, NEW w \in Workers, Request(w)
  PROVE  \E p \in Pages : Service!Ask(w, p) \/ Service!AskInVain(w, p)
<1>1. PICK p \in Pages :
        /\ page' = [page EXCEPT ![w] = p]
        /\ floor' = [floor EXCEPT ![w] = published[p]]
        /\ \/ Goto(w, "check") /\ result' = [result EXCEPT ![w] = "none"]
           \/ Respond(w, "notfound")
  BY DEF Request
<1>2. /\ pc[w] = "idle"
      /\ shown' = [shown EXCEPT ![w] = None]
      /\ UNCHANGED <<edits, published>>
  BY DEF Request, files
<1> DEFINE told(rs, sh) == [x \in Workers |-> IF rs[x] = "ok" THEN sh[x] ELSE None]
<1>3. told(result', shown') = [told(result, shown) EXCEPT ![w] = None]
  BY <1>1, <1>2 DEF TypeOK, Respond
<1>4. CASE Goto(w, "check")
  <2>1. {x \in Workers : pc'[x] # "idle"} = {x \in Workers : pc[x] # "idle"} \cup {w}
    BY <1>4 DEF TypeOK, Goto
  <2> QED
    BY <1>1, <1>2, <1>3, <2>1 DEF Service!Ask
<1>5. CASE Respond(w, "notfound")
  <2>1. {x \in Workers : pc'[x] # "idle"} = {x \in Workers : pc[x] # "idle"}
    BY <1>2, <1>5 DEF TypeOK, Respond, Goto
  <2> QED
    BY <1>1, <1>2, <1>3, <2>1 DEF Service!AskInVain
<1> QED
  BY <1>1, <1>4, <1>5

\* A text is put on show only while its request is unanswered.
LEMMA ServerStutters ==
  ASSUME TypeOK, SInv, NEW s \in Pids, ServerNext(s)
  PROVE  UNCHANGED Service!vars
<1>1. UNCHANGED <<files, pc, result, request>>
  BY ServerFrame
<1>2. \A w \in Workers : shown'[w] # shown[w] => pc[w] \in AwaitsPage
  BY DEF TypeOK, ServerNext, ServerStep, ConnectionStep, Load, RemoveSocket,
         Listen, Drained, IdleExit, Accept, AnswerPage, AnswerPid, HearExit,
         AnswerExit, Deadline, AcceptDummy, IdleExpire, Crash, effects
<1>3. \A w \in Workers : result[w] = "ok" => shown'[w] = shown[w]
  BY <1>2 DEF SInv, NoResultYet, AwaitsPage
<1> QED
  BY <1>1, <1>3 DEF Service!vars, files, request

\* Every step of the system is a step of the abstract service, or none.
LEMMA ServiceSimulates ==
  ASSUME TypeOK, SInv, [Next]_vars
  PROVE  [Service!Next]_(Service!vars)
<1>1. ASSUME NEW w \in Workers, WorkerNext(w) PROVE [Service!Next]_(Service!vars)
  <2>1. CASE Request(w)
    BY <2>1, RequestAsks DEF Service!Next
  <2>2. CASE LockAcquire(w) \/ LockFails(w) \/ HandlerStep(w)
    BY <2>2, WorkerEffect, StillWaiting, RespondAnswers DEF Service!Next
  <2> QED
    BY <1>1, <2>1, <2>2 DEF WorkerNext
<1>2. ASSUME NEW s \in Pids, ServerNext(s) PROVE [Service!Next]_(Service!vars)
  BY <1>2, ServerStutters
<1>3. ASSUME NEW p \in Pages, AuthorNext(p) PROVE [Service!Next]_(Service!vars)
  <2>1. UNCHANGED <<pc, result, page, floor, shown>>
    BY <1>3, AuthorFrame DEF request, effects
  <2>2. CASE Delete(p)
    BY <2>1, <2>2 DEF Delete, Service!vars
  <2>3. CASE Edit(p)
    BY <2>1, <2>3 DEF Edit, Service!Rewrite, Service!Next
  <2> QED
    BY <1>3, <2>2, <2>3 DEF AuthorNext
<1>4. CASE UNCHANGED vars
  BY <1>4 DEF vars, files, request, effects, Service!vars
<1> QED
  BY <1>1, <1>2, <1>3, <1>4 DEF Next

\* Apache, the module, the plugins and the gosp-servers together answer every
\* request with a text that its page had while the request was served, or with
\* none (mod_gosp.c:411-486), for any number of workers, pages and processes.
THEOREM AnswersInTime == ASSUME Timely, Kept PROVE Spec => ImplementsService
<1>1. Init => Service!Init
  BY DEF Init, Service!Init
<1>2. TypeOK /\ SInv /\ [Next]_vars => [Service!Next]_(Service!vars)
  BY ServiceSimulates
<1> QED
  BY <1>1, <1>2, Typing, ShownWhileServed, PTL
  DEF Spec, ImplementsService, Service!Spec
=============================================================================
