------------------------------ MODULE GospProofs ------------------------------
(***************************************************************************)
(* Proofs, for every number of workers, pages, processes and edits and for *)
(* every combination of faults, of the safety properties of Gosp that hold *)
(* whatever goes wrong.                                                    *)
(***************************************************************************)
EXTENDS Gosp, TLAPS

(***************************************************************************)
(* Types.                                                                  *)
(***************************************************************************)

\* A process that ends leaves every variable in its type.
LEMMA GoneType ==
  ASSUME TypeOK, NEW s \in Pids, ProcessGone(s)
  PROVE  /\ proc' \in [Pids -> ProcStates]
         /\ home' \in [Pids -> Pages \cup {None}]
         /\ ver' \in [Pids -> Nat \cup {None}]
         /\ sock' \in [Pages -> Pids \cup {None, Stale}]
         /\ peer' \in [Workers -> Pids \cup {None}]
         /\ link' \in [Workers -> LinkStates]
         /\ \A t \in Pids : proc'[t] # "free" => home'[t] \in Pages
  BY DEF TypeOK, ProcessGone, ProcStates, LinkStates

\* Every step of the module, of a server or of an author (and every
\* stuttering step) keeps every variable in its type.
LEMMA TypeStep == TypeOK /\ [Next]_vars => TypeOK'
<1> SUFFICES ASSUME TypeOK, [Next]_vars
             PROVE  TypeOK'
  OBVIOUS
<1> USE NoneAssumption
    DEF TypeOK, files, servers, conns, request, effects, ProcStates,
        LinkStates, Results, PcStates, Critical, Rebuilding, Retrying, Goto,
        Become, SetLink
<1>1. ASSUME NEW w \in Workers, Request(w) PROVE TypeOK'
  BY <1>1, SMTT(30) DEF Request, Respond
<1>2. ASSUME NEW w \in Workers, Check(w) PROVE TypeOK'
  BY <1>2 DEF Check
<1>3. ASSUME NEW w \in Workers, FastConnect(w) PROVE TypeOK'
  BY <1>3, SMTT(30) DEF FastConnect, Respond, Connect, Reachable
<1>4. ASSUME NEW w \in Workers, FastReceive(w) PROVE TypeOK'
  BY <1>4 DEF FastReceive, AfterReply, Respond, HangUp, PageReply
<1>5. ASSUME NEW w \in Workers, LockAcquire(w) PROVE TypeOK'
  BY <1>5 DEF LockAcquire
<1>6. ASSUME NEW w \in Workers, LockTimeout(w) PROVE TypeOK'
  BY <1>6 DEF LockTimeout, Respond
<1>7. ASSUME NEW w \in Workers, Stat(w) PROVE TypeOK'
  BY <1>7 DEF Stat, AbortRebuild, ReleaseAndRespond, Respond
<1>8. ASSUME NEW w \in Workers, KillConnect(w) PROVE TypeOK'
  BY <1>8, SMTT(30) DEF KillConnect, Connect, Reachable
<1>9. ASSUME NEW w \in Workers, KillReceive(w) PROVE TypeOK'
  BY <1>9, SMTT(30) DEF KillReceive, HangUp
<1>10. ASSUME NEW w \in Workers, Reap(w) PROVE TypeOK'
  BY <1>10, GoneType DEF Reap
<1>11. ASSUME NEW w \in Workers, Unlink(w) PROVE TypeOK'
  BY <1>11, SMTT(30) DEF Unlink, AbortRebuild, ReleaseAndRespond, Respond
<1>12. ASSUME NEW w \in Workers, Compile(w) PROVE TypeOK'
  <2>1. CASE pc' = [pc EXCEPT ![w] = "building"]
    <3>1. build' \in [Workers -> Nat \cup {None}]
      BY <1>12 DEF Compile
    <3> QED
      BY <1>12, <2>1, <3>1 DEF Compile, AbortRebuild, ReleaseAndRespond, Respond
  <2>2. CASE AbortRebuild(w) /\ UNCHANGED build
    BY <1>12, <2>2 DEF Compile, AbortRebuild, ReleaseAndRespond, Respond
  <2> QED
    BY <1>12, <2>1, <2>2 DEF Compile
<1>13. ASSUME NEW w \in Workers, CompileEnd(w) PROVE TypeOK'
  <2>1. CASE InstallPlugin(w) /\ Goto(w, "ping") /\ UNCHANGED <<lock, result>>
    <3>1. newer' \in [Pages -> BOOLEAN]
      BY <2>1 DEF InstallPlugin
    <3>2. plugin' \in [Pages -> Nat \cup {None}] /\ compiles' \in [Pages -> Nat]
      BY <2>1 DEF InstallPlugin
    <3> QED
      BY <1>13, <2>1, <3>1, <3>2 DEF CompileEnd
  <2>2. CASE AbortRebuild(w) /\ UNCHANGED <<plugin, newer, compiles>>
    BY <1>13, <2>2 DEF CompileEnd, AbortRebuild, ReleaseAndRespond, Respond
  <2> QED
    BY <1>13, <2>1, <2>2 DEF CompileEnd
<1>14. ASSUME NEW w \in Workers, Ping(w) PROVE TypeOK'
  BY <1>14 DEF Ping, Connect, Reachable
<1>15. ASSUME NEW w \in Workers, PingReceive(w) PROVE TypeOK'
  BY <1>15 DEF PingReceive, HangUp
<1>16. ASSUME NEW w \in Workers, Launch(w) PROVE TypeOK'
  BY <1>16, SMTT(60) DEF Launch, AbortRebuild, ReleaseAndRespond, Respond
<1>17. ASSUME NEW w \in Workers, RetryConnect(w) PROVE TypeOK'
  BY <1>17
  DEF RetryConnect, AbortRebuild, ReleaseAndRespond, Respond, Connect, Reachable
<1>18. ASSUME NEW w \in Workers, GiveUp(w) PROVE TypeOK'
  BY <1>18 DEF GiveUp, ReleaseAndRespond, Respond
<1>19. ASSUME NEW w \in Workers, RetryReceive(w) PROVE TypeOK'
  BY <1>19 DEF RetryReceive, ReleaseAndRespond, Respond, HangUp, PageReply
<1>20. ASSUME NEW s \in Pids, Load(s) PROVE TypeOK'
  BY <1>20 DEF Load
<1>21. ASSUME NEW s \in Pids, RemoveSocket(s) PROVE TypeOK'
  BY <1>21 DEF RemoveSocket
<1>22. ASSUME NEW s \in Pids, Listen(s) PROVE TypeOK'
  BY <1>22, GoneType, SMTT(60) DEF Listen
<1>23. ASSUME NEW s \in Pids, Drained(s) PROVE TypeOK'
  BY <1>23, GoneType DEF Drained
<1>24. ASSUME NEW s \in Pids, IdleExit(s) PROVE TypeOK'
  BY <1>24, GoneType DEF IdleExit
<1>25. ASSUME NEW s \in Pids, AcceptDummy(s) PROVE TypeOK'
  BY <1>25 DEF AcceptDummy
<1>26. ASSUME NEW s \in Pids, IdleExpire(s) PROVE TypeOK'
  BY <1>26 DEF IdleExpire, Serving
<1>27. ASSUME NEW s \in Pids, Crash(s) PROVE TypeOK'
  BY <1>27, GoneType DEF Crash
<1>28. ASSUME NEW s \in Pids, NEW w \in Workers, Accept(s, w) PROVE TypeOK'
  BY <1>28, SMTT(30) DEF Accept
<1>29. ASSUME NEW s \in Pids, NEW w \in Workers, AnswerPage(s, w) PROVE TypeOK'
  BY <1>29 DEF AnswerPage
<1>30. ASSUME NEW s \in Pids, NEW w \in Workers, AnswerPid(s, w) PROVE TypeOK'
  BY <1>30 DEF AnswerPid
<1>31. ASSUME NEW s \in Pids, NEW w \in Workers, AnswerExit(s, w) PROVE TypeOK'
  BY <1>31 DEF AnswerExit
<1>36. ASSUME NEW s \in Pids, NEW w \in Workers, HearExit(s, w) PROVE TypeOK'
  BY <1>36 DEF HearExit
<1>37. ASSUME NEW w \in Workers, LockFails(w) PROVE TypeOK'
  BY <1>37 DEF LockFails, Respond
<1>32. ASSUME NEW s \in Pids, NEW w \in Workers, Deadline(s, w) PROVE TypeOK'
  BY <1>32 DEF Deadline
<1>33. ASSUME NEW p \in Pages, Edit(p) PROVE TypeOK'
  <2>1. newer' \in [Pages -> BOOLEAN]
    BY <1>33 DEF Edit
  <2>2. exists' \in [Pages -> BOOLEAN]
    BY <1>33 DEF Edit
  <2>3. edits' \in [Pages -> Nat]
    BY <1>33 DEF Edit
  <2>4. published' \in [Pages -> Nat]
    BY <1>33 DEF Edit
  <2> QED
    BY <1>33, <2>1, <2>2, <2>3, <2>4 DEF Edit
<1>34. ASSUME NEW p \in Pages, Delete(p) PROVE TypeOK'
  BY <1>34 DEF Delete
<1>35. CASE UNCHANGED vars
  BY <1>35 DEF vars
<1> QED
  BY <1>1, <1>2, <1>3, <1>4, <1>5, <1>6, <1>7, <1>8, <1>9, <1>10, <1>11,
     <1>12, <1>13, <1>14, <1>15, <1>16, <1>17, <1>18, <1>19, <1>20, <1>21,
     <1>22, <1>23, <1>24, <1>25, <1>26, <1>27, <1>28, <1>29, <1>30, <1>31,
     <1>32, <1>33, <1>34, <1>35, <1>36, <1>37
  DEF Next, WorkerNext, HandlerStep, ServerNext, ServerStep, ConnectionStep,
      AuthorNext

\* Initially every variable has its type.
LEMMA InitType == Init => TypeOK
  BY NoneAssumption
  DEF Init, TypeOK, ProcStates, LinkStates, Results, PcStates, Critical,
      Rebuilding

\* Every variable always has its type, and a process in use has a page.
THEOREM Typing == Spec => []TypeOK
<1>1. Init => TypeOK
  BY InitType
<1>2. TypeOK /\ [Next]_vars => TypeOK'
  BY TypeStep
<1> QED
  BY <1>1, <1>2, PTL DEF Spec

-----------------------------------------------------------------------------
(***************************************************************************)
(* Who changes what.                                                       *)
(***************************************************************************)

\* A gosp-server touches no file but its socket, and no worker's own state.
LEMMA ServerFrame ==
  ASSUME NEW s \in Pids, ServerNext(s)
  PROVE  UNCHANGED <<files, lock, pc, build, result, request>>
  BY DEF ServerNext, ServerStep, ConnectionStep, Load, RemoveSocket, Listen,
         Drained, IdleExit, Accept, AnswerPage, AnswerPid, HearExit,
         AnswerExit, Deadline, AcceptDummy, IdleExpire, Crash, Become, SetLink

\* An author touches nothing but pages.
LEMMA AuthorFrame ==
  ASSUME NEW p \in Pages, AuthorNext(p)
  PROVE  UNCHANGED <<plugin, compiles, servers, lock, pc, build, result, conns,
                     request, effects>>
  BY DEF AuthorNext, Edit, Delete

\* A worker edits no page, and leaves the other workers where they are.
LEMMA WorkerFrame ==
  ASSUME TypeOK, NEW w \in Workers, WorkerNext(w)
  PROVE  /\ UNCHANGED <<exists, edits, published>>
         /\ \A x \in Workers \ {w} : /\ pc'[x] = pc[x]
                                     /\ page'[x] = page[x]
                                     /\ build'[x] = build[x]
         /\ pc[w] # "idle" => page' = page
  BY DEF TypeOK, WorkerNext, HandlerStep, Request, Check, FastConnect,
         FastReceive, LockAcquire, LockTimeout, LockFails, Stat, KillConnect,
         KillReceive, Reap, Unlink, Compile, CompileEnd, Ping, PingReceive,
         Launch, RetryConnect, GiveUp, RetryReceive, Goto, Respond, ReleaseAndRespond,
         AbortRebuild, AfterReply, InstallPlugin, files, servers, conns,
         request, effects

\* A worker enters the critical section when it takes the free mutex, and
\* leaves it when it releases the mutex.
LEMMA LockMoves ==
  ASSUME TypeOK, NEW w \in Workers, WorkerNext(w)
  PROVE  \/ lock' = lock /\ (pc'[w] \in Critical <=> pc[w] \in Critical)
         \/ lock = None /\ lock' = w /\ pc'[w] \in Critical
         \/ pc[w] \in Critical /\ lock' = None /\ pc'[w] \notin Critical
<1> USE DEF TypeOK, Goto, Respond, ReleaseAndRespond, AbortRebuild, AfterReply,
        Critical, Rebuilding, Retrying
<1>1. CASE Request(w) \/ Check(w) \/ FastConnect(w) \/ FastReceive(w)
  BY <1>1 DEF Request, Check, FastConnect, FastReceive
<1>2. CASE LockAcquire(w) \/ LockFails(w) \/ LockTimeout(w) \/ Stat(w)
  BY <1>2 DEF LockAcquire, LockFails, LockTimeout, Stat
<1>3. CASE KillConnect(w) \/ KillReceive(w) \/ Reap(w) \/ Unlink(w)
  BY <1>3 DEF KillConnect, KillReceive, Reap, Unlink
<1>4. CASE Compile(w) \/ CompileEnd(w)
  BY <1>4 DEF Compile, CompileEnd
<1>5. CASE Ping(w) \/ PingReceive(w) \/ Launch(w)
  BY <1>5 DEF Ping, PingReceive, Launch
<1>6. CASE RetryConnect(w) \/ GiveUp(w) \/ RetryReceive(w)
  BY <1>6 DEF RetryConnect, GiveUp, RetryReceive
<1> QED
  BY <1>1, <1>2, <1>3, <1>4, <1>5, <1>6 DEF WorkerNext, HandlerStep

-----------------------------------------------------------------------------
(***************************************************************************)
(* The mutex.                                                              *)
(***************************************************************************)

\* Every step keeps the mutex with the worker in the critical section.
LEMMA LockStep == TypeOK /\ LockDiscipline /\ [Next]_vars => LockDiscipline'
<1> SUFFICES ASSUME TypeOK, LockDiscipline, [Next]_vars
             PROVE  LockDiscipline'
  OBVIOUS
<1>1. ASSUME NEW w \in Workers, WorkerNext(w) PROVE LockDiscipline'
  <2>1. \A x \in Workers \ {w} : pc'[x] = pc[x]
    BY <1>1, WorkerFrame
  <2>2. lock' = w <=> pc'[w] \in Critical
    BY <1>1, LockMoves, NoneAssumption DEF LockDiscipline
  <2>3. ASSUME NEW x \in Workers \ {w}
        PROVE  lock' = x <=> pc'[x] \in Critical
    BY <1>1, <2>1, <2>3, LockMoves, NoneAssumption DEF LockDiscipline
  <2> QED
    BY <2>2, <2>3 DEF LockDiscipline
<1>2. ASSUME NEW s \in Pids, ServerNext(s) PROVE LockDiscipline'
  BY <1>2, ServerFrame DEF LockDiscipline
<1>3. ASSUME NEW p \in Pages, AuthorNext(p) PROVE LockDiscipline'
  BY <1>3, AuthorFrame DEF LockDiscipline
<1>4. CASE UNCHANGED vars
  BY <1>4 DEF vars, LockDiscipline
<1> QED
  BY <1>1, <1>2, <1>3, <1>4 DEF Next

\* Two workers are never both inside rebuild_relaunch_retry.
LEMMA MutualExclusion ==
  ASSUME LockDiscipline, NEW w \in Workers, NEW x \in Workers,
         pc[w] \in Critical, pc[x] \in Critical
  PROVE  w = x
  BY DEF LockDiscipline

\* The mutex is held by the worker inside rebuild_relaunch_retry, and by
\* nobody else, however that function is left (mod_gosp.c:319-401).
THEOREM Mutex == Spec => []LockDiscipline
<1>1. Init => LockDiscipline
  BY NoneAssumption DEF Init, LockDiscipline, Critical, Rebuilding
<1>2. TypeOK /\ LockDiscipline /\ [Next]_vars => LockDiscipline'
  BY LockStep
<1> QED
  BY <1>1, <1>2, Typing, PTL DEF Spec

-----------------------------------------------------------------------------
(***************************************************************************)
(* Plugins and compilations.                                               *)
(***************************************************************************)

\* Only a worker that ends a compilation changes plugins, their mtimes or the
\* count of compilations.
LEMMA OnlyCompileEndInstalls ==
  ASSUME NEW w \in Workers, WorkerNext(w), ~CompileEnd(w)
  PROVE  UNCHANGED <<plugin, newer, compiles>>
  BY DEF WorkerNext, HandlerStep, Request, Check, FastConnect, FastReceive,
         LockAcquire, LockTimeout, LockFails, Stat, KillConnect, KillReceive,
         Reap, Unlink, Compile, Ping, PingReceive, Launch, RetryConnect, GiveUp,
         RetryReceive, files

\* A compilation ends with the mutex held, and either installs a plugin or
\* leaves the files alone.
LEMMA CompileEnds ==
  ASSUME TypeOK, NEW w \in Workers, CompileEnd(w)
  PROVE  /\ pc[w] = "building" /\ pc'[w] \notin Rebuilding
         /\ InstallPlugin(w) \/ UNCHANGED <<plugin, newer, compiles>>
  BY DEF TypeOK, CompileEnd, Goto, AbortRebuild, ReleaseAndRespond, Respond,
         Rebuilding

\* A worker comes to rebuild a page only when a compilation is due.
LEMMA RebuildStarts ==
  ASSUME TypeOK, NEW w \in Workers, WorkerNext(w), pc'[w] \in Rebuilding
  PROVE  /\ pc[w] \in Rebuilding \/ CompileDue(page[w])
         /\ ~CompileEnd(w) /\ page' = page
<1> USE DEF TypeOK, Rebuilding, Retrying, Goto, Respond, ReleaseAndRespond,
        AbortRebuild, AfterReply
<1>1. CASE Request(w) \/ Check(w) \/ FastConnect(w) \/ FastReceive(w)
  BY <1>1 DEF Request, Check, FastConnect, FastReceive
<1>2. CASE LockAcquire(w) \/ LockFails(w) \/ LockTimeout(w) \/ Stat(w)
  BY <1>2 DEF LockAcquire, LockTimeout, LockFails, Stat, CompileEnd, request,
              NeedsCompile, IsNewer, CompileDue
<1>3. CASE KillConnect(w) \/ KillReceive(w) \/ Reap(w) \/ Unlink(w)
  BY <1>3 DEF KillConnect, KillReceive, Reap, Unlink, CompileEnd, request
<1>4. CASE Compile(w) \/ CompileEnd(w)
  BY <1>4 DEF Compile, CompileEnd, request
<1>5. CASE Ping(w) \/ PingReceive(w) \/ Launch(w)
  BY <1>5 DEF Ping, PingReceive, Launch
<1>6. CASE RetryConnect(w) \/ GiveUp(w) \/ RetryReceive(w)
  BY <1>6 DEF RetryConnect, GiveUp, RetryReceive
<1> QED
  BY <1>1, <1>2, <1>3, <1>4, <1>5, <1>6 DEF WorkerNext, HandlerStep

\* gosp2go starts with the text that the page has at that time.
LEMMA BuildStarts ==
  ASSUME TypeOK, NEW w \in Workers, WorkerNext(w), pc'[w] = "building"
  PROVE  build'[w] = edits[page[w]]
<1> USE DEF TypeOK, Retrying, Goto, Respond, ReleaseAndRespond, AbortRebuild,
        AfterReply
<1>1. CASE Request(w) \/ Check(w) \/ FastConnect(w) \/ FastReceive(w)
  BY <1>1 DEF Request, Check, FastConnect, FastReceive
<1>2. CASE LockAcquire(w) \/ LockFails(w) \/ LockTimeout(w) \/ Stat(w)
  BY <1>2 DEF LockAcquire, LockFails, LockTimeout, Stat
<1>3. CASE KillConnect(w) \/ KillReceive(w) \/ Reap(w) \/ Unlink(w)
  BY <1>3 DEF KillConnect, KillReceive, Reap, Unlink
<1>4. CASE Compile(w) \/ CompileEnd(w)
  BY <1>4 DEF Compile, CompileEnd
<1>5. CASE Ping(w) \/ PingReceive(w) \/ Launch(w)
  BY <1>5 DEF Ping, PingReceive, Launch
<1>6. CASE RetryConnect(w) \/ GiveUp(w) \/ RetryReceive(w)
  BY <1>6 DEF RetryConnect, GiveUp, RetryReceive
<1> QED
  BY <1>1, <1>2, <1>3, <1>4, <1>5, <1>6 DEF WorkerNext, HandlerStep

\* An author may make a compilation due, but only by a new edit, and never
\* undoes that one is due.
LEMMA EditIsDue ==
  ASSUME TypeOK, NEW p \in Pages, AuthorNext(p), NEW q \in Pages
  PROVE  /\ edits'[q] \in Nat /\ edits[q] <= edits'[q]
         /\ CompileDue(q) => CompileDue(q)'
         /\ CompileDue(q)' /\ ~CompileDue(q) => edits'[q] = edits[q] + 1
<1>1. CASE Edit(p)
  <2>1. newer' = newer \/ newer' = [newer EXCEPT ![p] = TRUE]
    BY <1>1 DEF Edit
  <2>2. edits' = [edits EXCEPT ![p] = @ + 1] /\ plugin' = plugin
    BY <1>1 DEF Edit
  <2>3. p # q => newer'[q] = newer[q]
    BY <2>1 DEF TypeOK
  <2>4. newer[q] => newer'[q]
    BY <2>1 DEF TypeOK
  <2> QED
    BY <2>2, <2>3, <2>4 DEF TypeOK, CompileDue
<1>2. CASE Delete(p)
  BY <1>2 DEF Delete, TypeOK, CompileDue
<1> QED
  BY <1>1, <1>2 DEF AuthorNext

\* Nobody compiles a page behind the back of a worker that is rebuilding it.
LEMMA DueStep ==
  ASSUME IInv, [Next]_vars
  PROVE  RebuildIsDue'
<1> USE DEF IInv, RebuildIsDue
<1>1. ASSUME NEW w \in Workers, WorkerNext(w) PROVE RebuildIsDue'
  <2>1. ASSUME NEW x \in Workers, pc'[x] \in Rebuilding
        PROVE  CompileDue(page[x])'
    <3>1. CASE x = w
      BY <1>1, <2>1, <3>1, RebuildStarts, OnlyCompileEndInstalls DEF CompileDue
    <3>2. CASE x # w /\ CompileEnd(w)
      BY <1>1, <2>1, <3>2, WorkerFrame, MutualExclusion, CompileEnds
      DEF Critical, Rebuilding
    <3>3. CASE x # w /\ ~CompileEnd(w)
      BY <1>1, <2>1, <3>3, WorkerFrame, OnlyCompileEndInstalls DEF CompileDue
    <3> QED
      BY <3>1, <3>2, <3>3
  <2> QED
    BY <2>1
<1>2. ASSUME NEW s \in Pids, ServerNext(s) PROVE RebuildIsDue'
  BY <1>2, ServerFrame DEF CompileDue, files, request
<1>3. ASSUME NEW p \in Pages, AuthorNext(p) PROVE RebuildIsDue'
  <2>1. ASSUME NEW x \in Workers, pc'[x] \in Rebuilding
        PROVE  CompileDue(page[x])'
    <3>1. pc' = pc /\ page' = page /\ page[x] \in Pages
      BY <1>3, AuthorFrame DEF request, TypeOK
    <3> DEFINE q == page[x]
    <3>2. CompileDue(q)
      BY <2>1, <3>1
    <3>3. newer[q] => newer'[q]
      BY <1>3, <3>1 DEF AuthorNext, Edit, Delete, TypeOK
    <3> QED
      BY <1>3, <3>1, <3>2, <3>3, AuthorFrame DEF CompileDue
  <2> QED
    BY <2>1
<1>4. CASE UNCHANGED vars
  BY <1>4 DEF vars, CompileDue, files, request
<1> QED
  BY <1>1, <1>2, <1>3, <1>4 DEF Next

\* No step adds a compilation that was not due.
LEMMA CountStep ==
  ASSUME IInv, [Next]_vars
  PROVE  CompilesCounted'
<1> USE DEF IInv, CompilesCounted
<1>1. ASSUME NEW w \in Workers, WorkerNext(w) PROVE CompilesCounted'
  <2>1. CASE UNCHANGED <<plugin, newer, compiles>>
    BY <1>1, <2>1, WorkerFrame DEF CompileDue
  <2>2. CASE CompileEnd(w) /\ InstallPlugin(w)
    <3>1. page[w] \in Pages /\ pc[w] = "building"
      BY <2>2 DEF TypeOK, CompileEnd
    <3>2. compiles[page[w]] <= edits[page[w]] /\ build[w] # None
      BY <3>1, NoneAssumption DEF RebuildIsDue, Rebuilding, BuildsInOrder
    <3>3. edits' = edits
      BY <1>1, WorkerFrame
    <3>4. ASSUME NEW p \in Pages
          PROVE  /\ compiles'[p] <= edits'[p] + 1
                 /\ CompileDue(p)' => compiles'[p] <= edits'[p]
      <4>1. CASE p = page[w]
        <5>1. newer'[p] = FALSE /\ plugin'[p] = build[w]
          BY <2>2, <4>1 DEF InstallPlugin, TypeOK
        <5>2. compiles'[p] = compiles[p] + 1
          BY <2>2, <4>1 DEF InstallPlugin, TypeOK
        <5> QED
          BY <3>2, <3>3, <4>1, <5>1, <5>2 DEF CompileDue, TypeOK
      <4>2. CASE p # page[w]
        <5>1. newer'[p] = newer[p]
          BY <2>2, <4>2 DEF InstallPlugin, TypeOK
        <5>2. compiles'[p] = compiles[p] /\ plugin'[p] = plugin[p]
          BY <2>2, <4>2 DEF InstallPlugin, TypeOK
        <5> QED
          BY <3>3, <5>1, <5>2 DEF CompileDue
      <4> QED
        BY <4>1, <4>2
    <3> QED
      BY <3>4
  <2> QED
    BY <1>1, <2>1, <2>2, OnlyCompileEndInstalls, CompileEnds
<1>2. ASSUME NEW s \in Pids, ServerNext(s) PROVE CompilesCounted'
  BY <1>2, ServerFrame DEF CompileDue, files
<1>3. ASSUME NEW p \in Pages, AuthorNext(p) PROVE CompilesCounted'
  BY <1>3, AuthorFrame, EditIsDue DEF TypeOK
<1>4. CASE UNCHANGED vars
  BY <1>4 DEF vars, CompileDue, files
<1> QED
  BY <1>1, <1>2, <1>3, <1>4 DEF Next

\* Compilations are installed in the order of the texts they started from.
LEMMA OrderStep ==
  ASSUME IInv, [Next]_vars
  PROVE  BuildsInOrder'
<1> USE DEF IInv, BuildsInOrder
<1>1. ASSUME NEW w \in Workers, WorkerNext(w) PROVE BuildsInOrder'
  <2>1. UNCHANGED edits
    BY <1>1, WorkerFrame
  <2>2. ASSUME NEW p \in Pages, plugin'[p] # None PROVE plugin'[p] <= edits'[p]
    <3>1. CASE UNCHANGED plugin
      BY <2>1, <2>2, <3>1
    <3>2. CASE CompileEnd(w) /\ InstallPlugin(w)
      BY <2>1, <2>2, <3>2, CompileEnds DEF InstallPlugin, TypeOK
    <3> QED
      BY <1>1, <3>1, <3>2, OnlyCompileEndInstalls, CompileEnds
  <2>3. ASSUME NEW x \in Workers, pc'[x] = "building"
        PROVE  /\ build'[x] \in Nat
               /\ build'[x] <= edits'[page'[x]]
               /\ plugin'[page'[x]] # None => plugin'[page'[x]] <= build'[x]
    <3>1. ~CompileEnd(w)
      <4>1. SUFFICES ASSUME CompileEnd(w) PROVE FALSE
        OBVIOUS
      <4>2. x # w /\ pc[x] = "building" /\ pc[w] = "building"
        BY <1>1, <2>3, <4>1, CompileEnds, WorkerFrame DEF Rebuilding
      <4> QED
        BY <4>2, MutualExclusion DEF Critical, Rebuilding
    <3>2. UNCHANGED plugin
      BY <1>1, <3>1, OnlyCompileEndInstalls
    <3>3. CASE x = w
      <4>1. build'[w] = edits[page[w]] /\ page' = page
        BY <1>1, <2>3, <3>3, BuildStarts, RebuildStarts DEF Rebuilding
      <4> QED
        BY <2>1, <3>2, <3>3, <4>1 DEF TypeOK
    <3>4. CASE x # w
      BY <1>1, <2>1, <2>3, <3>2, <3>4, WorkerFrame
    <3> QED
      BY <3>3, <3>4
  <2> QED
    BY <2>2, <2>3
<1>2. ASSUME NEW s \in Pids, ServerNext(s) PROVE BuildsInOrder'
  BY <1>2, ServerFrame DEF files, request
<1>3. ASSUME NEW p \in Pages, AuthorNext(p) PROVE BuildsInOrder'
  <2>1. \A q \in Pages : edits'[q] \in Nat /\ edits[q] <= edits'[q]
    BY <1>3, EditIsDue
  <2>2. UNCHANGED <<plugin, pc, build, page>>
    BY <1>3, AuthorFrame DEF request
  <2> QED
    BY <2>1, <2>2 DEF TypeOK
<1>4. CASE UNCHANGED vars
  BY <1>4 DEF vars, files, request
<1> QED
  BY <1>1, <1>2, <1>3, <1>4 DEF Next

-----------------------------------------------------------------------------
(***************************************************************************)
(* Requests and the code of the pages.                                     *)
(***************************************************************************)

\* A process that ends leaves no connection to it unaccepted, and makes none.
LEMMA GoneUnqueues ==
  ASSUME TypeOK, NEW s \in Pids, ProcessGone(s), NEW w \in Workers
  PROVE  link'[w] = "queued" => link[w] = "queued"
  BY DEF TypeOK, ProcessGone

\* The page's code runs when a connection is accepted, and only then.
LEMMA RunsStep ==
  ASSUME TypeOK, RunsCounted, [Next]_vars
  PROVE  RunsCounted'
<1> USE DEF RunsCounted, NotYetRun
<1>1. ASSUME NEW w \in Workers, WorkerNext(w) PROVE RunsCounted'
  <2> USE DEF TypeOK, Goto, Respond, ReleaseAndRespond, AbortRebuild,
          AfterReply, AwaitsPage, Retrying, effects
  <2>1. CASE Request(w)
    BY <1>1, <2>1 DEF Request, conns
  <2>2. CASE Check(w) \/ FastConnect(w) \/ FastReceive(w)
    BY <1>1, <2>2 DEF Check, FastConnect, FastReceive, Connect, HangUp, conns
  <2>3. CASE LockAcquire(w) \/ LockFails(w) \/ LockTimeout(w) \/ Stat(w)
    BY <1>1, <2>3 DEF LockAcquire, LockFails, LockTimeout, Stat, conns
  <2>4. CASE KillConnect(w) \/ KillReceive(w) \/ Unlink(w)
    BY <1>1, <2>4 DEF KillConnect, KillReceive, Unlink, Connect, HangUp, conns
  <2>5. CASE Reap(w)
    BY <1>1, <2>5, GoneUnqueues DEF Reap, conns
  <2>6. CASE Compile(w) \/ CompileEnd(w)
    BY <1>1, <2>6 DEF Compile, CompileEnd, conns
  <2>7. CASE Ping(w) \/ PingReceive(w) \/ Launch(w)
    BY <1>1, <2>7 DEF Ping, PingReceive, Launch, Connect, HangUp, conns
  <2>8. CASE RetryConnect(w) \/ GiveUp(w) \/ RetryReceive(w)
    BY <1>1, <2>8 DEF RetryConnect, GiveUp, RetryReceive, Connect, HangUp, conns
  <2> QED
    BY <1>1, <2>1, <2>2, <2>3, <2>4, <2>5, <2>6, <2>7, <2>8
    DEF WorkerNext, HandlerStep
<1>2. ASSUME NEW s \in Pids, ServerNext(s) PROVE RunsCounted'
  <2>1. UNCHANGED pc
    BY <1>2, ServerFrame
  <2>2. CASE ProcessGone(s) /\ UNCHANGED runs
    BY <2>1, <2>2, GoneUnqueues
  <2>3. CASE UNCHANGED <<link, runs>>
    BY <2>1, <2>3
  <2>4. ASSUME NEW w \in Workers, Accept(s, w) PROVE RunsCounted'
    BY <2>1, <2>4 DEF Accept, Linked, SetLink, TypeOK, AwaitsPage
  <2>5. ASSUME NEW w \in Workers, ConnectionStep(s, w), ~Accept(s, w)
        PROVE  RunsCounted'
    BY <2>1, <2>5
    DEF ConnectionStep, AnswerPage, AnswerPid, HearExit, AnswerExit, Deadline,
        SetLink, TypeOK, conns, effects
  <2> QED
    BY <1>2, <2>2, <2>3, <2>4, <2>5
    DEF ServerNext, ServerStep, Load, RemoveSocket, Listen, Drained, IdleExit,
        AcceptDummy, IdleExpire, Crash, conns, effects
<1>3. ASSUME NEW p \in Pages, AuthorNext(p) PROVE RunsCounted'
  BY <1>3, AuthorFrame DEF conns, effects
<1>4. CASE UNCHANGED vars
  BY <1>4 DEF vars, conns, effects
<1> QED
  BY <1>1, <1>2, <1>3, <1>4 DEF Next

-----------------------------------------------------------------------------
(***************************************************************************)
(* The theorems.                                                           *)
(***************************************************************************)

\* The inductive invariant of Gosp.
THEOREM Invariance == Spec => []IInv
<1>1. Init => IInv
  <2> SUFFICES ASSUME Init PROVE IInv
    OBVIOUS
  <2>1. TypeOK
    BY InitType
  <2>2. LockDiscipline /\ RebuildIsDue
    BY NoneAssumption DEF Init, LockDiscipline, RebuildIsDue, Critical, Rebuilding
  <2>3. CompilesCounted /\ BuildsInOrder
    BY DEF Init, CompilesCounted, CompileDue, BuildsInOrder
  <2>4. RunsCounted
    BY DEF Init, RunsCounted
  <2> QED
    BY <2>1, <2>2, <2>3, <2>4 DEF IInv
<1>2. IInv /\ [Next]_vars => IInv'
  <2> SUFFICES ASSUME IInv, [Next]_vars PROVE IInv'
    OBVIOUS
  <2>1. TypeOK'
    BY TypeStep DEF IInv
  <2>2. LockDiscipline'
    BY LockStep DEF IInv
  <2>3. CompilesCounted' /\ RebuildIsDue' /\ BuildsInOrder'
    BY CountStep, DueStep, OrderStep
  <2>4. RunsCounted'
    BY RunsStep DEF IInv
  <2> QED
    BY <2>1, <2>2, <2>3, <2>4 DEF IInv
<1> QED
  BY <1>1, <1>2, PTL DEF Spec

\* A page is compiled at most once per version (mod_gosp.c:347), whoever asks
\* for it and whatever fails.
THEOREM CompilesOnce == Spec => []CompileEconomy
<1>1. IInv => CompileEconomy
  BY DEF IInv, CompilesCounted, CompileEconomy
<1> QED
  BY <1>1, Invariance, PTL

\* A request reaches the page's code at most once (comm.c:563-568).
THEOREM RunsOnce == Spec => []AtMostOnce
<1>1. IInv => AtMostOnce
  BY DEF IInv, RunsCounted, AtMostOnce
<1> QED
  BY <1>1, Invariance, PTL

\* No compilation replaces a plugin by an older one (launch.c:101).
THEOREM PluginsAdvance == Spec => NeverRollsBack
<1>1. IInv /\ [Next]_vars => NoRollback \/ UNCHANGED vars
  <2> SUFFICES ASSUME IInv, [Next]_vars, NEW p \in Pages, plugin[p] # None
               PROVE  plugin'[p] # None /\ plugin'[p] >= plugin[p]
    BY DEF NoRollback
  <2>1. plugin[p] \in Nat
    BY DEF IInv, TypeOK
  <2>2. CASE UNCHANGED plugin
    BY <2>1, <2>2
  <2>3. ASSUME NEW w \in Workers, CompileEnd(w), InstallPlugin(w)
        PROVE  plugin'[p] # None /\ plugin'[p] >= plugin[p]
    <3>1. build[w] \in Nat /\ (p = page[w] => plugin[p] <= build[w])
      BY <2>3 DEF IInv, BuildsInOrder, CompileEnd
    <3>2. plugin'[p] = IF p = page[w] THEN build[w] ELSE plugin[p]
      BY <2>3 DEF InstallPlugin, IInv, TypeOK
    <3> QED
      BY <2>1, <3>1, <3>2, NoneAssumption
  <2>4. ASSUME NEW w \in Workers, WorkerNext(w)
        PROVE  plugin'[p] # None /\ plugin'[p] >= plugin[p]
    BY <2>2, <2>3, <2>4, OnlyCompileEndInstalls, CompileEnds DEF IInv
  <2>5. ASSUME NEW s \in Pids, ServerNext(s) PROVE UNCHANGED plugin
    BY <2>5, ServerFrame DEF files
  <2>6. ASSUME NEW q \in Pages, AuthorNext(q) PROVE UNCHANGED plugin
    BY <2>6, AuthorFrame
  <2> QED
    BY <2>2, <2>4, <2>5, <2>6 DEF Next, vars, files
<1> QED
  BY <1>1, Invariance, PTL DEF Spec, NeverRollsBack
=============================================================================
