----------------------------- MODULE PageGenProofs -----------------------------
(***************************************************************************)
(* Proofs about one page request inside a gosp-server, for a channel of    *)
(* any capacity and pages that send and write as much as they like: the    *)
(* client gets the whole text or none, and none of a page that panicked.   *)
(***************************************************************************)
EXTENDS PageGen, SequenceTheorems, TLAPS

(***************************************************************************)
(* The inductive invariant, on top of TypeOK.                              *)
(***************************************************************************)

\* The last status among metadata, and metadata without any.
EndsWith(items, s) == \E i \in DOMAIN items :
                         /\ items[i] = s
                         /\ \A j \in DOMAIN items : j > i => items[j] \notin Statuses
NoneIn(items) == \A i \in DOMAIN items : items[i] \notin Statuses

\* The status that the page set last is still in the channel, behind it no
\* other, or it has reached the connection's goroutine.
StatusPasses == EndsWith(meta, last) \/ (status = last /\ NoneIn(meta))

\* The status that the goroutine goes by is the one that the module will read.
StatusIsTold == writer = "mod-gosp" => status = Okay \/ Reported(status)

\* The page's goroutine closes the channel in the end, and a page that panicked
\* not before it has set the status.
ClosedByPage == closed = (gen = "gone")
PanicFails == /\ gen = "run" => trace = 0
              /\ gen \in {"close", "gone"} /\ trace > 0 => last = Failed

\* Text is not written before the page has come to its end.
TextComesLast ==
    /\ main \in {"body", "done"} => closed /\ meta = <<>>
    /\ main # "done" => body = NoBody
    /\ main = "done" => body = IF status = Okay THEN html ELSE NoBody

PInv == /\ TypeOK
        /\ StatusPasses
        /\ StatusIsTold
        /\ ClosedByPage
        /\ PanicFails
        /\ TextComesLast

-----------------------------------------------------------------------------
Metadata == Statuses \cup Notes

\* What the last status is after one more piece of metadata.
LEMMA OneMore ==
  ASSUME NEW q \in Seq(Metadata), NEW e \in Metadata
  PROVE  /\ Append(q, e) \in Seq(Metadata)
         /\ Len(Append(q, e)) = Len(q) + 1
         /\ e \in Statuses => EndsWith(Append(q, e), e)
         /\ e \notin Statuses =>
              /\ NoneIn(q) => NoneIn(Append(q, e))
              /\ \A s : EndsWith(q, s) => EndsWith(Append(q, e), s)
<1> DEFINE r == Append(q, e)
<1>1. /\ r \in Seq(Metadata)
      /\ Len(r) = Len(q) + 1 /\ Len(q) \in Nat
      /\ DOMAIN q = 1 .. Len(q) /\ DOMAIN r = 1 .. Len(q) + 1
      /\ \A i \in 1 .. Len(q) : r[i] = q[i]
      /\ r[Len(q) + 1] = e
  OBVIOUS
<1> HIDE DEF r
<1>2. ASSUME e \in Statuses PROVE EndsWith(r, e)
  <2>1. \A j \in DOMAIN r : ~(j > Len(q) + 1)
    BY <1>1
  <2>2. Len(q) + 1 \in DOMAIN r
    BY <1>1
  <2> QED
    BY <1>1, <2>1, <2>2 DEF EndsWith
<1>3. ASSUME e \notin Statuses, NoneIn(q) PROVE NoneIn(r)
  BY <1>1, <1>3 DEF NoneIn
<1>4. ASSUME e \notin Statuses, NEW s, EndsWith(q, s) PROVE EndsWith(r, s)
  <2>1. PICK i \in DOMAIN q : q[i] = s /\ \A j \in DOMAIN q : j > i => q[j] \notin Statuses
    BY <1>4 DEF EndsWith
  <2>2. i \in DOMAIN r /\ r[i] = s
    BY <1>1, <2>1
  <2>3. ASSUME NEW j \in DOMAIN r, j > i PROVE r[j] \notin Statuses
    BY <1>1, <1>4, <2>1, <2>3
  <2> QED
    BY <2>2, <2>3 DEF EndsWith
<1> QED
  BY <1>1, <1>2, <1>3, <1>4 DEF r

\* And after the first piece of metadata was taken away.
LEMMA OneLess ==
  ASSUME NEW q \in Seq(Metadata), q # <<>>
  PROVE  /\ Tail(q) \in Seq(Metadata)
         /\ Head(q) \in Metadata
         /\ Len(Tail(q)) = Len(q) - 1
         /\ NoneIn(q) => Head(q) \notin Statuses /\ NoneIn(Tail(q))
         /\ \A s : EndsWith(q, s) =>
              EndsWith(Tail(q), s) \/ (Head(q) = s /\ NoneIn(Tail(q)))
<1> DEFINE r == Tail(q)
<1>1. /\ r \in Seq(Metadata) /\ Head(q) \in Metadata
      /\ Len(r) = Len(q) - 1 /\ Len(q) \in Nat \ {0}
      /\ DOMAIN q = 1 .. Len(q) /\ DOMAIN r = 1 .. Len(q) - 1
      /\ \A i \in 1 .. Len(q) - 1 : r[i] = q[i + 1]
      /\ Head(q) = q[1]
  OBVIOUS
<1> HIDE DEF r
<1>2. \A i \in DOMAIN r : i + 1 \in DOMAIN q /\ r[i] = q[i + 1]
  BY <1>1
<1>3. ASSUME NoneIn(q) PROVE Head(q) \notin Statuses /\ NoneIn(r)
  BY <1>1, <1>2, <1>3 DEF NoneIn
<1>4. ASSUME NEW s, EndsWith(q, s) PROVE EndsWith(r, s) \/ (Head(q) = s /\ NoneIn(r))
  <2>1. PICK i \in DOMAIN q : q[i] = s /\ \A j \in DOMAIN q : j > i => q[j] \notin Statuses
    BY <1>4 DEF EndsWith
  <2>2. CASE i = 1
    <3>1. \A j \in DOMAIN r : j + 1 > i
      BY <1>1, <2>2
    <3> QED
      BY <1>1, <1>2, <2>1, <2>2, <3>1 DEF NoneIn
  <2>3. CASE i # 1
    <3>1. i - 1 \in DOMAIN r /\ r[i - 1] = s
      BY <1>1, <2>1, <2>3
    <3>2. ASSUME NEW j \in DOMAIN r, j > i - 1 PROVE r[j] \notin Statuses
      <4>1. j + 1 > i
        BY <1>1, <2>1, <3>2
      <4> QED
        BY <1>2, <2>1, <4>1
    <3> QED
      BY <3>1, <3>2 DEF EndsWith
  <2> QED
    BY <2>2, <2>3
<1> QED
  BY <1>1, <1>3, <1>4 DEF r

-----------------------------------------------------------------------------
\* Before the page has begun nothing is in the channel.
LEMMA PInit == Init => PInv
<1> SUFFICES ASSUME Init PROVE PInv
  OBVIOUS
<1>1. /\ meta \in Seq(Metadata) /\ output \in Seq(Metadata)
      /\ Len(meta) = 0 /\ DOMAIN meta = {}
  BY DEF Init
<1>2. TypeOK
  <2>1. /\ NoBody \in 0 .. NoBody /\ Len(meta) <= Cap
        /\ 0 \in 0 .. MaxWrites /\ 0 \in 0 .. MaxSends /\ 0 \in 0 .. TraceLines
    BY <1>1, SizeAssumption DEF NoBody
  <2>2. Okay \in Statuses
    BY DEF Statuses
  <2> QED
    BY <1>1, <2>1, <2>2 DEF Init, TypeOK, Metadata
<1>3. NoneIn(meta)
  BY <1>1 DEF NoneIn
<1> QED
  BY <1>2, <1>3
  DEF Init, PInv, StatusPasses, StatusIsTold, ClosedByPage, PanicFails, TextComesLast

\* A goroutine puts metadata into the channel: the channel holds no more than
\* it can, and only a status changes which is the last.
LEMMA Sending ==
  ASSUME PInv, NEW e \in Metadata, Send(e), status' = status,
         last' = IF e \in Statuses THEN e ELSE last
  PROVE  /\ meta' \in Seq(Metadata) /\ Len(meta') <= Cap
         /\ StatusPasses'
         /\ last' \in Statuses
         /\ main \notin {"body", "done"}
<1>1. meta' = Append(meta, e) /\ Len(meta) < Cap /\ meta \in Seq(Metadata) /\ ~closed
  BY DEF Send, PInv, TypeOK, Metadata
<1>2. meta' \in Seq(Metadata) /\ Len(meta') = Len(meta) + 1
  BY <1>1, OneMore
<1>3. Len(meta') <= Cap
  BY <1>1, <1>2, SizeAssumption
<1>4. StatusPasses'
  <2>1. CASE e \in Statuses
    <3>1. EndsWith(meta', last')
      BY <1>1, <2>1, OneMore
    <3> QED
      BY <3>1 DEF StatusPasses
  <2>2. CASE e \notin Statuses
    <3>1. EndsWith(meta, last) \/ (status = last /\ NoneIn(meta))
      BY DEF PInv, StatusPasses
    <3>2. EndsWith(meta', last) \/ (status = last /\ NoneIn(meta'))
      BY <1>1, <2>2, <3>1, OneMore
    <3> QED
      BY <2>2, <3>2 DEF StatusPasses
  <2> QED
    BY <2>1, <2>2
<1> QED
  BY <1>1, <1>2, <1>3, <1>4 DEF PInv, TypeOK, TextComesLast

\* The names of the metadata that is not a status.
LEMMA NotStatus ==
  /\ {"debug", "error", "alive", "other"} \subseteq Metadata \ Statuses
  /\ Failed \in Statuses /\ Okay \in Statuses
  BY NameAssumption DEF Metadata, Statuses, Notes

\* A step of the page keeps the invariant.
LEMMA PageKeeps == PInv /\ GenStep => PInv'
<1> SUFFICES ASSUME PInv, GenStep PROVE PInv'
  OBVIOUS
<1> USE DEF PInv
<1>1. CASE SendMeta
  <2>1. PICK e \in Metadata : Send(e) /\ last' = IF e \in Statuses THEN e ELSE last
    BY <1>1 DEF SendMeta, Metadata
  <2>2. /\ meta' \in Seq(Metadata) /\ Len(meta') <= Cap /\ StatusPasses'
        /\ last' \in Statuses /\ main \notin {"body", "done"}
    BY <1>1, <2>1, Sending DEF SendMeta, mainVars
  <2>3. TypeOK'
    BY <1>1, <2>2, SizeAssumption DEF SendMeta, mainVars, TypeOK, Metadata
  <2> QED
    BY <1>1, <2>2, <2>3
    DEF SendMeta, mainVars, StatusIsTold, Reported, ClosedByPage, PanicFails, TextComesLast
<1>2. CASE Write
  <2>1. TypeOK'
    BY <1>2, SizeAssumption DEF Write, mainVars, TypeOK
  <2>2. ~closed
    BY <1>2 DEF Write, ClosedByPage
  <2> QED
    BY <1>2, <2>1, <2>2
    DEF Write, mainVars, StatusPasses, EndsWith, NoneIn, StatusIsTold, Reported,
        ClosedByPage, PanicFails, TextComesLast
<1>3. CASE Return
  BY <1>3
  DEF Return, mainVars, TypeOK, StatusPasses, EndsWith, NoneIn, StatusIsTold,
      Reported, ClosedByPage, PanicFails, TextComesLast
<1>7. CASE Panic
  BY <1>7
  DEF Panic, mainVars, TypeOK, StatusPasses, EndsWith, NoneIn, StatusIsTold,
      Reported, ClosedByPage, PanicFails, TextComesLast
<1>4. CASE ReportLine
  <2>1. /\ meta' \in Seq(Metadata) /\ Len(meta') <= Cap /\ StatusPasses'
        /\ main \notin {"body", "done"}
    BY <1>4, Sending, NotStatus DEF ReportLine, mainVars
  <2>2. TypeOK'
    BY <1>4, <2>1, SizeAssumption DEF ReportLine, mainVars, TypeOK, Metadata
  <2> QED
    BY <1>4, <2>1, <2>2
    DEF ReportLine, mainVars, StatusIsTold, Reported, ClosedByPage, PanicFails, TextComesLast
<1>5. CASE ReportStatus
  <2>1. /\ meta' \in Seq(Metadata) /\ Len(meta') <= Cap /\ StatusPasses'
        /\ last' \in Statuses /\ main \notin {"body", "done"}
    BY <1>5, Sending, NotStatus DEF ReportStatus, mainVars, Metadata
  <2>2. TypeOK'
    BY <1>5, <2>1 DEF ReportStatus, mainVars, TypeOK, Metadata
  <2> QED
    BY <1>5, <2>1, <2>2
    DEF ReportStatus, mainVars, StatusIsTold, Reported, ClosedByPage, PanicFails,
        TextComesLast
<1>6. CASE Close
  BY <1>6
  DEF Close, mainVars, TypeOK, StatusPasses, EndsWith, NoneIn, StatusIsTold, Reported,
      ClosedByPage, PanicFails, TextComesLast
<1> QED
  BY <1>1, <1>2, <1>3, <1>4, <1>5, <1>6, <1>7 DEF GenStep

\* The writer takes the next piece of metadata: a status among it is the one
\* it goes by, and one that the module will read.
LEMMA Reading == PInv /\ ReadMeta => PInv'
<1> SUFFICES ASSUME PInv, ReadMeta PROVE PInv'
  OBVIOUS
<1> USE DEF PInv
<1> DEFINE e == Head(meta)
<1>1. /\ meta \in Seq(Metadata) /\ meta # <<>> /\ meta' = Tail(meta)
      /\ output \in Seq(Metadata) /\ Len(meta) <= Cap
      /\ status' = IF e \in Statuses THEN e ELSE status
      /\ output' = IF Keeps(e) THEN Append(output, e) ELSE output
      /\ main = "read"
      /\ UNCHANGED <<writer, closed, main, header, body, gen, html, sends, trace, last>>
  BY DEF ReadMeta, TypeOK, Metadata, StatusAfter, genVars
<1>2. e \in Metadata /\ meta' \in Seq(Metadata) /\ Len(meta') = Len(meta) - 1
  BY <1>1, OneLess
<1>3. output' \in Seq(Metadata)
  BY <1>1, <1>2, OneMore
<1>4. Len(meta') <= Cap
  BY <1>1, <1>2, SizeAssumption
<1>5. status \in Statuses /\ status' \in Statuses
  BY <1>1 DEF TypeOK
<1>6. TypeOK'
  BY <1>1, <1>2, <1>3, <1>4, <1>5 DEF TypeOK, Metadata
<1>7. StatusPasses'
  <2>1. CASE EndsWith(meta, last)
    <3>1. EndsWith(meta', last) \/ (e = last /\ NoneIn(meta'))
      BY <1>1, <2>1, OneLess
    <3>2. last \in Statuses
      BY DEF TypeOK
    <3> QED
      BY <1>1, <3>1, <3>2 DEF StatusPasses
  <2>2. CASE status = last /\ NoneIn(meta)
    <3>1. e \notin Statuses /\ NoneIn(meta')
      BY <1>1, <2>2, OneLess
    <3> QED
      BY <1>1, <2>2, <3>1 DEF StatusPasses
  <2> QED
    BY <2>1, <2>2 DEF StatusPasses
<1>8. StatusIsTold'
  <2> SUFFICES ASSUME writer' = "mod-gosp", status' # Okay PROVE Reported(status)'
    BY DEF StatusIsTold
  <2>1. writer = "mod-gosp"
    BY <1>1
  <2>2. CASE e \in Statuses
    <3>1. Keeps(e)
      BY <2>1, <2>2, NotStatus DEF Keeps
    <3>2. EndsWith(output', status')
      BY <1>1, <1>2, <2>2, <3>1, OneMore
    <3> QED
      BY <3>2 DEF EndsWith, Reported
  <2>3. CASE e \notin Statuses
    <3>1. status' = status /\ EndsWith(output, status)
      BY <1>1, <2>1, <2>3 DEF StatusIsTold, Reported, EndsWith
    <3>2. EndsWith(output', status')
      BY <1>1, <1>2, <2>3, <3>1, OneMore
    <3> QED
      BY <3>2 DEF EndsWith, Reported
  <2> QED
    BY <2>2, <2>3
<1> QED
  BY <1>1, <1>6, <1>7, <1>8 DEF ClosedByPage, PanicFails, TextComesLast

\* A step of the connection's goroutine keeps the invariant.
LEMMA ConnectionKeeps == PInv /\ MainStep => PInv'
<1> SUFFICES ASSUME PInv, MainStep PROVE PInv'
  OBVIOUS
<1> USE DEF PInv
<1>1. CASE SendDebug
  <2>1. /\ meta' \in Seq(Metadata) /\ Len(meta') <= Cap /\ StatusPasses'
    BY <1>1, Sending, NotStatus DEF SendDebug, genVars
  <2>2. TypeOK'
    BY <1>1, <2>1 DEF SendDebug, genVars, TypeOK, Metadata
  <2> QED
    BY <1>1, <2>1, <2>2
    DEF SendDebug, genVars, StatusIsTold, Reported, ClosedByPage, PanicFails, TextComesLast
<1>2. CASE DebugPanics
  BY <1>2
  DEF DebugPanics, genVars, TypeOK, StatusPasses, EndsWith, NoneIn, StatusIsTold, Reported,
      ClosedByPage, PanicFails, TextComesLast
<1>3. CASE ReadMeta
  BY <1>3, Reading
<1>4. CASE ReadEnd
  BY <1>4
  DEF ReadEnd, LoopEnds, genVars, TypeOK, StatusPasses, EndsWith, NoneIn, StatusIsTold,
      Reported, ClosedByPage, PanicFails, TextComesLast
<1>5. CASE WriteBody
  <2>1. html \in 0 .. MaxWrites /\ html \in 0 .. NoBody
    BY SizeAssumption DEF TypeOK, NoBody
  <2>2. TypeOK'
    BY <1>5, <2>1 DEF WriteBody, genVars, TypeOK
  <2> QED
    BY <1>5, <2>2
    DEF WriteBody, SendsText, genVars, StatusPasses, EndsWith, NoneIn, StatusIsTold,
        Reported, ClosedByPage, PanicFails, TextComesLast
<1> QED
  BY <1>1, <1>2, <1>3, <1>4, <1>5 DEF MainStep

\* So does the death of the process, whoever causes it.
LEMMA CrashKeeps ==
  ASSUME PInv, main \in {"debug", "read", "body"}, main' = "crashed",
         UNCHANGED <<writer, meta, closed, status, output, header, body, genVars>>
  PROVE  PInv'
  BY DEF PInv, genVars, TypeOK, StatusPasses, EndsWith, NoneIn, StatusIsTold,
     Reported, 
         ClosedByPage, PanicFails, TextComesLast

\* And nothing happens where nothing changes.
LEMMA StillKeeps == PInv /\ UNCHANGED vars => PInv'
  BY DEF PInv, vars, mainVars, genVars, TypeOK, StatusPasses, EndsWith, NoneIn,
         StatusIsTold, Reported, ClosedByPage, PanicFails, TextComesLast

-----------------------------------------------------------------------------
\* What follows from the invariant for whoever reads the answer.
LEMMA PageImplies == PInv => WholePageOrNone /\ PanicHidesPage
<1> SUFFICES ASSUME PInv, main = "done"
             PROVE  /\ closed
                    /\ last = Okay => body = html
                    /\ last # Okay => body = NoBody
                    /\ trace > 0 => /\ body = NoBody
                                    /\ writer = "mod-gosp" => Reported(Failed)
  BY DEF WholePageOrNone, PanicHidesPage
<1>1. closed /\ meta = <<>> /\ body = IF status = Okay THEN html ELSE NoBody
  BY DEF PInv, TextComesLast
<1>2. DOMAIN meta = {}
  BY <1>1
<1>3. status = last
  BY <1>2 DEF PInv, StatusPasses, EndsWith
<1>4. trace > 0 => last = Failed
  BY <1>1 DEF PInv, ClosedByPage, PanicFails
<1> QED
  BY <1>1, <1>3, <1>4, NameAssumption DEF PInv, StatusIsTold

\* The invariant holds of a page request by itself.
THEOREM Generating == Spec => []PInv
<1>1. PInv /\ [Next]_vars => PInv'
  BY PageKeeps, ConnectionKeeps, StillKeeps DEF Next, Finished
<1> QED
  BY PInit, <1>1, PTL DEF Spec

\* The channel never holds more than its capacity, and every variable has its
\* type (serve.go:36).
THEOREM PageTypes == Spec => []TypeOK
<1>1. PInv => TypeOK
  BY DEF PInv
<1> QED
  BY <1>1, Generating, PTL

\* The client gets the whole text of the page or none of it, by the status the
\* page set last (serve.go:45-51).
THEOREM WholeOrNone == Spec => []WholePageOrNone
  BY Generating, PageImplies, PTL

\* A page that panics is answered 500 and without text, whatever it had set and
\* written before (boilerplate.go:19-25, gosp.go:87-99).
THEOREM PanicIsHidden == Spec => []PanicHidesPage
  BY Generating, PageImplies, PTL
=============================================================================
