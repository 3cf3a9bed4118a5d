----------------------------- MODULE ExchangeProofs ----------------------------
(***************************************************************************)
(* Proofs about a page request over the socket, for any metadata and text  *)
(* of the page and whatever happens to the server and the connection: what *)
(* PageGenProofs shows of the page holds of the whole exchange, no text is *)
(* shown that the page had not meant for the client, and the page gets the *)
(* parameters of the request, however many there are.                      *)
(***************************************************************************)
EXTENDS Exchange, PageGenProofs, FiniteSetTheorems

\* The answer that the loop of process_response starts from, and the fold that
\* the loop is.
Start == [Refused EXCEPT !.status = Okay]
Lines == INSTANCE Folding WITH Base <- Start, Step <- Take

\* The folds of a request: a table of the query, the text of a table, and the map
\* that the text is read into.
Getting  == INSTANCE Folding WITH Base <- <<>>, Step <- TableSet
Writing  == INSTANCE Folding WITH Base <- <<>>, Step <- SendItem
Decoding == INSTANCE Folding WITH Base <- << >>, Step <- ReadMember

(***************************************************************************)
(* The inductive invariant, on top of that of the page.                    *)
(***************************************************************************)

\* Text n that leaves the server is text of a page that has come to its end and
\* whose last status is 200.
Meant(n) == n # NoBody => closed /\ last = Okay /\ n <= html

\* What of the answer got through.
Parts == [lines : Seq(Metadata), part : Metadata \cup {"end", Absent},
          header : BOOLEAN, body : 0 .. NoBody]
CutIsMeant == cut # Absent => cut \in Parts /\ Meant(cut.body)

\* The module shows text with status 200 only.
AnswerIsMeant ==
    stage = "answered" /\ answer.text # NoBody =>
      Meant(answer.text) /\ answer.status = Okay

XInv == PInv /\ CutIsMeant /\ AnswerIsMeant

\* The module reads what the page's goroutine writes to the end, if nothing
\* comes between.
ReadToTheEnd ==
    /\ stage # "alone" => writer = "mod-gosp"
    /\ main \in {"body", "done"} /\ writer # "none" => header
    /\ mishap = "none" => cut = Absent
    /\ stage = "answered" /\ mishap = "none" =>
         \/ main = "crashed"
         \/ main = "done" /\ answer = ProcessResponse(SoFar)

\* What the module makes of the lines written and to be written is what it would
\* make of all that the page has sent: what the goroutine adds and what its
\* writer drops is of no effect.
Refuses(lines) == \E i \in DOMAIN lines : Rejected(lines[i])
SaidIsTold ==
    writer = "mod-gosp" =>
      /\ ReadLines(output \o meta) = ReadLines(said)
      /\ Refuses(output \o meta) <=> Refuses(said)

\* And that is what the page asked for.
Asks(lines, i, kind) == lines[i] \in Fields /\ Kind[lines[i]] = kind
AskedFor(lines) ==
    { i \in DOMAIN lines :
        /\ Asks(lines, i, "set") \/ Asks(lines, i, "add")
        /\ \A j \in DOMAIN lines : Asks(lines, j, "set") => j <= i }
FieldsFit(lines, fields) ==
    LET asked == AskedFor(lines)
    IN  /\ Len(fields) = Cardinality(asked)
        /\ \A i \in asked : fields[Cardinality({ j \in asked : j <= i })] = lines[i]
MimeFits(lines, mime) ==
    IF \E i \in DOMAIN lines : Asks(lines, i, "mime")
    THEN \E i \in DOMAIN lines :
           /\ Asks(lines, i, "mime") /\ lines[i] = mime
           /\ \A j \in DOMAIN lines : Asks(lines, j, "mime") => j <= i
    ELSE mime = Absent
SaidIsMeant ==
    LET ans == ReadLines(said)
    IN  ~Refuses(said) => /\ ans.status = last
                          /\ FieldsFit(said, ans.fields)
                          /\ MimeFits(said, ans.mime)

MInv == XInv /\ ExchangeTypeOK /\ ReadToTheEnd /\ SaidIsTold /\ SaidIsMeant

-----------------------------------------------------------------------------
\* The module makes no text of its own.
LEMMA ProcessedIsMeant ==
  ASSUME NEW got, Meant(got.body), ProcessResponse(got).text # NoBody
  PROVE  /\ Meant(ProcessResponse(got).text)
         /\ ProcessResponse(got).status = Okay
<1> DEFINE ans == ReadLines(got.lines)
<1> DEFINE bad == \E i \in DOMAIN got.lines : Rejected(got.lines[i])
<1>1. ProcessResponse(got) =
        IF bad THEN Refused
        ELSE [status |-> ans.status, fields |-> ans.fields, mime |-> ans.mime,
              text |-> IF PassesText(got, ans) THEN got.body ELSE NoBody]
  BY DEF ProcessResponse
<1> HIDE DEF ans, bad
<1>2. ~bad
  BY <1>1 DEF Refused
<1>3. PassesText(got, ans)
  BY <1>1, <1>2
<1>4. ans.status = Okay
  BY <1>3 DEF PassesText
<1> QED
  BY <1>1, <1>2, <1>3, <1>4

\* Nor does it of an answer of which only a part got through.
LEMMA OutcomeIsMeant ==
  ASSUME NEW got \in Parts, Meant(got.body), NEW ans \in Outcomes(got), ans.text # NoBody
  PROVE  Meant(ans.text) /\ ans.status = Okay
<1>1. /\ Refused.text = NoBody
      /\ [got EXCEPT !.lines = Append(@, got.part)].body = got.body
  BY DEF Refused, Parts
<1>2. \/ ans = Refused
      \/ ans = ProcessResponse(got)
      \/ ans = ProcessResponse([got EXCEPT !.lines = Append(@, got.part)])
  BY DEF Outcomes
<1> QED
  BY <1>1, <1>2, ProcessedIsMeant

\* What the server has written when it is cut off is meant for the client.
LEMMA CutOffIsMeant ==
  ASSUME PInv, main \in {"debug", "read", "body", "done", "crashed"}
  PROVE  /\ SoFar \in Parts /\ Meant(SoFar.body)
         /\ \A c \in CutOff : c \in Parts /\ Meant(c.body)
<1>1. /\ output \in Seq(Metadata) /\ meta \in Seq(Metadata) /\ header \in BOOLEAN
      /\ body \in 0 .. NoBody
      /\ html \in 0 .. MaxWrites /\ MaxWrites \in Nat
  BY SizeAssumption DEF PInv, TypeOK, Metadata
<1>2. SoFar \in Parts
  BY <1>1 DEF SoFar, Parts
<1>3. ASSUME main \in {"body", "done"}, status = Okay PROVE closed /\ last = Okay
  <2>1. closed /\ meta = <<>>
    BY <1>3 DEF PInv, TextComesLast
  <2>2. DOMAIN meta = {}
    BY <2>1
  <2> QED
    BY <1>3, <2>1, <2>2 DEF PInv, StatusPasses, EndsWith
<1>4. Meant(SoFar.body)
  <2>1. SoFar.body = body
    BY DEF SoFar
  <2>2. ASSUME body # NoBody PROVE closed /\ last = Okay /\ body <= html
    <3>1. main = "done" /\ status = Okay /\ body = html
      BY <2>2 DEF PInv, TextComesLast
    <3> QED
      BY <1>1, <1>3, <3>1
  <2> QED
    BY <2>1, <2>2 DEF Meant
<1>5. ASSUME NEW c \in CutOff PROVE c \in Parts /\ Meant(c.body)
  <2>1. CASE c = SoFar
    BY <1>2, <1>4, <2>1
  <2>2. CASE \E line \in InHand : c = [SoFar EXCEPT !.part = line]
    <3>1. PICK line \in InHand : c = [SoFar EXCEPT !.part = line]
      BY <2>2
    <3>2. line \in Metadata \cup {"end"}
      BY <1>1, OneLess DEF InHand
    <3>3. c \in Parts /\ c.body = SoFar.body
      BY <1>2, <3>1, <3>2 DEF Parts
    <3> QED
      BY <1>4, <3>3
  <2>3. CASE /\ main = "body" /\ SendsText
             /\ \E n \in 0 .. html : c = [SoFar EXCEPT !.body = n]
    <3>1. PICK n \in 0 .. html : c = [SoFar EXCEPT !.body = n]
      BY <2>3
    <3>2. n \in 0 .. NoBody /\ n <= html
      BY <1>1, <3>1 DEF NoBody
    <3>3. c \in Parts /\ c.body = n
      BY <1>2, <3>1, <3>2 DEF Parts
    <3>4. closed /\ last = Okay
      BY <1>3, <2>3 DEF SendsText
    <3> QED
      BY <3>2, <3>3, <3>4 DEF Meant
  <2> QED
    BY <2>1, <2>2, <2>3 DEF CutOff
<1> QED
  BY <1>2, <1>4, <1>5

-----------------------------------------------------------------------------
\* Before the request is written there is nothing to be shown.
LEMMA XInit == ExchangeInit => XInv
  BY PInit DEF ExchangeInit, XInv, CutIsMeant, AnswerIsMeant

\* A page that has come to its end changes nothing that its text depends on.
LEMMA MeantStays ==
  ASSUME PInv, closed => UNCHANGED <<closed, html, last>>
  PROVE  \A n : Meant(n) => Meant(n)'
  BY DEF Meant

\* A page that has closed its channel takes no further step.
LEMMA GenStays == PInv /\ closed => ~GenStep
  BY DEF PInv, ClosedByPage, GenStep, SendMeta, Write, Return, Panic, ReportLine,
         ReportStatus, Close

\* The goroutine of the connection leaves to the page what is the page's.
LEMMA ConnectionStays == MainStep => UNCHANGED <<closed, html, last>>
  BY DEF MainStep, SendDebug, DebugPanics, ReadMeta, ReadEnd, WriteBody, genVars

\* The invariant outlives every step that leaves the module as it is.
LEMMA SameAnswer ==
  ASSUME XInv, closed => UNCHANGED <<closed, html, last>>,
         stage' = "answered" => stage = "answered", answer' = answer, cut' = cut
  PROVE  CutIsMeant' /\ AnswerIsMeant'
<1>1. \A n : Meant(n) => Meant(n)'
  BY MeantStays DEF XInv
<1> QED
  BY <1>1 DEF XInv, CutIsMeant, AnswerIsMeant, Parts

\* The module gives up: there is no text.
LEMMA FailKeeps == ASSUME XInv, NEW why, Fail(why) PROVE XInv'
<1>1. PInv'
  BY StillKeeps DEF Fail, XInv
<1>2. UNCHANGED <<closed, html, last, cut>>
  BY DEF Fail, vars, genVars
<1>3. answer'.text = NoBody
  BY DEF Fail, Refused
<1> QED
  BY <1>1, <1>2, <1>3, MeantStays DEF XInv, CutIsMeant, AnswerIsMeant

\* The module makes an answer of what got through to it.
LEMMA AnswerKeeps == XInv /\ Answer => XInv'
<1> SUFFICES ASSUME XInv, Answer PROVE XInv'
  OBVIOUS
<1> DEFINE got == IF cut = Absent THEN SoFar ELSE cut
<1>1. got \in Parts /\ Meant(got.body)
  BY CutOffIsMeant DEF Answer, XInv, CutIsMeant
<1>2. answer' \in Outcomes(got) /\ UNCHANGED <<vars, cut>>
  BY DEF Answer
<1> HIDE DEF got
<1>3. answer'.text # NoBody => Meant(answer'.text) /\ answer'.status = Okay
  BY <1>1, <1>2, OutcomeIsMeant
<1>4. PInv' /\ UNCHANGED <<closed, html, last>>
  BY <1>2, StillKeeps DEF XInv, vars, genVars
<1>5. \A n : Meant(n) => Meant(n)'
  BY <1>4, MeantStays DEF XInv
<1> QED
  BY <1>2, <1>3, <1>4, <1>5 DEF XInv, CutIsMeant, AnswerIsMeant

\* Also where the server had not read the request.
LEMMA UnreadKeeps == XInv /\ AnswerUnread => XInv'
<1> SUFFICES ASSUME XInv, AnswerUnread PROVE XInv'
  OBVIOUS
<1>1. CASE Fail("unread")
  BY <1>1, FailKeeps
<1>2. CASE answer' = ProcessResponse(SoFar) /\ UNCHANGED <<vars, cut, said>>
  <2>1. Meant(SoFar.body)
    BY CutOffIsMeant DEF XInv, PInv, TypeOK
  <2>2. answer'.text # NoBody => Meant(answer'.text) /\ answer'.status = Okay
    BY <1>2, <2>1, ProcessedIsMeant
  <2>3. PInv' /\ UNCHANGED <<closed, html, last>>
    BY <1>2, StillKeeps DEF XInv, vars, genVars
  <2>4. \A n : Meant(n) => Meant(n)'
    BY <2>3, MeantStays DEF XInv
  <2> QED
    BY <1>2, <2>2, <2>3, <2>4 DEF XInv, CutIsMeant, AnswerIsMeant
<1> QED
  BY <1>1, <1>2 DEF AnswerUnread

\* The server, or the connection, is cut off.
LEMMA CutKeeps ==
  ASSUME XInv, PInv', UNCHANGED <<closed, html, last>>,
         main \in {"debug", "read", "body", "done", "crashed"},
         cut' = cut \/ cut' \in CutOff,
         stage' = "answered" => stage = "answered", answer' = answer
  PROVE  XInv'
<1>1. \A n : Meant(n) => Meant(n)'
  BY MeantStays DEF XInv
<1>2. \A c \in CutOff : c \in Parts /\ Meant(c.body)
  BY CutOffIsMeant DEF XInv
<1> QED
  BY <1>1, <1>2 DEF XInv, CutIsMeant, AnswerIsMeant

\* Every step of the module, the server and the page keeps the invariant.
LEMMA XStep == XInv /\ [ExchangeNext]_exchangeVars => XInv'
<1> SUFFICES ASSUME XInv, [ExchangeNext]_exchangeVars PROVE XInv'
  OBVIOUS
<1>1. CASE SendRequest \/ Decode \/ StartPage \/ UNCHANGED exchangeVars
  <2>1. /\ UNCHANGED vars /\ answer' = answer /\ cut' = cut
        /\ stage' = "answered" => stage = "answered"
    BY <1>1 DEF SendRequest, Decode, StartPage, exchangeVars, wireVars
  <2>2. PInv' /\ UNCHANGED <<closed, html, last>>
    BY <2>1, StillKeeps DEF XInv, vars, genVars
  <2> QED
    BY <2>1, <2>2, SameAnswer DEF XInv
<1>2. CASE SendFails \/ TimeUp
  BY <1>2, FailKeeps DEF SendFails, TimeUp
<1>3. CASE Answer
  BY <1>3, AnswerKeeps
<1>4. CASE AnswerUnread
  BY <1>4, UnreadKeeps
<1>5. CASE Connection
  <2>1. MainStep /\ UNCHANGED <<stage, cut, answer>>
    BY <1>5 DEF Connection, wireVars
  <2>2. PInv' /\ UNCHANGED <<closed, html, last>>
    BY <2>1, ConnectionKeeps, ConnectionStays DEF XInv
  <2> QED
    BY <2>1, <2>2, SameAnswer DEF XInv
<1>6. CASE Page
  <2>1. GenStep /\ UNCHANGED <<stage, cut, answer>>
    BY <1>6 DEF Page
  <2>2. PInv' /\ ~closed
    BY <2>1, PageKeeps, GenStays DEF XInv
  <2> QED
    BY <2>1, <2>2, SameAnswer DEF XInv
<1>7. CASE Kill
  <2>1. /\ main \in {"debug", "read", "body"} /\ main' = "crashed"
        /\ UNCHANGED <<writer, meta, closed, status, output, header, body, genVars>>
        /\ stage' # "answered" /\ answer' = answer
        /\ cut' \in CutOff \/ cut' = cut
    BY <1>7 DEF Kill
  <2>2. PInv' /\ UNCHANGED <<closed, html, last>>
    BY <2>1, CrashKeeps DEF XInv, genVars
  <2> QED
    BY <2>1, <2>2, CutKeeps
<1>8. CASE Deadline
  <2>1. /\ main \in {"debug", "read", "body"} /\ cut' \in CutOff
        /\ UNCHANGED <<vars, stage, answer>>
    BY <1>8 DEF Deadline
  <2>2. PInv' /\ UNCHANGED <<closed, html, last>>
    BY <2>1, StillKeeps DEF XInv, vars, genVars
  <2> QED
    BY <2>1, <2>2, CutKeeps
<1>9. CASE AllOver
  BY <1>1, <1>9 DEF AllOver
<1> QED
  BY <1>1, <1>2, <1>3, <1>4, <1>5, <1>6, <1>7, <1>8, <1>9
  DEF ExchangeNext, ModuleStep, ServerStep

-----------------------------------------------------------------------------
(***************************************************************************)
(* What the loop of process_response makes of the lines, and the types.    *)
(***************************************************************************)
Collected == [status : Statuses, fields : Seq(Fields), mime : Fields \cup {Absent},
              text : {NoBody}]

\* ReadLines takes one line after the other.
LEMMA ReadLinesFolds ==
  /\ ReadLines(<<>>) = Start
  /\ \A lines \in Seq(Metadata), e \in Metadata :
       ReadLines(Append(lines, e)) = Take(ReadLines(lines), e)
  /\ \A p, q, lines \in Seq(Metadata) :
       ReadLines(p) = ReadLines(q) => ReadLines(p \o lines) = ReadLines(q \o lines)
<1>1. \A lines : ReadLines(lines) = Lines!Fold(lines)
  BY DEF ReadLines, Start, Lines!Fold, FoldLeft, MapThenFoldSet, Max,
         Lines!FoldLeft, Lines!MapThenFoldSet, Lines!Max
<1>2. ReadLines(<<>>) = Start
  BY <1>1, Lines!FoldEmpty
<1>3. ASSUME NEW lines \in Seq(Metadata), NEW e \in Metadata
      PROVE  ReadLines(Append(lines, e)) = Take(ReadLines(lines), e)
  BY <1>1, Lines!FoldAppend
<1>4. ASSUME NEW p \in Seq(Metadata), NEW q \in Seq(Metadata), NEW lines \in Seq(Metadata),
             ReadLines(p) = ReadLines(q)
      PROVE  ReadLines(p \o lines) = ReadLines(q \o lines)
  BY <1>1, <1>4, Lines!FoldContinues
<1> QED
  BY <1>2, <1>3, <1>4

\* One turn of the loop, on an answer so far.
LEMMA TakeTypes ==
  ASSUME NEW ans \in Collected, NEW e \in Metadata
  PROVE  Take(ans, e) \in Collected
<1>1. Statuses \cap Fields = {}
  BY NameAssumption DEF Notes
<1>2. AssignField(ans.fields, e) \in Seq(Fields) \/ e \notin Fields
  BY DEF AssignField, Collected
<1> QED
  BY <1>1, <1>2 DEF Take, Collected

\* Whatever lines the module reads, it collects a status, fields, and a MIME type.
LEMMA ReadLinesTypes ==
  ASSUME NEW lines \in Seq(Metadata)
  PROVE  ReadLines(lines) \in Collected
<1>1. \A list : ReadLines(list) = Lines!Fold(list)
  BY DEF ReadLines, Start, Lines!Fold, FoldLeft, MapThenFoldSet, Max,
         Lines!FoldLeft, Lines!MapThenFoldSet, Lines!Max
<1>2. Start \in Collected
  <2>1. Start = [status |-> Okay, fields |-> <<>>, mime |-> Absent, text |-> NoBody]
    BY DEF Start, Refused
  <2>2. <<>> \in Seq(Fields) /\ Okay \in Statuses
    BY DEF Statuses
  <2> QED
    BY <2>1, <2>2 DEF Collected
<1>3. \A ans \in Collected, e \in Metadata : Take(ans, e) \in Collected
  BY TakeTypes
<1> QED
  BY <1>1, <1>2, <1>3, Lines!FoldPreserves

\* What process_response makes of any lines and text is an answer.
LEMMA ProcessTypes ==
  ASSUME NEW got, got.lines \in Seq(Metadata), got.body \in 0 .. NoBody
  PROVE  ProcessResponse(got) \in Answers
<1> DEFINE ans == ReadLines(got.lines)
<1> DEFINE bad == \E i \in DOMAIN got.lines : Rejected(got.lines[i])
<1>1. ProcessResponse(got) =
        IF bad THEN Refused
        ELSE [status |-> ans.status, fields |-> ans.fields, mime |-> ans.mime,
              text |-> IF PassesText(got, ans) THEN got.body ELSE NoBody]
  BY DEF ProcessResponse
<1>2. ans \in Collected
  BY ReadLinesTypes
<1> HIDE DEF ans, bad
<1>3. NoBody \in 0 .. NoBody
  BY SizeAssumption DEF NoBody
<1>4. Refused \in Answers
  BY <1>3 DEF Refused, Answers, Statuses
<1> QED
  BY <1>1, <1>2, <1>3, <1>4 DEF Answers, Collected

\* So is whatever it can make of an answer that was cut off.
LEMMA OutcomeTypes ==
  ASSUME NEW got \in Parts, NEW ans \in Outcomes(got)
  PROVE  ans \in Answers
<1>1. Refused \in Answers
  <2>1. NoBody \in 0 .. NoBody
    BY SizeAssumption DEF NoBody
  <2> QED
    BY <2>1 DEF Refused, Answers, Statuses
<1>2. got.lines \in Seq(Metadata) /\ got.body \in 0 .. NoBody
  BY DEF Parts
<1>3. CASE ans = Refused
  BY <1>1, <1>3
<1>4. CASE ans = ProcessResponse(got)
  BY <1>2, <1>4, ProcessTypes
<1>5. CASE /\ got.part \in Metadata
           /\ ans = ProcessResponse([got EXCEPT !.lines = Append(@, got.part)])
  <2> DEFINE more == [got EXCEPT !.lines = Append(@, got.part)]
  <2>1. more.lines = Append(got.lines, got.part) /\ more.body = got.body
    BY DEF Parts
  <2>2. more.lines \in Seq(Metadata)
    BY <1>2, <1>5, <2>1
  <2> HIDE DEF more
  <2>3. ProcessResponse(more) \in Answers
    BY <1>2, <2>1, <2>2, ProcessTypes
  <2> QED
    BY <1>5, <2>3 DEF more
<1> QED
  BY <1>3, <1>4, <1>5 DEF Outcomes, Parts

\* Giving up is an answer.
LEMMA RefusedTypes == Refused \in Answers /\ Refused # Absent
<1>1. NoBody \in 0 .. NoBody
  BY SizeAssumption DEF NoBody
<1>2. Refused \in Answers
  BY <1>1 DEF Refused, Answers, Statuses
<1> QED
  BY <1>2, AbsentAssumption

\* Every variable keeps its type, and there is an answer when the module has come
\* to its end and not before.
LEMMA TypesInit == ExchangeInit => ExchangeTypeOK
<1> SUFFICES ASSUME ExchangeInit PROVE ExchangeTypeOK
  OBVIOUS
<1>1. TypeOK /\ said \in Seq(Statuses \cup Notes)
  BY PInit DEF PInv, ExchangeInit
<1>2. request = Nothing \/ request \in Requests
  BY DEF ExchangeInit
<1> HIDE DEF Nothing, Requests
<1> QED
  BY <1>1, <1>2 DEF ExchangeInit, ExchangeTypeOK

\* What the steps of the two processes have to show for that, beside the answer.
LEMMA TypesFrame ==
  ASSUME ExchangeTypeOK, XInv',
         stage' \in {"send", "sent", "decoded", "unread", "page", "answered", "alone"},
         request' \in {request, Nothing},
         mishap' \in {mishap, "unsent", "unread", "killed", "late", "timeup"},
         said' \in Seq(Statuses \cup Notes)
  PROVE  /\ (stage' = "answered" /\ answer' \in Answers) => ExchangeTypeOK'
         /\ (stage' = stage \/ (stage # "answered" /\ stage' # "answered"))
              /\ answer' = answer => ExchangeTypeOK'
<1>1. /\ TypeOK'
      /\ cut' # Absent =>
           cut'.lines \in Seq(Statuses \cup Notes) /\ cut'.body \in 0 .. NoBody
  BY DEF XInv, PInv, CutIsMeant, Parts, Metadata
<1>2. request' = Nothing \/ request' \in Requests
  BY DEF ExchangeTypeOK
<1>3. mishap' \in {"none", "unsent", "unread", "killed", "late", "timeup"}
  BY DEF ExchangeTypeOK
<1>4. ASSUME stage' = "answered", answer' \in Answers PROVE ExchangeTypeOK'
  BY <1>1, <1>2, <1>3, <1>4, AbsentAssumption DEF ExchangeTypeOK, Nothing, Requests
<1>5. ASSUME stage' = stage \/ (stage # "answered" /\ stage' # "answered"),
             answer' = answer
      PROVE  ExchangeTypeOK'
  BY <1>1, <1>2, <1>3, <1>5 DEF ExchangeTypeOK, Nothing, Requests
<1> QED
  BY <1>4, <1>5

\* A request that fails keeps the types.
LEMMA FailTypes ==
  ASSUME ExchangeTypeOK, XInv', NEW why \in {"unsent", "unread", "timeup"}, Fail(why)
  PROVE  ExchangeTypeOK'
<1>1. /\ stage' = "answered" /\ answer' = Refused /\ mishap' = why /\ request' = Nothing
      /\ said' = said
  BY DEF Fail
<1>2. said' \in Seq(Statuses \cup Notes)
  BY <1>1 DEF ExchangeTypeOK
<1> QED
  BY <1>1, <1>2, RefusedTypes, TypesFrame

\* Every step of the exchange keeps the types.
LEMMA TypesStep ==
  ASSUME ExchangeTypeOK, XInv, XInv', [ExchangeNext]_exchangeVars
  PROVE  ExchangeTypeOK'
<1>0. said \in Seq(Statuses \cup Notes)
  BY DEF ExchangeTypeOK
<1>1. CASE SendRequest \/ Decode \/ StartPage
  <2>1. /\ stage' \in {"sent", "decoded", "unread", "page"} /\ stage # "answered"
        /\ request' \in {request, Nothing} /\ mishap' = mishap /\ said' = said
        /\ answer' = answer
    BY <1>1 DEF SendRequest, Decode, StartPage
  <2> QED
    BY <1>0, <2>1, TypesFrame
<1>2. CASE SendFails
  BY <1>2, FailTypes DEF SendFails
<1>3. CASE TimeUp
  BY <1>3, FailTypes DEF TimeUp
<1>4. CASE Answer
  <2> DEFINE got == IF cut = Absent THEN SoFar ELSE cut
  <2>1. /\ stage' = "answered" /\ answer' \in Outcomes(got)
        /\ UNCHANGED <<request, mishap, said>>
    BY <1>4 DEF Answer
  <2>2. got \in Parts
    BY <1>4, CutOffIsMeant DEF Answer, XInv, CutIsMeant
  <2> HIDE DEF got
  <2>3. answer' \in Answers
    BY <2>1, <2>2, OutcomeTypes
  <2> QED
    BY <1>0, <2>1, <2>3, TypesFrame
<1>5. CASE AnswerUnread
  <2>1. CASE Fail("unread")
    BY <2>1, FailTypes
  <2>2. CASE /\ stage' = "answered" /\ answer' = ProcessResponse(SoFar)
             /\ mishap' = "unread" /\ request' = Nothing /\ UNCHANGED <<vars, cut, said>>
    <3>1. SoFar \in Parts
      BY CutOffIsMeant DEF XInv, PInv, TypeOK
    <3>2. answer' \in Answers
      BY <2>2, <3>1, ProcessTypes DEF Parts
    <3> QED
      BY <1>0, <2>2, <3>2, TypesFrame
  <2> QED
    BY <1>5, <2>1, <2>2 DEF AnswerUnread
<1>6. CASE Connection \/ AllOver \/ UNCHANGED exchangeVars
  <2>1. UNCHANGED <<stage, request, mishap, said, answer>>
    BY <1>6 DEF Connection, AllOver, exchangeVars, wireVars
  <2>2. stage' \in {"send", "sent", "decoded", "unread", "page", "answered", "alone"}
    BY <2>1 DEF ExchangeTypeOK
  <2> QED
    BY <1>0, <2>1, <2>2, TypesFrame
<1>7. CASE Page
  <2>1. /\ UNCHANGED <<stage, request, mishap, answer>>
        /\ said' = IF Len(meta') > Len(meta) THEN Append(said, meta'[Len(meta')]) ELSE said
    BY <1>7 DEF Page
  <2>2. meta \in Seq(Statuses \cup Notes) /\ meta' \in Seq(Statuses \cup Notes)
    BY DEF XInv, PInv, TypeOK
  <2>3. Len(meta') > Len(meta) => meta'[Len(meta')] \in Statuses \cup Notes
    BY <2>2
  <2>4. said' \in Seq(Statuses \cup Notes)
    BY <1>0, <2>1, <2>3
  <2>5. stage' \in {"send", "sent", "decoded", "unread", "page", "answered", "alone"}
    BY <2>1 DEF ExchangeTypeOK
  <2> QED
    BY <2>1, <2>4, <2>5, TypesFrame
<1>8. CASE Kill
  <2>1. /\ stage' \in {"page", "unread"} /\ stage # "answered"
        /\ request' = Nothing /\ mishap' = "killed" /\ said' = said /\ answer' = answer
    BY <1>8 DEF Kill
  <2> QED
    BY <1>0, <2>1, TypesFrame
<1>9. CASE Deadline
  <2>1. /\ UNCHANGED <<stage, request, said, answer>> /\ mishap' = "late"
    BY <1>9 DEF Deadline
  <2>2. stage' \in {"send", "sent", "decoded", "unread", "page", "answered", "alone"}
    BY <2>1 DEF ExchangeTypeOK
  <2> QED
    BY <1>0, <2>1, <2>2, TypesFrame
<1> QED
  BY <1>1, <1>2, <1>3, <1>4, <1>5, <1>6, <1>7, <1>8, <1>9
  DEF ExchangeNext, ModuleStep, ServerStep

-----------------------------------------------------------------------------
(***************************************************************************)
(* What the page asks for is what the module reads.                        *)
(***************************************************************************)

\* A step of the page sends a piece of metadata, which said then ends with, or
\* nothing.
LEMMA PageSends ==
  ASSUME PInv, said \in Seq(Metadata), Page
  PROVE  /\ UNCHANGED <<writer, main, output, header, body, stage, mishap, cut, answer>>
         /\ \/ /\ meta' = meta /\ said' = said /\ last' = last
            \/ \E e \in Metadata : /\ meta' = Append(meta, e) /\ said' = Append(said, e)
                                   /\ last' = IF e \in Statuses THEN e ELSE last
<1>1. GenStep /\ UNCHANGED <<writer, main, output, header, body, stage, mishap, cut, answer>>
  BY DEF Page, GenStep, SendMeta, Write, Return, Panic, ReportLine,
     ReportStatus, Close, 
         mainVars
<1>2. said' = IF Len(meta') > Len(meta) THEN Append(said, meta'[Len(meta')]) ELSE said
  BY DEF Page
<1>3. meta \in Seq(Metadata)
  BY DEF PInv, TypeOK, Metadata
<1>4. CASE Write \/ Return \/ Panic \/ Close
  <2>1. meta' = meta /\ last' = last
    BY <1>4 DEF Write, Return, Panic, Close
  <2> QED
    BY <1>1, <1>2, <1>3, <2>1
<1>5. CASE \E e \in Metadata : /\ Send(e)
                               /\ last' = IF e \in Statuses THEN e ELSE last
  <2>1. PICK e \in Metadata : Send(e) /\ last' = IF e \in Statuses THEN e ELSE last
    BY <1>5
  <2>2. meta' = Append(meta, e)
    BY <2>1 DEF Send
  <2>3. Len(meta') > Len(meta) /\ meta'[Len(meta')] = e
    BY <1>3, <2>2
  <2> QED
    BY <1>1, <1>2, <2>1, <2>2, <2>3
<1>6. CASE SendMeta
  BY <1>5, <1>6 DEF SendMeta, Metadata
<1>7. CASE ReportLine
  <2>1. Send("error") /\ last' = last /\ "error" \in Metadata /\ "error" \notin Statuses
    BY <1>7, NotStatus DEF ReportLine
  <2> QED
    BY <1>5, <2>1
<1>8. CASE ReportStatus
  <2>1. Send(Failed) /\ last' = Failed /\ Failed \in Metadata /\ Failed \in Statuses
    BY <1>8, NotStatus DEF ReportStatus, Metadata
  <2> QED
    BY <1>5, <2>1
<1> QED
  BY <1>1, <1>4, <1>6, <1>7, <1>8 DEF GenStep

\* The module reads what the page's goroutine writes to the end.
LEMMA EndInit == ExchangeInit => ReadToTheEnd
  BY DEF ExchangeInit, Init, ReadToTheEnd

\* A request that fails has had a mishap, and nothing is claimed of its answer.
LEMMA FailEnds == ASSUME ReadToTheEnd, stage # "alone", NEW why, why # "none", Fail(why)
                  PROVE  ReadToTheEnd'
  BY DEF Fail, vars, mainVars, ReadToTheEnd

\* Every step keeps that the module reads to the end, if nothing comes between.
LEMMA EndStep ==
  ASSUME MInv, [ExchangeNext]_exchangeVars
  PROVE  ReadToTheEnd'
<1> USE DEF ReadToTheEnd
<1>0. ReadToTheEnd /\ XInv /\ PInv /\ said \in Seq(Metadata)
  BY DEF MInv, XInv, ExchangeTypeOK, Metadata
<1>1. CASE SendRequest \/ Decode \/ StartPage \/ AllOver \/ UNCHANGED exchangeVars
  <2>1. /\ UNCHANGED <<writer, main, output, header, body, mishap, cut, answer>>
        /\ stage' = "alone" => stage = "alone"
        /\ stage' # "alone" => stage # "alone"
        /\ stage' = "answered" => stage = "answered"
    BY <1>1
    DEF SendRequest, Decode, StartPage, AllOver, exchangeVars, wireVars, vars,
        mainVars
  <2>2. SoFar' = SoFar
    BY <2>1 DEF SoFar
  <2>3. ProcessResponse(SoFar)' = ProcessResponse(SoFar)
    BY <2>2 DEF ProcessResponse, PassesText
  <2> QED
    BY <1>0, <2>1, <2>3
<1>2. CASE SendFails \/ TimeUp
  BY <1>0, <1>2, FailEnds DEF SendFails, TimeUp
<1>3. CASE Answer
  <2>1. /\ stage = "page" /\ main \in {"done", "crashed"} /\ stage' = "answered"
        /\ answer' \in Outcomes(IF cut = Absent THEN SoFar ELSE cut)
        /\ UNCHANGED <<writer, main, output, header, body, mishap, cut>>
    BY <1>3 DEF Answer, vars, mainVars
  <2>2. SoFar' = SoFar
    BY <2>1 DEF SoFar
  <2>3. ProcessResponse(SoFar)' = ProcessResponse(SoFar)
    BY <2>2 DEF ProcessResponse, PassesText
  <2>4. Outcomes(SoFar) = {ProcessResponse(SoFar)}
    <3>1. SoFar.part = Absent /\ SoFar.part # "end"
      BY AbsentAssumption DEF SoFar
    <3> QED
      BY <3>1 DEF Outcomes
  <2> QED
    BY <1>0, <2>1, <2>3, <2>4
<1>4. CASE AnswerUnread
  <2>1. CASE Fail("unread")
    BY <1>0, <1>4, <2>1, FailEnds DEF AnswerUnread
  <2>2. CASE /\ stage' = "answered" /\ mishap' = "unread" /\ UNCHANGED <<vars, cut, said>>
    BY <1>0, <1>4, <2>2 DEF AnswerUnread, vars, mainVars
  <2> QED
    BY <1>4, <2>1, <2>2 DEF AnswerUnread
<1>5. CASE Connection
  <2>1. MainStep /\ UNCHANGED <<stage, mishap, cut, answer>>
    BY <1>5 DEF Connection, wireVars
  <2>2. /\ main \in {"debug", "read", "body"}
        /\ writer' = writer
        /\ main' \in {"body", "done"} /\ writer # "none" => header'
    BY <1>0, <2>1
    DEF MainStep, SendDebug, DebugPanics, ReadMeta, ReadEnd, WriteBody
  <2> QED
    BY <1>0, <2>1, <2>2
<1>6. CASE Page
  <2>1. UNCHANGED <<writer, main, output, header, body, stage, mishap, cut, answer>>
    BY <1>0, <1>6, PageSends
  <2>2. SoFar' = SoFar
    BY <2>1 DEF SoFar
  <2>3. ProcessResponse(SoFar)' = ProcessResponse(SoFar)
    BY <2>2 DEF ProcessResponse, PassesText
  <2> QED
    BY <1>0, <2>1, <2>3
<1>7. CASE Kill
  BY <1>0, <1>7 DEF Kill
<1>8. CASE Deadline
  <2>1. UNCHANGED <<writer, main, header, stage>> /\ stage = "page" /\ mishap' = "late"
    BY <1>8 DEF Deadline, vars, mainVars
  <2> QED
    BY <1>0, <2>1
<1> QED
  BY <1>1, <1>2, <1>3, <1>4, <1>5, <1>6, <1>7, <1>8
  DEF ExchangeNext, ModuleStep, ServerStep

\* Metadata of no effect on the answer and on whether there is one.
Idle(e) == e \in {"debug", "error", "other"}

\* A line of no effect is accepted by process_response and changes nothing there.
LEMMA IdleTakes ==
  ASSUME NEW e, Idle(e)
  PROVE  /\ e \in Metadata /\ ~Rejected(e)
         /\ \A ans : Take(ans, e) = ans
<1>1. e \in Metadata /\ e \notin Statuses /\ e \notin Fields
  BY NotStatus, NameAssumption DEF Idle
<1>2. e \notin Low \cup {"alive"}
  BY <1>1, LowAssumption DEF Idle, Statuses
<1> QED
  BY <1>1, <1>2 DEF Rejected, Take

\* Whether lines are refused, for one line more and for two lists.
LEMMA RefusesOneMore ==
  ASSUME NEW q \in Seq(Metadata), NEW e \in Metadata
  PROVE  Refuses(Append(q, e)) <=> (Refuses(q) \/ Rejected(e))
<1> DEFINE r == Append(q, e)
<1>1. /\ DOMAIN r = DOMAIN q \cup {Len(q) + 1}
      /\ \A i \in DOMAIN q : r[i] = q[i]
      /\ r[Len(q) + 1] = e
  OBVIOUS
<1> HIDE DEF r
<1>2. Refuses(r) <=> (Refuses(q) \/ Rejected(e))
  BY <1>1 DEF Refuses
<1> QED
  BY <1>2 DEF r

\* Lines are refused if and only if a part of them is.
LEMMA RefusesBoth ==
  ASSUME NEW p \in Seq(Metadata), NEW q \in Seq(Metadata)
  PROVE  Refuses(p \o q) <=> (Refuses(p) \/ Refuses(q))
<1>1. /\ DOMAIN p = 1 .. Len(p) /\ DOMAIN q = 1 .. Len(q)
      /\ DOMAIN (p \o q) = 1 .. Len(p) + Len(q)
      /\ Len(p) \in Nat /\ Len(q) \in Nat
      /\ \A i \in 1 .. Len(p) : (p \o q)[i] = p[i]
      /\ \A i \in 1 .. Len(q) : (p \o q)[Len(p) + i] = q[i]
  OBVIOUS
<1> DEFINE r == p \o q
<1>2. ASSUME NEW i \in DOMAIN r, Rejected(r[i]) PROVE Refuses(p) \/ Refuses(q)
  <2>1. CASE i <= Len(p)
    <3>1. i \in DOMAIN p /\ r[i] = p[i]
      BY <1>1, <1>2, <2>1
    <3> QED
      BY <1>2, <3>1 DEF Refuses
  <2>2. CASE i > Len(p)
    <3>1. i - Len(p) \in DOMAIN q /\ r[i] = q[i - Len(p)]
      <4>1. i - Len(p) \in 1 .. Len(q) /\ i = Len(p) + (i - Len(p))
        BY <1>1, <1>2, <2>2
      <4> QED
        BY <1>1, <4>1
    <3> QED
      BY <1>2, <3>1 DEF Refuses
  <2> QED
    BY <1>1, <1>2, <2>1, <2>2
<1>3. ASSUME NEW i \in DOMAIN p, Rejected(p[i]) PROVE Refuses(r)
  <2>1. i \in DOMAIN r /\ r[i] = p[i]
    BY <1>1
  <2> QED
    BY <1>3, <2>1 DEF Refuses
<1>4. ASSUME NEW i \in DOMAIN q, Rejected(q[i]) PROVE Refuses(r)
  <2>1. Len(p) + i \in DOMAIN r /\ r[Len(p) + i] = q[i]
    BY <1>1
  <2> QED
    BY <1>4, <2>1 DEF Refuses
<1> HIDE DEF r
<1>5. Refuses(r) <=> (Refuses(p) \/ Refuses(q))
  BY <1>2, <1>3, <1>4 DEF Refuses
<1> QED
  BY <1>5 DEF r

\* The writer moves a line, or drops it.
LEMMA OneMoves ==
  ASSUME NEW p \in Seq(Metadata), NEW q \in Seq(Metadata), q # <<>>
  PROVE  /\ Append(p, Head(q)) \o Tail(q) = p \o q
         /\ Idle(Head(q)) => /\ ReadLines(p \o Tail(q)) = ReadLines(p \o q)
                             /\ Refuses(p \o Tail(q)) <=> Refuses(p \o q)
<1> DEFINE e == Head(q)
<1> DEFINE t == Tail(q)
<1>1. e \in Metadata /\ t \in Seq(Metadata)
  BY OneLess
<1>2. Append(p, e) \o t = p \o q
  OBVIOUS
<1>3. ASSUME Idle(e) PROVE /\ ReadLines(p \o t) = ReadLines(p \o q)
                           /\ Refuses(p \o t) <=> Refuses(p \o q)
  <2> HIDE DEF e, t
  <2>1. Append(p, e) \in Seq(Metadata)
    BY <1>1, OneMore
  <2>2. ReadLines(Append(p, e)) = ReadLines(p)
    BY <1>1, <1>3, ReadLinesFolds, IdleTakes
  <2>3. ReadLines(p \o t) = ReadLines(p \o q)
    <3>1. ReadLines(Append(p, e) \o t) = ReadLines(p \o t)
      BY <1>1, <2>1, <2>2, ReadLinesFolds
    <3> QED
      BY <1>2, <3>1
  <2>4. Refuses(p \o t) <=> (Refuses(p) \/ Refuses(t))
    BY <1>1, RefusesBoth
  <2>5. Refuses(Append(p, e) \o t) <=> (Refuses(Append(p, e)) \/ Refuses(t))
    BY <1>1, <2>1, RefusesBoth
  <2>6. Refuses(Append(p, e)) <=> Refuses(p)
    BY <1>1, <1>3, RefusesOneMore, IdleTakes
  <2> QED
    BY <1>2, <2>3, <2>4, <2>5, <2>6
<1> QED
  BY <1>2, <1>3

\* So that what is written and to be written stays what the page has sent.
LEMMA ToldInit == ExchangeInit => SaidIsTold
<1> SUFFICES ASSUME ExchangeInit PROVE SaidIsTold
  OBVIOUS
<1>1. output = <<>> /\ meta = <<>> /\ said = <<>>
  BY DEF ExchangeInit, Init
<1>2. output \o meta = said
  BY <1>1
<1> QED
  BY <1>2 DEF SaidIsTold

\* Every step keeps that what is written, or will be, tells what the page has sent.
LEMMA ToldStep ==
  ASSUME MInv, [ExchangeNext]_exchangeVars
  PROVE  SaidIsTold'
<1> SUFFICES ASSUME writer' = "mod-gosp"
             PROVE  /\ ReadLines(output' \o meta') = ReadLines(said')
                    /\ Refuses(output' \o meta') <=> Refuses(said')
  BY DEF SaidIsTold, Refuses
<1>0. /\ PInv /\ SaidIsTold
      /\ output \in Seq(Metadata) /\ meta \in Seq(Metadata) /\ said \in Seq(Metadata)
  BY DEF MInv, XInv, PInv, TypeOK, ExchangeTypeOK, Metadata
<1>1. CASE UNCHANGED <<writer, output, meta, said>>
  BY <1>0, <1>1 DEF SaidIsTold
<1>2. CASE Page
  <2>1. /\ writer' = writer /\ output' = output
        /\ \/ meta' = meta /\ said' = said
           \/ \E e \in Metadata : meta' = Append(meta, e) /\ said' = Append(said, e)
    BY <1>0, <1>2, PageSends
  <2>2. CASE \E e \in Metadata : meta' = Append(meta, e) /\ said' = Append(said, e)
    <3>1. PICK e \in Metadata : meta' = Append(meta, e) /\ said' = Append(said, e)
      BY <2>2
    <3> DEFINE told == output \o meta
    <3>2. told \in Seq(Metadata)
      BY <1>0
    <3>3. output' \o meta' = Append(told, e)
      BY <1>0, <2>1, <3>1, Lines!ConcatAppend
    <3>4. ReadLines(told) = ReadLines(said) /\ (Refuses(told) <=> Refuses(said))
      BY <1>0, <2>1 DEF SaidIsTold
    <3> HIDE DEF told
    <3>5. ReadLines(Append(told, e)) = ReadLines(Append(said, e))
      BY <1>0, <3>2, <3>4, ReadLinesFolds
    <3>6. Refuses(Append(told, e)) <=> Refuses(Append(said, e))
      BY <1>0, <3>2, <3>4, RefusesOneMore
    <3> QED
      BY <3>1, <3>3, <3>5, <3>6
  <2> QED
    BY <1>1, <2>1, <2>2
<1>3. CASE Connection
  <2>1. MainStep /\ said' = said
    BY <1>3 DEF Connection, wireVars
  <2>2. CASE SendDebug
    <3>1. writer' = writer /\ output' = output /\ meta' = Append(meta, "debug")
      BY <2>2 DEF SendDebug, Send
    <3> DEFINE told == output \o meta
    <3>2. told \in Seq(Metadata) /\ Idle("debug") /\ "debug" \in Metadata
      BY <1>0, NotStatus DEF Idle
    <3>3. output' \o meta' = Append(told, "debug")
      BY <1>0, <3>1, <3>2, Lines!ConcatAppend
    <3>4. ReadLines(told) = ReadLines(said) /\ (Refuses(told) <=> Refuses(said))
      BY <1>0, <3>1 DEF SaidIsTold
    <3> HIDE DEF told
    <3>5. ReadLines(Append(told, "debug")) = Take(ReadLines(told), "debug")
      BY <3>2, ReadLinesFolds
    <3>6. Refuses(Append(told, "debug")) <=> Refuses(told)
      BY <3>2, RefusesOneMore, IdleTakes
    <3> QED
      BY <2>1, <3>2, <3>3, <3>4, <3>5, <3>6, IdleTakes
  <2>3. CASE ReadMeta
    <3>1. /\ writer' = writer /\ meta # <<>> /\ meta' = Tail(meta)
          /\ output' = IF Keeps(Head(meta)) THEN Append(output, Head(meta)) ELSE output
      BY <2>3 DEF ReadMeta
    <3>2. ~Keeps(Head(meta)) => Idle(Head(meta))
      BY <3>1 DEF Keeps, Idle
    <3>3. /\ ReadLines(output' \o meta') = ReadLines(output \o meta)
          /\ Refuses(output' \o meta') <=> Refuses(output \o meta)
      BY <1>0, <3>1, <3>2, OneMoves
    <3> QED
      BY <1>0, <2>1, <3>1, <3>3 DEF SaidIsTold
  <2>4. CASE DebugPanics \/ ReadEnd \/ WriteBody
    BY <1>1, <2>1, <2>4 DEF DebugPanics, ReadEnd, WriteBody
  <2> QED
    BY <2>1, <2>2, <2>3, <2>4 DEF MainStep
<1>4. CASE SendFails \/ TimeUp \/ AnswerUnread
  BY <1>1, <1>4 DEF SendFails, TimeUp, AnswerUnread, Fail, vars, mainVars
<1>5. CASE SendRequest \/ Decode \/ StartPage \/ Answer \/ Deadline
  BY <1>1, <1>5 DEF SendRequest, Decode, StartPage, Answer, Deadline, vars, mainVars
<1>6. CASE Kill
  BY <1>1, <1>6 DEF Kill
<1>7. CASE AllOver \/ UNCHANGED exchangeVars
  BY <1>1, <1>7 DEF AllOver, exchangeVars, wireVars, vars, mainVars
<1> QED
  BY <1>2, <1>3, <1>4, <1>5, <1>6, <1>7 DEF ExchangeNext, ModuleStep, ServerStep

-----------------------------------------------------------------------------
\* A field that adds is put behind those there are, a field that replaces is
\* left alone, and no other line is a field.
LEMMA FieldsStayFit ==
  ASSUME NEW q \in Seq(Metadata), NEW fields \in Seq(Fields), FieldsFit(q, fields),
         NEW e \in Metadata
  PROVE  /\ e \notin Fields \/ Kind[e] \in {"mime", "bad"} => FieldsFit(Append(q, e), fields)
         /\ e \in Fields /\ Kind[e] \in {"set", "add"} =>
              FieldsFit(Append(q, e), AssignField(fields, e))
<1> DEFINE r == Append(q, e)
<1> DEFINE n == Len(q)
<1> DEFINE asked == AskedFor(q)
<1>1. /\ DOMAIN q = 1 .. n /\ DOMAIN r = DOMAIN q \cup {n + 1} /\ n \in Nat
      /\ \A i \in DOMAIN q : r[i] = q[i] /\ i < n + 1 /\ i \in Int
      /\ r[n + 1] = e
  OBVIOUS
<1>2. /\ Len(fields) = Cardinality(asked)
      /\ \A i \in asked : fields[Cardinality({ j \in asked : j <= i })] = q[i]
  BY DEF FieldsFit
<1>3. asked \subseteq DOMAIN q /\ IsFiniteSet(asked)
  <2>1. asked \in SUBSET (1 .. n)
    BY <1>1 DEF AskedFor
  <2>2. IsFiniteSet(1 .. n)
    BY <1>1, FS_Interval
  <2> HIDE DEF asked
  <2> QED
    BY <1>1, <2>1, <2>2, FS_Subset
<1>4. /\ \A i \in DOMAIN q : \A kind : Asks(r, i, kind) <=> Asks(q, i, kind)
      /\ \A kind : Asks(r, n + 1, kind) <=> (e \in Fields /\ Kind[e] = kind)
  BY <1>1 DEF Asks
<1>8. /\ n + 1 \in DOMAIN r
      /\ \A j \in DOMAIN r : j <= n + 1
      /\ \A i \in DOMAIN q : ~(n + 1 <= i)
  BY <1>1
<1> HIDE DEF r, n
<1>5. ASSUME e \notin Fields \/ Kind[e] \in {"mime", "bad"} PROVE FieldsFit(r, fields)
  <2>1. AskedFor(r) = asked
    BY <1>1, <1>4, <1>5 DEF AskedFor
  <2> HIDE DEF asked
  <2> QED
    BY <1>1, <1>2, <1>3, <2>1 DEF FieldsFit
<1>6. ASSUME e \in Fields, Kind[e] = "set" PROVE FieldsFit(r, <<e>>)
  <2>1. AskedFor(r) = {n + 1}
    <3>1. Asks(r, n + 1, "set")
      BY <1>4, <1>6
    <3>2. \A i \in DOMAIN r : i \in AskedFor(r) => i = n + 1
      BY <1>1, <1>8, <3>1 DEF AskedFor
    <3>3. n + 1 \in AskedFor(r)
      BY <1>8, <3>1 DEF AskedFor
    <3> QED
      BY <3>2, <3>3 DEF AskedFor
  <2>2. { j \in {n + 1} : j <= n + 1 } = {n + 1}
    BY <1>1
  <2>3. Cardinality({n + 1}) = 1
    BY FS_Singleton
  <2>4. Len(<<e>>) = 1 /\ <<e>>[1] = e
    OBVIOUS
  <2>5. \A i \in {n + 1} : <<e>>[Cardinality({ j \in {n + 1} : j <= i })] = r[i]
    BY <1>1, <2>2, <2>3, <2>4
  <2> QED
    BY <2>1, <2>3, <2>4, <2>5 DEF FieldsFit
<1>7. ASSUME e \in Fields, Kind[e] = "add" PROVE FieldsFit(r, Append(fields, e))
  <2> DEFINE more == asked \cup {n + 1}
  <2>1. AskedFor(r) = more
    <3>1. Asks(r, n + 1, "add") /\ ~Asks(r, n + 1, "set")
      BY <1>4, <1>7
    <3>2. n + 1 \in AskedFor(r)
      BY <1>8, <3>1 DEF AskedFor
    <3>3. \A i \in DOMAIN q : i \in AskedFor(r) <=> i \in asked
      BY <1>1, <1>4, <3>1 DEF AskedFor
    <3> QED
      BY <1>1, <1>3, <3>2, <3>3 DEF AskedFor
  <2> HIDE DEF asked
  <2>2. n + 1 \notin asked
    BY <1>1, <1>3
  <2>3. Cardinality(asked) \in Nat /\ Cardinality(more) = Cardinality(asked) + 1
    BY <1>3, <2>2, FS_AddElement, FS_CardinalityType
  <2>4. /\ Len(Append(fields, e)) = Cardinality(more)
        /\ Append(fields, e)[Cardinality(more)] = e
        /\ \A c \in 1 .. Cardinality(asked) : Append(fields, e)[c] = fields[c]
    BY <1>2, <1>7, <2>3
  <2>5. ASSUME NEW i \in more
        PROVE  Append(fields, e)[Cardinality({ j \in more : j <= i })] = r[i]
    <3>1. CASE i = n + 1
      <4>1. { j \in more : j <= i } = more
        BY <1>1, <1>3, <3>1
      <4> QED
        BY <1>1, <2>4, <3>1, <4>1
    <3>2. CASE i \in asked
      <4> DEFINE upto == { j \in asked : j <= i }
      <4>1. { j \in more : j <= i } = upto
        BY <1>1, <1>3, <3>2
      <4>2. upto \in SUBSET asked /\ i \in upto
        BY <1>1, <1>3, <3>2
      <4>3. fields[Cardinality(upto)] = q[i]
        BY <1>2, <3>2
      <4> HIDE DEF upto, more
      <4>4. Cardinality(upto) \in 1 .. Cardinality(asked)
        <5>1. IsFiniteSet(upto) /\ Cardinality(upto) <= Cardinality(asked)
          BY <1>3, <4>2, FS_Subset
        <5>2. Cardinality(upto) \in Nat /\ Cardinality(upto) # 0
          BY <4>2, <5>1, FS_CardinalityType, FS_EmptySet
        <5> QED
          BY <2>3, <5>1, <5>2
      <4>5. r[i] = q[i]
        BY <1>1, <1>3, <3>2
      <4> QED
        BY <2>4, <4>1, <4>3, <4>4, <4>5
    <3> QED
      BY <3>1, <3>2
  <2> HIDE DEF more
  <2> QED
    BY <2>1, <2>4, <2>5 DEF FieldsFit
<1> QED
  BY <1>5, <1>6, <1>7 DEF r, AssignField

\* The last MIME type is the one that counts.
LEMMA MimeStaysFit ==
  ASSUME NEW q \in Seq(Metadata), NEW mime, MimeFits(q, mime), NEW e \in Metadata
  PROVE  /\ e \in Fields /\ Kind[e] = "mime" => MimeFits(Append(q, e), e)
         /\ ~(e \in Fields /\ Kind[e] = "mime") => MimeFits(Append(q, e), mime)
<1> DEFINE r == Append(q, e)
<1> DEFINE n == Len(q)
<1>1. /\ DOMAIN r = DOMAIN q \cup {n + 1}
      /\ \A i \in DOMAIN q : r[i] = q[i]
      /\ r[n + 1] = e
      /\ \A j \in DOMAIN r : j <= n + 1
  OBVIOUS
<1>2. /\ \A i \in DOMAIN q : Asks(r, i, "mime") <=> Asks(q, i, "mime")
      /\ Asks(r, n + 1, "mime") <=> (e \in Fields /\ Kind[e] = "mime")
  BY <1>1 DEF Asks
<1> HIDE DEF r, n
<1>3. ASSUME e \in Fields, Kind[e] = "mime" PROVE MimeFits(r, e)
  <2>1. n + 1 \in DOMAIN r /\ Asks(r, n + 1, "mime") /\ r[n + 1] = e
    BY <1>1, <1>2, <1>3
  <2> QED
    BY <1>1, <2>1 DEF MimeFits
<1>4. ASSUME ~(e \in Fields /\ Kind[e] = "mime") PROVE MimeFits(r, mime)
  <2>1. \A i \in DOMAIN r : Asks(r, i, "mime") <=> i \in DOMAIN q /\ Asks(q, i, "mime")
    BY <1>1, <1>2, <1>4
  <2> QED
    BY <1>1, <2>1 DEF MimeFits
<1> QED
  BY <1>3, <1>4 DEF r

\* One turn of the loop takes what one more line asks for.
LEMMA TakeFits ==
  ASSUME NEW q \in Seq(Metadata), NEW e \in Metadata, ~Rejected(e), NEW ans \in Collected,
         FieldsFit(q, ans.fields), MimeFits(q, ans.mime)
  PROVE  /\ Take(ans, e).status = IF e \in Statuses THEN e ELSE ans.status
         /\ FieldsFit(Append(q, e), Take(ans, e).fields)
         /\ MimeFits(Append(q, e), Take(ans, e).mime)
<1>1. /\ e \in Fields => e \notin Statuses /\ Kind[e] \in {"set", "add", "mime"}
      /\ ans.fields \in Seq(Fields)
  BY NameAssumption, KindAssumption DEF Notes, Rejected, Collected, FieldKinds
<1>2. CASE e \in Fields /\ Kind[e] = "mime"
  <2>1. /\ Take(ans, e).status = ans.status /\ Take(ans, e).fields = ans.fields
        /\ Take(ans, e).mime = e
    BY <1>1, <1>2 DEF Take, Collected
  <2> QED
    BY <1>1, <1>2, <2>1, FieldsStayFit, MimeStaysFit
<1>3. CASE e \in Fields /\ Kind[e] # "mime"
  <2>1. /\ Take(ans, e).status = ans.status /\ Take(ans, e).mime = ans.mime
        /\ Take(ans, e).fields = AssignField(ans.fields, e)
    BY <1>1, <1>3 DEF Take, Collected
  <2> QED
    BY <1>1, <1>3, <2>1, FieldsStayFit, MimeStaysFit
<1>4. CASE e \notin Fields
  <2>1. /\ Take(ans, e).status = IF e \in Statuses THEN e ELSE ans.status
        /\ Take(ans, e).fields = ans.fields /\ Take(ans, e).mime = ans.mime
    BY <1>4 DEF Take, Collected
  <2> QED
    BY <1>1, <1>4, <2>1, FieldsStayFit, MimeStaysFit
<1> QED
  BY <1>2, <1>3, <1>4

\* What the module makes of all that the page has sent is what the page asked for.
LEMMA MeantInit == ExchangeInit => SaidIsMeant
<1> SUFFICES ASSUME ExchangeInit PROVE SaidIsMeant
  OBVIOUS
<1>1. said = <<>> /\ last = Okay /\ DOMAIN said = {}
  BY DEF ExchangeInit, Init
<1>2. ReadLines(said) = [status |-> Okay, fields |-> <<>>, mime |-> Absent, text |-> NoBody]
  BY <1>1, ReadLinesFolds DEF Start, Refused
<1>3. AskedFor(said) = {}
  BY <1>1 DEF AskedFor
<1>4. FieldsFit(said, <<>>)
  BY <1>3, FS_EmptySet DEF FieldsFit
<1>5. MimeFits(said, Absent)
  BY <1>1 DEF MimeFits
<1> QED
  BY <1>1, <1>2, <1>4, <1>5 DEF SaidIsMeant

\* Every step keeps that what the page has sent means what it asked for.
LEMMA MeantStep ==
  ASSUME MInv, [ExchangeNext]_exchangeVars
  PROVE  SaidIsMeant'
<1>0. PInv /\ SaidIsMeant /\ said \in Seq(Metadata)
  BY DEF MInv, XInv, ExchangeTypeOK, Metadata
<1>1. CASE UNCHANGED <<said, last>>
  BY <1>0, <1>1 DEF SaidIsMeant, Refuses, FieldsFit, AskedFor, Asks, MimeFits
<1>2. CASE Page
  <2>1. CASE said' = said /\ last' = last
    BY <1>1, <2>1
  <2>2. CASE \E e \in Metadata : /\ said' = Append(said, e)
                                 /\ last' = IF e \in Statuses THEN e ELSE last
    <3>1. PICK e \in Metadata : /\ said' = Append(said, e)
                                /\ last' = IF e \in Statuses THEN e ELSE last
      BY <2>2
    <3> DEFINE ans == ReadLines(said)
    <3>2. ans \in Collected /\ ReadLines(said') = Take(ans, e)
      BY <1>0, <3>1, ReadLinesTypes, ReadLinesFolds
    <3>3. ~Refuses(said') =>
            /\ ~Rejected(e)
            /\ ans.status = last /\ FieldsFit(said, ans.fields) /\ MimeFits(said, ans.mime)
      BY <1>0, <3>1, RefusesOneMore DEF SaidIsMeant
    <3> HIDE DEF ans
    <3>4. ~Refuses(said') =>
            /\ Take(ans, e).status = last'
            /\ FieldsFit(said', Take(ans, e).fields)
            /\ MimeFits(said', Take(ans, e).mime)
      BY <1>0, <3>1, <3>2, <3>3, TakeFits
    <3> QED
      BY <3>2, <3>4 DEF SaidIsMeant, Refuses, FieldsFit, AskedFor, Asks, MimeFits
  <2> QED
    BY <1>0, <1>2, <2>1, <2>2, PageSends
<1>3. CASE Connection
  BY <1>1, <1>3
  DEF Connection, wireVars, MainStep, SendDebug, DebugPanics, ReadMeta, ReadEnd, WriteBody,
      genVars
<1>4. CASE SendFails \/ TimeUp \/ AnswerUnread
  BY <1>1, <1>4 DEF SendFails, TimeUp, AnswerUnread, Fail, vars, genVars
<1>5. CASE SendRequest \/ Decode \/ StartPage \/ Answer \/ Deadline
  BY <1>1, <1>5 DEF SendRequest, Decode, StartPage, Answer, Deadline, vars, genVars
<1>6. CASE Kill
  BY <1>1, <1>6 DEF Kill, genVars
<1>7. CASE AllOver \/ UNCHANGED exchangeVars
  BY <1>1, <1>7 DEF AllOver, exchangeVars, wireVars, vars, genVars
<1> QED
  BY <1>2, <1>3, <1>4, <1>5, <1>6, <1>7 DEF ExchangeNext, ModuleStep, ServerStep

\* An answer to a page that has come to its end, without a mishap on the way, is
\* what the page asked for.
LEMMA MeantImplies == MInv => AnswerMatchesPage
<1> SUFFICES ASSUME MInv, stage = "answered", mishap = "none", main = "done"
             PROVE  AnswerMatchesPage
  BY DEF AnswerMatchesPage
<1> DEFINE ans == ReadLines(said)
<1>1. PInv /\ ReadToTheEnd /\ SaidIsTold /\ SaidIsMeant /\ output \in Seq(Metadata)
  BY DEF MInv, XInv, PInv, TypeOK, Metadata
<1>2. writer = "mod-gosp" /\ header /\ answer = ProcessResponse(SoFar) /\ meta = <<>>
  BY <1>1 DEF ReadToTheEnd, PInv, TextComesLast
<1>3. output \o meta = output
  BY <1>1, <1>2
<1>4. ReadLines(output) = ans /\ (Refuses(output) <=> Refuses(said))
  BY <1>1, <1>2, <1>3 DEF SaidIsTold
<1>5. answer = IF Refuses(output) THEN Refused
               ELSE [status |-> ans.status, fields |-> ans.fields, mime |-> ans.mime,
                     text |-> IF ans.status = Okay THEN body ELSE NoBody]
  BY <1>2, <1>4 DEF ProcessResponse, PassesText, SoFar, Refuses
<1>6. WholePageOrNone
  BY <1>1, PageImplies
<1>7. ~Refuses(said) =>
        ans.status = last /\ FieldsFit(said, ans.fields) /\ MimeFits(said, ans.mime)
  BY <1>1 DEF SaidIsMeant
<1> HIDE DEF ans
<1>8. ASSUME ~Refuses(said)
      PROVE  /\ answer.status = last
             /\ answer.text = IF last = Okay THEN html ELSE NoBody
             /\ FieldsFit(said, answer.fields) /\ MimeFits(said, answer.mime)
  BY <1>4, <1>5, <1>6, <1>7, <1>8 DEF WholePageOrNone
<1>9. MimeFits(said, answer.mime) => IsMimeOf(answer)
  BY DEF MimeFits, Asks, IsMimeOf, Sent
<1>10. FieldsAskedFor = AskedFor(said)
  BY DEF FieldsAskedFor, Sent, AskedFor, Asks
<1> QED
  BY <1>4, <1>5, <1>8, <1>9, <1>10 DEF AnswerMatchesPage, Refuses, FieldsFit

-----------------------------------------------------------------------------
(***************************************************************************)
(* The request, on its way to the page: what the folds of the module and   *)
(* of the decoder make of a query and a form of any length, by induction   *)
(* over lists.                                                             *)
(***************************************************************************)
\* Every one of them takes one element after the other.
LEMMA RequestFolds ==
  /\ ParseGetArgs(<<>>) = <<>>
  /\ SendTable(<<>>) = <<>>
  /\ Decoded(<<>>) = <<>>
  /\ \A S : \A list \in Seq(S), e \in S :
       /\ ParseGetArgs(Append(list, e)) = TableSet(ParseGetArgs(list), e)
       /\ SendTable(Append(list, e)) = SendItem(SendTable(list), e)
       /\ Decoded(Append(list, e)) = ReadMember(Decoded(list), e)
<1>1. \A list : ParseGetArgs(list) = Getting!Fold(list)
  BY DEF ParseGetArgs, Getting!Fold, FoldLeft, MapThenFoldSet, Max,
         Getting!FoldLeft, Getting!MapThenFoldSet, Getting!Max
<1>2. \A list : SendTable(list) = Writing!Fold(list)
  BY DEF SendTable, Writing!Fold, FoldLeft, MapThenFoldSet, Max,
         Writing!FoldLeft, Writing!MapThenFoldSet, Writing!Max
<1>3. \A list : Decoded(list) = Decoding!Fold(list)
  BY DEF Decoded, Decoding!Fold, FoldLeft, MapThenFoldSet, Max,
         Decoding!FoldLeft, Decoding!MapThenFoldSet, Decoding!Max
<1>4. ASSUME NEW S, NEW list \in Seq(S), NEW e \in S
      PROVE  /\ ParseGetArgs(Append(list, e)) = TableSet(ParseGetArgs(list), e)
             /\ SendTable(Append(list, e)) = SendItem(SendTable(list), e)
             /\ Decoded(Append(list, e)) = ReadMember(Decoded(list), e)
  <2>1. ParseGetArgs(Append(list, e)) = TableSet(ParseGetArgs(list), e)
    BY <1>1, Getting!FoldAppend
  <2>2. SendTable(Append(list, e)) = SendItem(SendTable(list), e)
    BY <1>2, Writing!FoldAppend
  <2>3. Decoded(Append(list, e)) = ReadMember(Decoded(list), e)
    BY <1>3, Decoding!FoldAppend
  <2> QED
    BY <2>1, <2>2, <2>3
<1>5. ParseGetArgs(<<>>) = <<>>
  BY <1>1, Getting!FoldEmpty
<1>6. SendTable(<<>>) = <<>>
  BY <1>2, Writing!FoldEmpty
<1>7. Decoded(<<>>) = <<>>
  BY <1>3, Decoding!FoldEmpty
<1> QED
  BY <1>4, <1>5, <1>6, <1>7

\* What a longer list has in its places.
LEMMA LongerList ==
  ASSUME NEW S, NEW list \in Seq(S), NEW e \in S
  PROVE  /\ Append(list, e) \in Seq(S)
         /\ DOMAIN list = 1 .. Len(list) /\ Len(list) \in Nat
         /\ DOMAIN Append(list, e) = 1 .. Len(list) + 1
         /\ DOMAIN Append(list, e) = DOMAIN list \cup {Len(list) + 1}
         /\ \A i \in DOMAIN list : list[i] \in S /\ i # Len(list) + 1 /\ i <= Len(list) + 1
         /\ \A i \in DOMAIN list : Append(list, e)[i] = list[i]
         /\ Append(list, e)[Len(list) + 1] = e
         /\ Len(Append(list, e)) = Len(list) + 1
         /\ Append(list, e) # <<>>
  OBVIOUS

\* Place n has the last of a list's pairs whose name is that of k, in any case.
LastFor(pairs, n, k) ==
    /\ n \in DOMAIN pairs /\ Lower(pairs[n].key) = Lower(k)
    /\ \A j \in DOMAIN pairs : Lower(pairs[j].key) = Lower(k) => j <= n

\* A table that parse_get_args makes of a query: its names are those of the query,
\* it has none of them twice, and it has the last of the values.
TableOf(query, tbl) ==
    /\ \A i \in DOMAIN tbl :
         \E n \in DOMAIN query : LastFor(query, n, tbl[i].key) /\ tbl[i].value = query[n].value
    /\ \A n \in DOMAIN query : \E i \in DOMAIN tbl : Lower(tbl[i].key) = Lower(query[n].key)
    /\ \A i, j \in DOMAIN tbl : Lower(tbl[i].key) = Lower(tbl[j].key) => i = j

\* A parameter more in the query: apr_table_set replaces the value of its name, or
\* adds a pair to the table.
LEMMA TableSetOf ==
  ASSUME NEW values, NEW query \in Seq(PairsOver(values)), NEW tbl \in Seq(PairsOver(values)),
         NEW p \in PairsOver(values), TableOf(query, tbl)
  PROVE  /\ TableSet(tbl, p) \in Seq(PairsOver(values))
         /\ TableOf(Append(query, p), TableSet(tbl, p))
<1> DEFINE P == PairsOver(values)
<1> DEFINE longer == Append(query, p)
<1> DEFINE last_ == Len(query) + 1
<1> DEFINE new == TableSet(tbl, p)
<1> DEFINE same == \E i \in DOMAIN tbl : Lower(tbl[i].key) = Lower(p.key)
<1>1. /\ DOMAIN longer = DOMAIN query \cup {last_}
      /\ \A n \in DOMAIN query : longer[n] = query[n] /\ n <= last_ /\ n # last_
      /\ longer[last_] = p /\ last_ <= last_
  BY LongerList
<1>2. \A i \in DOMAIN tbl : tbl[i] \in P
  OBVIOUS
<1>3. \A q \in P, v \in values : /\ [q EXCEPT !.value = v] \in P
                                 /\ [q EXCEPT !.value = v].key = q.key
                                 /\ [q EXCEPT !.value = v].value = v
  BY DEF PairsOver
<1>4. p.value \in values
  BY DEF PairsOver
<1> HIDE DEF longer, last_, P
<1>5. ASSUME NEW k, Lower(k) = Lower(p.key)
      PROVE  LastFor(longer, last_, k) /\ longer[last_].value = p.value
  BY <1>1, <1>5 DEF LastFor
<1>6. ASSUME NEW k, Lower(k) # Lower(p.key), NEW n \in DOMAIN query, LastFor(query, n, k)
      PROVE  LastFor(longer, n, k) /\ longer[n] = query[n] /\ n \in DOMAIN longer
  BY <1>1, <1>6 DEF LastFor
<1>7. CASE same
  <2>1. new = [i \in DOMAIN tbl |-> IF Lower(tbl[i].key) = Lower(p.key)
                                    THEN [tbl[i] EXCEPT !.value = p.value] ELSE tbl[i]]
    BY <1>7 DEF TableSet
  <2> HIDE DEF new
  <2>2. /\ DOMAIN new = DOMAIN tbl
        /\ \A i \in DOMAIN tbl :
             /\ new[i] \in P /\ new[i].key = tbl[i].key
             /\ new[i].value = IF Lower(tbl[i].key) = Lower(p.key) THEN p.value
                               ELSE tbl[i].value
    BY <1>2, <1>3, <1>4, <2>1
  <2>3. new \in Seq(P)
    <3>1. DOMAIN tbl = 1 .. Len(tbl) /\ Len(tbl) \in Nat
      OBVIOUS
    <3>2. new \in [1 .. Len(tbl) -> P]
      BY <2>1, <2>2, <3>1
    <3> QED
      BY <3>1, <3>2
  <2>4. ASSUME NEW i \in DOMAIN new
        PROVE  \E n \in DOMAIN longer : LastFor(longer, n, new[i].key)
                                        /\ new[i].value = longer[n].value
    <3>1. CASE Lower(tbl[i].key) = Lower(p.key)
      BY <1>1, <1>5, <2>2, <3>1
    <3>2. CASE Lower(tbl[i].key) # Lower(p.key)
      <4>1. PICK n \in DOMAIN query : LastFor(query, n, tbl[i].key)
                                      /\ tbl[i].value = query[n].value
        BY <2>2 DEF TableOf
      <4> QED
        BY <1>6, <2>2, <3>2, <4>1
    <3> QED
      BY <3>1, <3>2
  <2>5. ASSUME NEW n \in DOMAIN longer
        PROVE  \E i \in DOMAIN new : Lower(new[i].key) = Lower(longer[n].key)
    <3>1. CASE n = last_
      BY <1>1, <1>7, <2>2, <3>1
    <3>2. CASE n \in DOMAIN query
      BY <1>1, <2>2, <3>2 DEF TableOf
    <3> QED
      BY <1>1, <3>1, <3>2
  <2>6. \A i, j \in DOMAIN new : Lower(new[i].key) = Lower(new[j].key) => i = j
    BY <2>2 DEF TableOf
  <2>7. new \in Seq(P) /\ TableOf(longer, new)
    BY <2>3, <2>4, <2>5, <2>6 DEF TableOf
  <2> QED
    BY <2>7 DEF new, P, longer
<1>8. CASE ~same
  <2>1. new = Append(tbl, p)
    BY <1>8 DEF TableSet
  <2> DEFINE end == Len(tbl) + 1
  <2> HIDE DEF new
  <2>2. /\ new \in Seq(P)
        /\ DOMAIN new = DOMAIN tbl \cup {end}
        /\ \A i \in DOMAIN tbl : new[i] = tbl[i]
        /\ new[end] = p
    BY <2>1, LongerList DEF P
  <2> HIDE DEF end
  <2>3. \A i \in DOMAIN tbl : Lower(tbl[i].key) # Lower(p.key)
    BY <1>8
  <2>4. ASSUME NEW i \in DOMAIN new
        PROVE  \E n \in DOMAIN longer : LastFor(longer, n, new[i].key)
                                        /\ new[i].value = longer[n].value
    <3>1. CASE i = end
      BY <1>1, <1>5, <2>2, <3>1
    <3>2. CASE i \in DOMAIN tbl
      <4>1. PICK n \in DOMAIN query : LastFor(query, n, tbl[i].key)
                                      /\ tbl[i].value = query[n].value
        BY <3>2 DEF TableOf
      <4> QED
        BY <1>6, <2>2, <2>3, <3>2, <4>1
    <3> QED
      BY <2>2, <3>1, <3>2
  <2>5. ASSUME NEW n \in DOMAIN longer
        PROVE  \E i \in DOMAIN new : Lower(new[i].key) = Lower(longer[n].key)
    <3>1. CASE n = last_
      BY <1>1, <2>2, <3>1
    <3>2. CASE n \in DOMAIN query
      <4>1. PICK i \in DOMAIN tbl : Lower(tbl[i].key) = Lower(query[n].key)
        BY <3>2 DEF TableOf
      <4> QED
        BY <1>1, <2>2, <3>2, <4>1
    <3> QED
      BY <1>1, <3>1, <3>2
  <2>6. \A i, j \in DOMAIN new : Lower(new[i].key) = Lower(new[j].key) => i = j
    BY <2>2, <2>3 DEF TableOf
  <2>7. new \in Seq(P) /\ TableOf(longer, new)
    BY <2>2, <2>4, <2>5, <2>6 DEF TableOf
  <2> QED
    BY <2>7 DEF new, P, longer
<1> QED
  BY <1>7, <1>8

\* So the table of every query is one of it.
LEMMA QueryTable ==
  ASSUME NEW values, NEW query \in Seq(PairsOver(values))
  PROVE  ParseGetArgs(query) \in Seq(PairsOver(values)) /\ TableOf(query, ParseGetArgs(query))
<1> DEFINE P == PairsOver(values)
<1> DEFINE Fits(q) == ParseGetArgs(q) \in Seq(P) /\ TableOf(q, ParseGetArgs(q))
<1> DEFINE T == {q \in Seq(P) : Fits(q)}
<1>1. <<>> \in T
  <2>1. ParseGetArgs(<<>>) = <<>> /\ <<>> \in Seq(P) /\ DOMAIN <<>> = {}
    BY RequestFolds
  <2>2. TableOf(<<>>, <<>>)
    BY <2>1 DEF TableOf
  <2> QED
    BY <2>1, <2>2
<1>2. ASSUME NEW q \in Seq(P), NEW p \in P, q \in T PROVE Append(q, p) \in T
  <2>1. ParseGetArgs(Append(q, p)) = TableSet(ParseGetArgs(q), p)
    BY RequestFolds
  <2>2. Append(q, p) \in Seq(P) /\ Fits(q)
    BY <1>2
  <2>3. /\ TableSet(ParseGetArgs(q), p) \in Seq(P)
        /\ TableOf(Append(q, p), TableSet(ParseGetArgs(q), p))
    BY <2>2, TableSetOf
  <2> QED
    BY <2>1, <2>2, <2>3
<1>3. Seq(P) \subseteq T
  <2> HIDE DEF T, P
  <2> QED
    BY <1>1, <1>2, Getting!ListInduction
<1> QED
  BY <1>3

-----------------------------------------------------------------------------
\* The text of a table, as the module writes it.
Members == {Comma} \cup PairsOver({"plain", "escaped", "control"})

\* Place n has the last of a list's pairs with name k.
LastNamed(pairs, n, k) ==
    /\ n \in DOMAIN pairs /\ pairs[n].key = k
    /\ \A j \in DOMAIN pairs : pairs[j].key = k => j <= n

\* A text that send_table makes of a list: members and commas in turn, that can be
\* read unless a value has a control character, and that is read into a map of the
\* names with the last value of each.
TextOf(pairs, text) ==
    /\ (text = <<>>) = (pairs = <<>>)
    /\ text # <<>> => Len(text) % 2 = 1
    /\ WellFormed(text) <=> Clean(pairs)
    /\ DOMAIN Decoded(text) = Names(pairs)
    /\ \A k \in Names(pairs) :
         \E n \in DOMAIN pairs : LastNamed(pairs, n, k) /\ Decoded(text)[k] = pairs[n].value

\* A value is written and read again as it was, unless it has a control character.
LEMMA EscapedIsRead ==
  ASSUME NEW p \in PairsOver(Strings)
  PROVE  LET m == Pair(p.key, EscapeForJson(p.value))
         IN  /\ Member(p) = <<m>> /\ m \in Members /\ m # Comma
             /\ m.key = p.key /\ Unescape(m.value) = p.value
             /\ Readable(m.value) <=> p.value # "control"
<1> DEFINE m == Pair(p.key, EscapeForJson(p.value))
<1>1. m.key = p.key /\ m.value = EscapeForJson(p.value) /\ Comma.value = "comma"
  BY DEF Pair, Comma
<1>2. p.key \in Params /\ p.value \in Strings
  BY DEF PairsOver
<1>3. m \in PairsOver({"plain", "escaped", "control"})
  BY <1>2 DEF Pair, PairsOver, EscapeForJson, Strings
<1> QED
  BY <1>1, <1>2, <1>3 DEF Member, Members, EscapeForJson, Strings, Unescape, Readable

\* A comma and a member more, or the first member.
LEMMA SendItemSends ==
  ASSUME NEW text \in Seq(Members), NEW p \in PairsOver(Strings), NEW m \in Members,
         Member(p) = <<m>>
  PROVE  SendItem(text, p) = IF text = <<>> THEN Append(text, m)
                             ELSE Append(Append(text, Comma), m)
<1>1. Comma \in Members
  BY DEF Members
<1>2. CASE text = <<>>
  <2>1. SendItem(text, p) = <<>> \o <<>> \o <<m>>
    BY <1>2 DEF SendItem
  <2> QED
    BY <1>2, <2>1
<1>3. CASE text # <<>>
  <2>1. SendItem(text, p) = text \o <<Comma>> \o <<m>>
    BY <1>3 DEF SendItem
  <2> DEFINE c == Comma
  <2> HIDE DEF c
  <2>2. c \in Members /\ SendItem(text, p) = text \o <<c>> \o <<m>>
    BY <1>1, <2>1 DEF c
  <2>3. text \o <<c>> = Append(text, c) /\ Append(text, c) \in Seq(Members)
    BY <2>2, AppendIsConcat
  <2>4. Append(text, c) \o <<m>> = Append(Append(text, c), m)
    BY <2>3, AppendIsConcat
  <2> QED
    BY <1>3, <2>2, <2>3, <2>4 DEF c
<1> QED
  BY <1>2, <1>3

\* What is read of a text goes on with what is read of its end.
LEMMA WellFormedLonger ==
  ASSUME NEW text \in Seq(Members), NEW m \in Members
  PROVE  WellFormed(Append(text, m)) <=>
           /\ WellFormed(text)
           /\ IF Len(text) % 2 = 1 THEN m = Comma ELSE m # Comma /\ Readable(m.value)
<1> DEFINE longer == Append(text, m)
<1> DEFINE end == Len(text) + 1
<1>1. /\ DOMAIN longer = DOMAIN text \cup {end}
      /\ \A i \in DOMAIN text : longer[i] = text[i]
      /\ longer[end] = m /\ Len(text) \in Nat
  BY LongerList
<1>2. end % 2 = 0 <=> Len(text) % 2 = 1
  BY <1>1
<1> HIDE DEF longer, end
<1>3. WellFormed(longer) <=>
        /\ WellFormed(text)
        /\ IF end % 2 = 0 THEN m = Comma ELSE m # Comma /\ Readable(m.value)
  BY <1>1 DEF WellFormed
<1> QED
  BY <1>2, <1>3 DEF longer

\* The names of a longer list, whether it can be read, and where it has its values.
LEMMA PairsLonger ==
  ASSUME NEW S, NEW pairs \in Seq(S), NEW p \in S
  PROVE  /\ Names(Append(pairs, p)) = Names(pairs) \cup {p.key}
         /\ Clean(Append(pairs, p)) <=> Clean(pairs) /\ p.value # "control"
         /\ LastNamed(Append(pairs, p), Len(pairs) + 1, p.key)
         /\ \A k : \A n \in DOMAIN pairs : k # p.key /\ LastNamed(pairs, n, k) =>
              LastNamed(Append(pairs, p), n, k)
<1> DEFINE longer == Append(pairs, p)
<1> DEFINE end == Len(pairs) + 1
<1>1. /\ DOMAIN longer = DOMAIN pairs \cup {end}
      /\ \A n \in DOMAIN pairs : longer[n] = pairs[n] /\ n <= end /\ n # end
      /\ longer[end] = p /\ end <= end
  BY LongerList
<1> HIDE DEF longer, end
<1>2. Names(longer) = Names(pairs) \cup {p.key}
  BY <1>1 DEF Names
<1>3. Clean(longer) <=> Clean(pairs) /\ p.value # "control"
  BY <1>1 DEF Clean
<1>4. LastNamed(longer, end, p.key)
  BY <1>1 DEF LastNamed
<1>5. ASSUME NEW n \in DOMAIN pairs, NEW k, k # p.key, LastNamed(pairs, n, k)
      PROVE  LastNamed(longer, n, k)
  BY <1>1, <1>5 DEF LastNamed
<1> QED
  BY <1>2, <1>3, <1>4, <1>5 DEF longer, end

\* Members and commas take turns.
LEMMA InTurn ==
  /\ 0 % 2 = 0 /\ 1 % 2 = 1
  /\ \A n \in Nat : n % 2 = 1 => (n + 1) % 2 = 0 /\ (n + 1) + 1 \in Nat /\ ((n + 1) + 1) % 2 = 1
  OBVIOUS

\* A pair more in the table.
LEMMA SendItemOf ==
  ASSUME NEW pairs \in Seq(PairsOver(Strings)), NEW text \in Seq(Members),
         NEW p \in PairsOver(Strings), TextOf(pairs, text)
  PROVE  SendItem(text, p) \in Seq(Members) /\ TextOf(Append(pairs, p), SendItem(text, p))
<1> DEFINE m == Pair(p.key, EscapeForJson(p.value))
<1> DEFINE new == SendItem(text, p)
<1> DEFINE longer == Append(pairs, p)
<1> DEFINE end == Len(pairs) + 1
<1> DEFINE comma == Append(text, Comma)
<1>1. /\ Member(p) = <<m>> /\ m \in Members /\ m # Comma
      /\ m.key = p.key /\ Unescape(m.value) = p.value
      /\ Readable(m.value) <=> p.value # "control"
  BY EscapedIsRead
<1>2. Comma \in Members
  BY DEF Members
<1> HIDE DEF m
<1>3. new = IF text = <<>> THEN Append(text, m) ELSE Append(comma, m)
  BY <1>1, SendItemSends
<1> HIDE DEF new
<1>4. /\ new \in Seq(Members) /\ new # <<>> /\ Len(new) % 2 = 1
      /\ WellFormed(new) <=> WellFormed(text) /\ Readable(m.value)
      /\ Decoded(new) = ReadMember(Decoded(text), m)
  <2>1. CASE text = <<>>
    <3>1. Len(text) = 0 /\ Len(new) = 1 /\ new \in Seq(Members) /\ new # <<>>
      BY <1>1, <1>3, <2>1, LongerList
    <3>2. WellFormed(new) <=> WellFormed(text) /\ Readable(m.value)
      <4>1. WellFormed(Append(text, m)) <=>
              /\ WellFormed(text)
              /\ IF Len(text) % 2 = 1 THEN m = Comma ELSE m # Comma /\ Readable(m.value)
        BY <1>1, WellFormedLonger
      <4>2. Len(text) % 2 # 1
        BY <3>1
      <4> QED
        BY <1>1, <1>3, <2>1, <4>1, <4>2
    <3>3. Decoded(new) = ReadMember(Decoded(text), m)
      BY <1>1, <1>3, <2>1, RequestFolds
    <3> QED
      BY <3>1, <3>2, <3>3, InTurn
  <2>2. CASE text # <<>>
    <3>1. Len(text) % 2 = 1 /\ Len(text) \in Nat
      BY <2>2 DEF TextOf
    <3>2. comma \in Seq(Members) /\ Len(comma) = Len(text) + 1
      BY <1>2, LongerList
    <3>3. WellFormed(comma) <=> WellFormed(text)
      BY <1>2, <3>1, WellFormedLonger
    <3>4. Decoded(comma) = Decoded(text)
      BY <1>2, RequestFolds DEF ReadMember
    <3> HIDE DEF comma
    <3>5. new = Append(comma, m)
      BY <1>3, <2>2
    <3>6. new \in Seq(Members) /\ new # <<>> /\ Len(new) = Len(comma) + 1
      BY <1>1, <3>2, <3>5, LongerList
    <3>7. Len(comma) % 2 = 0 /\ Len(new) % 2 = 1
      BY <3>1, <3>2, <3>6, InTurn
    <3>8. WellFormed(new) <=> WellFormed(comma) /\ Readable(m.value)
      BY <1>1, <3>2, <3>5, <3>7, WellFormedLonger
    <3>9. Decoded(new) = ReadMember(Decoded(comma), m)
      BY <1>1, <3>2, <3>5, RequestFolds
    <3> QED
      BY <3>3, <3>4, <3>6, <3>7, <3>8, <3>9
  <2> QED
    BY <2>1, <2>2
<1>5. /\ Names(longer) = Names(pairs) \cup {p.key}
      /\ Clean(longer) <=> Clean(pairs) /\ p.value # "control"
      /\ LastNamed(longer, end, p.key)
      /\ \A k : \A n \in DOMAIN pairs : k # p.key /\ LastNamed(pairs, n, k) => LastNamed(longer, n, k)
  BY PairsLonger
<1>6. /\ DOMAIN longer = DOMAIN pairs \cup {end} /\ longer[end] = p /\ longer # <<>>
      /\ \A n \in DOMAIN pairs : longer[n] = pairs[n]
  BY LongerList
<1> HIDE DEF longer, end, comma
<1>7. DOMAIN Decoded(new) = Names(longer)
  BY <1>1, <1>4, <1>5 DEF ReadMember, TextOf
<1>8. ASSUME NEW k \in Names(longer)
      PROVE  \E n \in DOMAIN longer : LastNamed(longer, n, k) /\ Decoded(new)[k] = longer[n].value
  <2>1. Decoded(new)[k] = IF k = p.key THEN p.value ELSE Decoded(text)[k]
    BY <1>1, <1>4, <1>5 DEF ReadMember, TextOf
  <2>2. CASE k = p.key
    BY <1>5, <1>6, <2>1, <2>2
  <2>3. CASE k # p.key
    <3>1. PICK n \in DOMAIN pairs : LastNamed(pairs, n, k) /\ Decoded(text)[k] = pairs[n].value
      BY <1>5, <2>3 DEF TextOf
    <3> QED
      BY <1>5, <1>6, <2>1, <2>3, <3>1
  <2> QED
    BY <2>2, <2>3
<1>9. TextOf(longer, new)
  BY <1>1, <1>4, <1>5, <1>6, <1>7, <1>8 DEF TextOf
<1> QED
  BY <1>4, <1>9 DEF new, longer

\* So the text of every table is one of it.
LEMMA TableText ==
  ASSUME NEW pairs \in Seq(PairsOver(Strings))
  PROVE  SendTable(pairs) \in Seq(Members) /\ TextOf(pairs, SendTable(pairs))
<1> DEFINE P == PairsOver(Strings)
<1> DEFINE Fits(q) == SendTable(q) \in Seq(Members) /\ TextOf(q, SendTable(q))
<1> DEFINE T == {q \in Seq(P) : Fits(q)}
<1>1. <<>> \in T
  <2>1. /\ SendTable(<<>>) = <<>> /\ Decoded(<<>>) = <<>>
        /\ <<>> \in Seq(P) /\ <<>> \in Seq(Members) /\ DOMAIN <<>> = {}
    BY RequestFolds
  <2>2. TextOf(<<>>, <<>>)
    BY <2>1 DEF TextOf, WellFormed, Clean, Names
  <2> QED
    BY <2>1, <2>2
<1>2. ASSUME NEW q \in Seq(P), NEW p \in P, q \in T PROVE Append(q, p) \in T
  <2>1. SendTable(Append(q, p)) = SendItem(SendTable(q), p)
    BY RequestFolds
  <2>2. Append(q, p) \in Seq(P) /\ Fits(q)
    BY <1>2
  <2>3. /\ SendItem(SendTable(q), p) \in Seq(Members)
        /\ TextOf(Append(q, p), SendItem(SendTable(q), p))
    BY <2>2, SendItemOf
  <2> QED
    BY <2>1, <2>2, <2>3
<1>3. Seq(P) \subseteq T
  <2> HIDE DEF T, P
  <2> QED
    BY <1>1, <1>2, Writing!ListInduction
<1> QED
  BY <1>3

-----------------------------------------------------------------------------
\* A query arrives: always readable, with the last value of each name.
LEMMA QueryArrives ==
  ASSUME NEW query \in Seq(PairsOver({"plain", "quoted"}))
  PROVE  LET map == Decoded(SendTable(ParseGetArgs(query)))
         IN  /\ WellFormed(SendTable(ParseGetArgs(query)))
             /\ { Lower(k) : k \in DOMAIN map } = { Lower(k) : k \in Names(query) }
             /\ \A k \in DOMAIN map : map[k] = LastOf(query, k)
<1> DEFINE values == {"plain", "quoted"}
<1> DEFINE tbl == ParseGetArgs(query)
<1> DEFINE text == SendTable(tbl)
<1> DEFINE map == Decoded(text)
<1>1. tbl \in Seq(PairsOver(values)) /\ TableOf(query, tbl)
  BY QueryTable
<1> HIDE DEF tbl
<1>2. \A i \in DOMAIN tbl : tbl[i] \in PairsOver(values)
  BY <1>1
<1>3. tbl \in Seq(PairsOver(Strings))
  <2>1. PairsOver(values) \subseteq PairsOver(Strings)
    BY DEF PairsOver, Strings
  <2> QED
    BY <1>1, <2>1
<1>4. Clean(tbl)
  BY <1>2 DEF Clean, PairsOver
<1>5. TextOf(tbl, text)
  BY <1>3, TableText
<1> HIDE DEF text
<1>6. WellFormed(text) /\ DOMAIN map = Names(tbl)
  BY <1>4, <1>5 DEF TextOf
<1>7. ASSUME NEW k \in DOMAIN map
      PROVE  /\ map[k] = LastOf(query, k)
             /\ \E n \in DOMAIN query : Lower(query[n].key) = Lower(k)
  <2>1. PICK n \in DOMAIN tbl : LastNamed(tbl, n, k) /\ map[k] = tbl[n].value
    BY <1>5, <1>6 DEF TextOf
  <2>2. tbl[n].key = k
    BY <2>1 DEF LastNamed
  <2>3. PICK i \in DOMAIN query : LastFor(query, i, k) /\ tbl[n].value = query[i].value
    BY <1>1, <2>2 DEF TableOf
  <2>4. DOMAIN query \subseteq Nat
    OBVIOUS
  <2>5. \A j : LastFor(query, j, k) => j = i
    BY <2>3, <2>4 DEF LastFor
  <2>6. (CHOOSE j \in DOMAIN query :
           /\ Lower(query[j].key) = Lower(k)
           /\ \A l \in DOMAIN query : Lower(query[l].key) = Lower(k) => l <= j) = i
    BY <2>3, <2>5 DEF LastFor
  <2>7. LastOf(query, k) = query[i].value
    BY <2>6 DEF LastOf
  <2> QED
    BY <2>1, <2>3, <2>7 DEF LastFor
<1>8. \A k \in DOMAIN map : \E l \in Names(query) : Lower(k) = Lower(l)
  BY <1>7 DEF Names
<1>9. ASSUME NEW l \in Names(query) PROVE \E k \in DOMAIN map : Lower(k) = Lower(l)
  <2>1. PICK n \in DOMAIN query : l = query[n].key
    BY DEF Names
  <2>2. PICK i \in DOMAIN tbl : Lower(tbl[i].key) = Lower(query[n].key)
    BY <1>1 DEF TableOf
  <2>3. tbl[i].key \in DOMAIN map
    BY <1>6 DEF Names
  <2> QED
    BY <2>1, <2>2, <2>3
<1> HIDE DEF map
<1>10. { Lower(k) : k \in DOMAIN map } = { Lower(k) : k \in Names(query) }
  BY <1>8, <1>9
<1> QED
  BY <1>6, <1>7, <1>10 DEF map, text, tbl

\* A list and its reverse have the same pairs, and the last of the one is the first
\* of the other.
LEMMA Reversed ==
  ASSUME NEW form \in Seq(PairsOver(Strings))
  PROVE  /\ Reverse(form) \in Seq(PairsOver(Strings))
         /\ DOMAIN Reverse(form) = DOMAIN form
         /\ \A i \in DOMAIN form : /\ Len(form) - i + 1 \in DOMAIN form
                                  /\ Reverse(form)[i] = form[Len(form) - i + 1]
                                  /\ form[i] = Reverse(form)[Len(form) - i + 1]
<1>1. DOMAIN form = 1 .. Len(form) /\ Len(form) \in Nat
  OBVIOUS
<1>2. \A i \in 1 .. Len(form) : /\ Len(form) - i + 1 \in 1 .. Len(form)
                                /\ Len(form) - (Len(form) - i + 1) + 1 = i
                                /\ form[i] \in PairsOver(Strings)
  BY <1>1
<1>3. Reverse(form) = [i \in 1 .. Len(form) |-> form[Len(form) - i + 1]]
  BY DEF Reverse
<1>4. Reverse(form) \in [1 .. Len(form) -> PairsOver(Strings)]
  BY <1>2, <1>3
<1>5. Reverse(form) \in Seq(PairsOver(Strings))
  BY <1>1, <1>4
<1> QED
  BY <1>1, <1>2, <1>3, <1>5

\* A form arrives, if no value has a control character, with the first value of each
\* name.
LEMMA FormArrives ==
  ASSUME NEW form \in Seq(PairsOver(Strings))
  PROVE  LET map == Decoded(SendPostData(form))
         IN  /\ WellFormed(SendPostData(form)) <=> Clean(form)
             /\ DOMAIN map = Names(form)
             /\ \A k \in DOMAIN map : map[k] = FirstOf(form, k)
<1> DEFINE back == Reverse(form)
<1> DEFINE text == SendPostData(form)
<1> DEFINE map == Decoded(text)
<1> DEFINE Facing(i) == Len(form) - i + 1
<1>1. /\ back \in Seq(PairsOver(Strings)) /\ DOMAIN back = DOMAIN form
      /\ \A i \in DOMAIN form : /\ Facing(i) \in DOMAIN form
                               /\ back[i] = form[Facing(i)] /\ form[i] = back[Facing(i)]
  BY Reversed
<1> HIDE DEF back
<1>2. TextOf(back, text)
  BY <1>1, TableText DEF SendPostData, back
<1>3. DOMAIN form \subseteq Nat /\ Len(form) \in Nat
  OBVIOUS
<1>4. \A i, j \in DOMAIN form : i <= Facing(j) => j <= Facing(i)
  BY <1>3
<1> HIDE DEF Facing, text
<1>5. Clean(back) <=> Clean(form)
  <2>1. ASSUME Clean(form), NEW i \in DOMAIN back PROVE back[i].value # "control"
    <3>1. Facing(i) \in DOMAIN form /\ back[i] = form[Facing(i)]
      BY <1>1
    <3> QED
      BY <2>1, <3>1 DEF Clean
  <2>2. ASSUME Clean(back), NEW i \in DOMAIN form PROVE form[i].value # "control"
    <3>1. Facing(i) \in DOMAIN back /\ form[i] = back[Facing(i)]
      BY <1>1
    <3> QED
      BY <2>2, <3>1 DEF Clean
  <2> QED
    BY <2>1, <2>2 DEF Clean
<1>6. Names(back) = Names(form)
  <2>1. ASSUME NEW k \in Names(back) PROVE k \in Names(form)
    <3>1. PICK i \in DOMAIN back : k = back[i].key
      BY DEF Names
    <3>2. Facing(i) \in DOMAIN form /\ k = form[Facing(i)].key
      BY <1>1, <3>1
    <3> QED
      BY <3>2 DEF Names
  <2>2. ASSUME NEW k \in Names(form) PROVE k \in Names(back)
    <3>1. PICK i \in DOMAIN form : k = form[i].key
      BY DEF Names
    <3>2. Facing(i) \in DOMAIN back /\ k = back[Facing(i)].key
      BY <1>1, <3>1
    <3> QED
      BY <3>2 DEF Names
  <2> QED
    BY <2>1, <2>2
<1>7. ASSUME NEW k \in DOMAIN map PROVE map[k] = FirstOf(form, k)
  <2>1. PICK n \in DOMAIN back : LastNamed(back, n, k) /\ map[k] = back[n].value
    BY <1>2 DEF TextOf
  <2>2. Facing(n) \in DOMAIN form /\ form[Facing(n)].key = k /\ map[k] = form[Facing(n)].value
    BY <1>1, <2>1 DEF LastNamed
  <2>3. ASSUME NEW j \in DOMAIN form, form[j].key = k PROVE Facing(n) <= j
    <3>1. Facing(j) \in DOMAIN back /\ back[Facing(j)].key = k
      BY <1>1, <2>3
    <3>2. Facing(j) <= n
      BY <2>1, <3>1 DEF LastNamed
    <3> QED
      BY <1>1, <1>3, <2>1, <3>2 DEF Facing
  <2>4. ASSUME NEW i \in DOMAIN form, form[i].key = k,
               \A j \in DOMAIN form : form[j].key = k => i <= j
        PROVE  i = Facing(n)
    BY <1>3, <2>2, <2>3, <2>4
  <2>5. (CHOOSE i \in DOMAIN form :
           /\ form[i].key = k
           /\ \A j \in DOMAIN form : form[j].key = k => i <= j) = Facing(n)
    BY <2>2, <2>3, <2>4
  <2> QED
    BY <2>2, <2>5 DEF FirstOf
<1> QED
  BY <1>2, <1>5, <1>6, <1>7 DEF TextOf, text

-----------------------------------------------------------------------------
\* What a request has in it, and that there is a request until it is decoded.
LEMMA RequestHas ==
  ASSUME request \in Requests
  PROVE  /\ request.get \in Seq(PairsOver({"plain", "quoted"}))
         /\ request.form # Absent => request.form \in Seq(PairsOver(Strings))
<1>1. \A S : SeqOf(S, MaxParams) \subseteq Seq(S)
  BY MaxParamsAssumption DEF SeqOf
<1> QED
  BY <1>1 DEF Requests

\* The server decodes what the client sent, or drops it for a control character.
LEMMA DecodeArrives ==
  ASSUME request = Nothing \/ request \in Requests, Decode
  PROVE  RequestArrives'
<1> DEFINE form == IF request.form = Absent THEN <<>> ELSE request.form
<1>1. /\ request.get \in Seq(PairsOver({"plain", "quoted"}))
      /\ form \in Seq(PairsOver(Strings))
  <2>1. CASE request = Nothing
    BY <2>1 DEF Nothing
  <2>2. CASE request \in Requests
    BY <2>2, RequestHas
  <2> QED
    BY <2>1, <2>2
<1>2. FormText = SendPostData(form)
  <2>1. CASE request.form = Absent
    <3>1. Reverse(<<>>) = <<>>
      BY DEF Reverse
    <3>2. SendTable(<<>>) = <<>>
      BY RequestFolds
    <3> QED
      BY <2>1, <3>1, <3>2 DEF FormText, SendPostData
  <2>2. CASE request.form # Absent
    BY <2>2 DEF FormText
  <2> QED
    BY <2>1, <2>2
<1>3. UNCHANGED request
  BY DEF Decode
<1> DEFINE query == request.get
<1>4. /\ WellFormed(QueryText)
      /\ { Lower(k) : k \in DOMAIN Decoded(QueryText) } = { Lower(k) : k \in Names(query) }
      /\ \A k \in DOMAIN Decoded(QueryText) : Decoded(QueryText)[k] = LastOf(query, k)
  <2> HIDE DEF query
  <2>1. QueryText = SendTable(ParseGetArgs(query))
    BY DEF QueryText, query
  <2> QED
    BY <1>1, <2>1, QueryArrives DEF query
<1>5. /\ WellFormed(FormText) <=> Clean(form)
      /\ DOMAIN Decoded(FormText) = Names(form)
      /\ \A k \in DOMAIN Decoded(FormText) : Decoded(FormText)[k] = FirstOf(form, k)
  <2> HIDE DEF form
  <2> QED
    BY <1>1, <1>2, FormArrives
<1>6. form' = form /\ query' = query
  BY <1>3
<1>7. CASE WellFormed(QueryText) /\ WellFormed(FormText)
  <2>1. /\ stage' = "decoded"
        /\ received'.get = Decoded(QueryText) /\ received'.form = Decoded(FormText)
    BY <1>7 DEF Decode
  <2> QED
    BY <1>3, <1>4, <1>5, <2>1 DEF RequestArrives
<1>8. CASE ~(WellFormed(QueryText) /\ WellFormed(FormText))
  <2>1. stage' = "unread" /\ ~Clean(form)
    BY <1>4, <1>5, <1>8 DEF Decode
  <2> QED
    BY <1>3, <2>1 DEF RequestArrives
<1> QED
  BY <1>7, <1>8

\* Every other step leaves a request that was decoded or dropped as it is, or is
\* done with it.
LEMMA ArrivesStep ==
  ASSUME ExchangeTypeOK, RequestArrives, [ExchangeNext]_exchangeVars
  PROVE  RequestArrives'
<1>1. CASE Decode
  BY <1>1, DecodeArrives DEF ExchangeTypeOK
<1>2. CASE \/ SendRequest \/ SendFails \/ Answer \/ AnswerUnread \/ TimeUp
           \/ StartPage \/ Kill
  BY <1>2 DEF SendRequest, SendFails, Answer, AnswerUnread, TimeUp, StartPage, Kill, Fail,
              RequestArrives
<1>3. CASE \/ Connection \/ Page \/ Deadline \/ AllOver \/ UNCHANGED exchangeVars
  <2>1. UNCHANGED <<stage, request, received>> /\ (mishap' = "none" => mishap = "none")
    BY <1>3 DEF Connection, Page, Deadline, AllOver, exchangeVars, wireVars
  <2> QED
    BY <2>1 DEF RequestArrives
<1> QED
  BY <1>1, <1>2, <1>3 DEF ExchangeNext, ModuleStep, ServerStep

\* Nothing has been decoded or dropped in the beginning.
LEMMA ArrivesInit == ExchangeInit => RequestArrives
  BY DEF ExchangeInit, RequestArrives

-----------------------------------------------------------------------------
\* The invariants hold of the whole exchange.
THEOREM Exchanging == ExchangeSpec => []MInv
<1>1. ExchangeInit => MInv
  BY XInit, TypesInit, EndInit, ToldInit, MeantInit DEF MInv
<1>2. MInv /\ [ExchangeNext]_exchangeVars => MInv'
  <2> SUFFICES ASSUME MInv, [ExchangeNext]_exchangeVars PROVE MInv'
    OBVIOUS
  <2>1. XInv'
    BY XStep DEF MInv
  <2> QED
    BY <2>1, TypesStep, EndStep, ToldStep, MeantStep DEF MInv
<1> QED
  BY <1>1, <1>2, PTL DEF ExchangeSpec

\* Every variable has its type, and the client has an answer just when the module
\* has come to its end.
THEOREM ExchangeTypes == ExchangeSpec => []ExchangeTypeOK
<1>1. MInv => ExchangeTypeOK
  BY DEF MInv
<1> QED
  BY <1>1, Exchanging, PTL

\* When nothing goes wrong between the processes, the client is shown what the
\* page asked for, be its metadata as long as it will: the last status, the fields
\* since the last that replaces the others, the last MIME type, and the whole text
\* with status 200 (comm.c:433-478, serve.go:45-51).
THEOREM AnswersMatchPages == ExchangeSpec => []AnswerMatchesPage
  BY Exchanging, MeantImplies, PTL

\* Whatever becomes of the connection and the server, the server means to answer 500
\* and without text for a page that panics (boilerplate.go:19-25, gosp.go:87-99).
THEOREM ExchangeHidesPanic == ExchangeSpec => []PanicHidesPage
<1>1. MInv => PanicHidesPage
  BY PageImplies DEF MInv, XInv
<1> QED
  BY <1>1, Exchanging, PTL

\* The module shows no text of a page that has not come to its end or asked for
\* another status than 200, be the server killed or the connection cut off at
\* any byte (serve.go:45-51, comm.c:474-478).
THEOREM NoTextIsFalse == ExchangeSpec => []NoFalseText
<1>1. MInv => NoFalseText
  BY DEF MInv, XInv, AnswerIsMeant, Meant, NoFalseText
<1> QED
  BY <1>1, Exchanging, PTL

\* The page gets one value for every parameter that the client sent and gets no
\* others, the last of a query's and the first of a form's, however long these are;
\* only a control character in a form keeps it from getting them (gosp.go:39-40,
\* comm.c:53-77, 94-116, 127-225).
THEOREM RequestsArrive == ExchangeSpec => []RequestArrives
<1>1. ExchangeInit => RequestArrives
  BY ArrivesInit
<1>2. ExchangeTypeOK /\ RequestArrives /\ [ExchangeNext]_exchangeVars => RequestArrives'
  BY ArrivesStep
<1> QED
  BY <1>1, <1>2, ExchangeTypes, PTL DEF ExchangeSpec
=============================================================================
