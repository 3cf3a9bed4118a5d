------------------------------ MODULE Exchange -------------------------------
(***************************************************************************)
(* One page request over the socket between the Apache module and a        *)
(* gosp-server, from end to end: the module writes the request as JSON     *)
(* (send_request, comm.c), the server decodes it and runs the page         *)
(* (StartServer's goroutine, serve.go:137-175, and PageGen, which this     *)
(* module extends), and the module reads the answer's metadata and text    *)
(* (receive_response and process_response).  The process may be killed and *)
(* the connection may reach its deadline at any moment.                    *)
(*                                                                         *)
(* A string is what escaping makes a difference to: "plain", "quoted" (it  *)
(* holds a quotation mark or a backslash) or "control" (it holds a control *)
(* character, such as the end of a line).                                  *)
(***************************************************************************)
EXTENDS PageGen, SequencesExt

CONSTANTS
    Low,        \* the statuses below 100
    Kind,       \* what a piece of metadata in Fields is: "set" or "add" (with
                \*   or without replacement), "bad" (it has no name), "mime"
    Params,     \* names of parameters in a query or form
    MaxParams,  \* bound: how many of them a request has
    Absent      \* no form, no answer

ASSUME MaxParamsAssumption == MaxParams \in Nat

FieldKinds == {"set", "add", "bad", "mime"}
ASSUME KindAssumption == Kind \in [Fields -> FieldKinds]
ASSUME LowAssumption  == Low \subseteq Others

\* What the module can tell Apache.  Absent is none of it, and no line either.
Answers == [status : Statuses, fields : Seq(Fields), mime : Fields \cup {Absent},
            text : 0 .. NoBody]
ASSUME AbsentAssumption == Absent \notin Answers \cup Statuses \cup Notes \cup {"end"}

VARIABLES
    stage,      \* where the request is: "send", "sent", "decoded", "page",
                \*   "unread" (not decoded), "answered", or "alone": no module
    request,    \* the parameters the client sent
    received,   \* those the server decoded
    mishap,     \* what went wrong between the two processes, or "none"
    cut,        \* what of the answer reached the module before that
    said,       \* history: all metadata the page's goroutine has sent
    answer      \* what the module tells Apache

wireVars     == <<stage, request, received, mishap, cut, said, answer>>
exchangeVars == <<vars, wireVars>>

-----------------------------------------------------------------------------
(***************************************************************************)
(* The request.                                                            *)
(***************************************************************************)
Strings == {"plain", "quoted", "control"}
Pair(k, v) == [key |-> k, value |-> v]

\* Mutant of EscapeForJson.
EscapeNothing(string) == string

\* escape_for_json: quotation marks and backslashes only.
EscapeForJson(string) == IF string = "quoted" THEN "escaped" ELSE string

\* What encoding/json makes of a string in the text, if it can read it.
Readable(text) == text \in {"plain", "escaped"}
Unescape(text) == IF text = "escaped" THEN "quoted" ELSE text

Comma == Pair("comma", "comma")
Member(p) == <<Pair(p.key, EscapeForJson(p.value))>>

\* Mutant of SendTable: a comma before every pair.
CommaBefore(pairs) == FoldLeft(LAMBDA text, p : text \o <<Comma>> \o Member(p), <<>>, pairs)

\* send_table_item, for every pair of a table: a comma before all but the first.
SendItem(text, p) == text \o (IF text = <<>> THEN <<>> ELSE <<Comma>>) \o Member(p)
SendTable(pairs)  == FoldLeft(SendItem, <<>>, pairs)

\* send_post_data pops the pairs off the array of ap_parse_form_data.
SendPostData(pairs) == SendTable(Reverse(pairs))

\* The names of parameters that apr_table_set takes for the same, and what it
\* does to a table.
Lower(k) == IF k = "A" THEN "a" ELSE k
\* Mutant of TableSet: apr_table_add.
TableAdd(tbl, p) == Append(tbl, p)
TableSet(tbl, p) ==
    IF \E i \in DOMAIN tbl : Lower(tbl[i].key) = Lower(p.key)
    THEN [i \in DOMAIN tbl |-> IF Lower(tbl[i].key) = Lower(p.key)
                               THEN [tbl[i] EXCEPT !.value = p.value] ELSE tbl[i]]
    ELSE Append(tbl, p)

\* parse_get_args, for the parameters between the ampersands.
ParseGetArgs(query) == FoldLeft(TableSet, <<>>, query)

\* A JSON object decoded into a map: members and commas in turn, and the last
\* of several members with one name counts.
WellFormed(text) == \A i \in DOMAIN text :
                       IF i % 2 = 0 THEN text[i] = Comma
                       ELSE text[i] # Comma /\ Readable(text[i].value)
ReadMember(map, m) ==
    IF m = Comma THEN map
    ELSE [k \in DOMAIN map \cup {m.key} |->
            IF k = m.key THEN Unescape(m.value) ELSE map[k]]
Decoded(text) == FoldLeft(ReadMember, << >>, text)

PairsOver(values) == [key : Params, value : values]
Nothing  == [get |-> <<>>, form |-> Absent]
Requests == [get  : SeqOf(PairsOver({"plain", "quoted"}), MaxParams),
             form : {Absent} \cup SeqOf(PairsOver(Strings), MaxParams)]

\* The two objects among what send_request writes, section by section.  The
\* other fields and tables are written the same way.
QueryText == SendTable(ParseGetArgs(request.get))
FormText  == IF request.form = Absent THEN <<>> ELSE SendPostData(request.form)

-----------------------------------------------------------------------------
ExchangeInit ==
    /\ Init
    /\ stage = IF writer = "mod-gosp" THEN "send" ELSE "alone"
    /\ request \in IF writer = "mod-gosp" THEN Requests ELSE {Nothing}
    /\ received = Nothing
    /\ mishap = "none"
    /\ cut = Absent
    /\ said = <<>>
    /\ answer = Absent

\* simple_request_response returns GOSP_STATUS_FAIL: the client gets a 500.
Refused == [status |-> Failed, fields |-> <<>>, mime |-> Absent, text |-> NoBody]
Fail(why) == /\ stage' = "answered"
             /\ answer' = Refused
             /\ mishap' = why
             /\ request' = Nothing /\ received' = Nothing
             /\ UNCHANGED <<vars, cut, said>>

SendRequest ==
    /\ stage = "send"
    /\ stage' = "sent"
    /\ UNCHANGED <<vars, request, received, mishap, cut, said, answer>>

\* The form is too large or cannot be read, or the connection is closed while
\* the module waits for the client to send the form.
SendFails == stage = "send" /\ Fail("unsent")

Decode ==
    /\ stage = "sent" /\ main = "debug"
    /\ IF WellFormed(QueryText) /\ WellFormed(FormText)
       THEN /\ stage' = "decoded"
            /\ received' = [get |-> Decoded(QueryText), form |-> Decoded(FormText)]
       ELSE /\ stage' = "unread"
            /\ UNCHANGED received
    /\ UNCHANGED <<vars, request, mishap, cut, said, answer>>

\* The server changes its directory, or ends where it cannot (chdirOrAbort).
\* What the parameters are is forgotten: no page in this model looks at them.
StartPage ==
    /\ stage = "decoded" /\ main = "debug"
    /\ stage' = "page"
    /\ request' = Nothing /\ received' = Nothing
    /\ UNCHANGED <<vars, mishap, cut, said, answer>>

\* Steps of the page and of the connection's goroutine, which go on when the
\* module has given up.
PageStarted == \/ stage \in {"page", "alone"}
               \/ stage = "answered" /\ mishap \notin {"unsent", "unread"}
Page ==
    /\ PageStarted
    /\ main # "crashed" /\ GenStep
    /\ said' = IF Len(meta') > Len(meta) THEN Append(said, meta'[Len(meta')]) ELSE said
    /\ UNCHANGED <<stage, request, received, mishap, cut, answer>>
Connection ==
    /\ PageStarted
    /\ MainStep
    /\ UNCHANGED wireVars

\* What the server has written so far, perhaps with a part of the line or text
\* it is writing.
SoFar == [lines |-> output, part |-> Absent, header |-> header, body |-> body]
InHand == IF meta # <<>> THEN {Head(meta)} ELSE IF closed THEN {"end"} ELSE {}
CutOff == {SoFar}
            \cup (IF main = "read" THEN {[SoFar EXCEPT !.part = line] : line \in InHand} ELSE {})
            \cup (IF main = "body" /\ SendsText
                  THEN {[SoFar EXCEPT !.body = n] : n \in 0 .. html} ELSE {})

\* The module, or anybody else, kills the server, or it ends by itself.
Kill ==
    /\ stage \in {"sent", "decoded", "page"}
    /\ main \in {"debug", "read", "body"}
    /\ main' = "crashed"
    /\ cut' \in IF cut = Absent THEN CutOff ELSE {cut}
    /\ mishap' = "killed"
    /\ stage' \in {"page"} \cup (IF stage = "sent" THEN {"unread"} ELSE {})
    /\ request' = Nothing /\ received' = Nothing
    /\ UNCHANGED <<writer, meta, closed, status, output, header, body, genVars,
                   said, answer>>

\* Ten seconds after it was accepted the connection takes no more data: output and
\* body stay what the server gave it, and cut is what came through of that.
Deadline ==
    /\ stage = "page" /\ mishap = "none"
    /\ main \in {"debug", "read", "body"}
    /\ cut' \in CutOff
    /\ mishap' = "late"
    /\ UNCHANGED <<vars, stage, request, received, said, answer>>

-----------------------------------------------------------------------------
(***************************************************************************)
(* The answer.                                                             *)
(***************************************************************************)
\* Mutant of AssignField: "true" is taken for "false".
AlwaysAdd(fields, f) == Append(fields, f)

\* process_field_assignment, for fields of one name.
AssignField(fields, f) == IF Kind[f] = "set" THEN <<f>> ELSE Append(fields, f)

\* Lines on which process_response gives up.  A heartbeat has a blank after
\* its name, where the module expects none.
Rejected(item) == item \in Low \cup {"alive"} \/ (item \in Fields /\ Kind[item] = "bad")

\* One turn of the loop in process_response, on the answer as it was.
Take(ans, item) ==
    CASE item \in Statuses -> [ans EXCEPT !.status = item]
      [] item \in Fields   -> IF Kind[item] = "mime" THEN [ans EXCEPT !.mime = item]
                              ELSE [ans EXCEPT !.fields = AssignField(ans.fields, item)]
      [] OTHER             -> ans

\* Text is passed on with status 200 and after the end of the metadata only.
PassesText(got, ans) == got.header /\ ans.status = Okay

\* What the loop makes of the lines, from no fields and status 200.
ReadLines(lines) == FoldLeft(Take, [Refused EXCEPT !.status = Okay], lines)

ProcessResponse(got) ==
    LET ans == ReadLines(got.lines)
    IN  IF \E i \in DOMAIN got.lines : Rejected(got.lines[i])
        THEN Refused
        ELSE [status |-> ans.status, fields |-> ans.fields, mime |-> ans.mime,
              text |-> IF PassesText(got, ans) THEN got.body ELSE NoBody]

\* A part of a line is no line that the module knows, or is one of no effect,
\* or has enough of its value.
Outcomes(got) ==
    CASE got.part = Absent -> {ProcessResponse(got)}
      [] got.part = "end"  -> {Refused}
      [] OTHER -> {Refused, ProcessResponse(got),
                   ProcessResponse([got EXCEPT !.lines = Append(@, got.part)])}

\* receive_response reads to the end of the connection, and process_response
\* makes an answer of it.
Answer ==
    /\ stage = "page" /\ main \in {"done", "crashed"}
    /\ stage' = "answered"
    /\ answer' \in Outcomes(IF cut = Absent THEN SoFar ELSE cut)
    /\ UNCHANGED <<vars, request, received, mishap, cut, said>>

\* The server closes a connection it has not read to the end: the module finds
\* out when it writes or reads, or reads an empty answer if all was read.
AnswerUnread ==
    /\ stage = "unread"
    /\ \/ Fail("unread")
       \/ /\ stage' = "answered"
          /\ answer' = ProcessResponse(SoFar)
          /\ mishap' = "unread"
          /\ request' = Nothing /\ received' = Nothing
          /\ UNCHANGED <<vars, cut, said>>

\* Mutant of TimeUp: no limit is set on the socket.
NoTimeUp == stage = "page" /\ main = "done" /\ Fail("timeup")

\* 600 seconds without a sign of the server (receive_response).
TimeUp == stage = "page" /\ main \in {"debug", "read", "body"} /\ Fail("timeup")

\* Both processes are through with the request.
AllOver == /\ stage \in {"answered", "alone"}
           /\ Over \/ mishap \in {"unsent", "unread"}
           /\ UNCHANGED exchangeVars

ModuleStep == SendRequest \/ SendFails \/ Answer \/ AnswerUnread \/ TimeUp
ServerStep == Decode \/ StartPage \/ Connection
ExchangeNext == ModuleStep \/ ServerStep \/ Page \/ Kill \/ Deadline \/ AllOver

ExchangeSpec == ExchangeInit /\ [][ExchangeNext]_exchangeVars

\* The goroutines and the module run on.
ExchangeFairSpec == /\ ExchangeSpec
                    /\ WF_exchangeVars(ServerStep) /\ WF_exchangeVars(Page)
                    /\ WF_exchangeVars(ModuleStep)

-----------------------------------------------------------------------------
\* Every variable has its type, and there is an answer just when the module has
\* come to its end.
ExchangeTypeOK ==
    /\ TypeOK
    /\ stage \in {"send", "sent", "decoded", "unread", "page", "answered", "alone"}
    /\ request = Nothing \/ request \in Requests
    /\ mishap \in {"none", "unsent", "unread", "killed", "late", "timeup"}
    /\ cut # Absent => cut.lines \in Seq(Statuses \cup Notes) /\ cut.body \in 0 .. NoBody
    /\ said \in Seq(Statuses \cup Notes)
    /\ answer # Absent => answer \in Answers
    /\ (answer # Absent) = (stage = "answered")

\* "{Key, value} pairs sent by a GET request" and by a POST request (gosp.go:39
\* and 40): the page gets one value for every parameter and gets no others.
\* Of several values it gets the last of the query, where the names may differ
\* in case, and the first of the form.  Only a control character keeps it from
\* getting them (comm.c:53-77, 94-116, 173-176).
LastOf(pairs, k)  == pairs[CHOOSE i \in DOMAIN pairs :
                             /\ Lower(pairs[i].key) = Lower(k)
                             /\ \A j \in DOMAIN pairs :
                                  Lower(pairs[j].key) = Lower(k) => j <= i].value
FirstOf(pairs, k) == pairs[CHOOSE i \in DOMAIN pairs :
                             /\ pairs[i].key = k
                             /\ \A j \in DOMAIN pairs : pairs[j].key = k => i <= j].value
Names(pairs)      == { pairs[i].key : i \in DOMAIN pairs }
Clean(pairs)      == \A i \in DOMAIN pairs : pairs[i].value # "control"
RequestArrives ==
    LET form == IF request.form = Absent THEN <<>> ELSE request.form
    IN  /\ stage = "decoded" =>
             /\ { Lower(k) : k \in DOMAIN received.get } = { Lower(k) : k \in Names(request.get) }
             /\ \A k \in DOMAIN received.get : received.get[k] = LastOf(request.get, k)
             /\ DOMAIN received.form = Names(form)
             /\ \A k \in DOMAIN received.form : received.form[k] = FirstOf(form, k)
        /\ stage = "unread" /\ mishap = "none" => ~Clean(form)

\* When nothing goes wrong between the processes, the client is shown what the
\* page asked for: the last status, the fields since the last that replaces
\* the others, the last MIME type, and the whole text with status 200; or a
\* 500 if the page sent a line that the module does not take.
Sent(i, kind)     == said[i] \in Fields /\ Kind[said[i]] = kind
FieldsAskedFor    == LET from == { i \in DOMAIN said : Sent(i, "set") }
                     IN  { i \in DOMAIN said :
                             /\ Sent(i, "set") \/ Sent(i, "add")
                             /\ \A j \in from : j <= i }
IsMimeOf(ans)     == LET of == { i \in DOMAIN said : Sent(i, "mime") }
                     IN  IF of = {} THEN ans.mime = Absent
                         ELSE \E i \in of : said[i] = ans.mime /\ \A j \in of : j <= i
AnswerMatchesPage ==
    stage = "answered" /\ mishap = "none" /\ main = "done" =>
      IF \E i \in DOMAIN said : Rejected(said[i])
      THEN answer = Refused
      ELSE /\ answer.status = last
           /\ answer.text = IF last = Okay THEN html ELSE NoBody
           /\ IsMimeOf(answer)
           /\ Len(answer.fields) = Cardinality(FieldsAskedFor)
           /\ \A i \in FieldsAskedFor :
                answer.fields[Cardinality({ j \in FieldsAskedFor : j <= i })] = said[i]

\* Whatever happens to the server and the connection, no text is shown of a
\* page that has not come to its end or that asked for another status in the
\* end, and none is shown beyond what it wrote (serve.go:45-51, comm.c:474-478).
NoFalseText ==
    stage = "answered" /\ answer.text # NoBody =>
      closed /\ last = Okay /\ answer.status = Okay /\ answer.text <= html

\* A client gets an answer, also from a page that never ends (comm.c:497).
AnswerComes == stage = "sent" ~> stage = "answered"

\* "{Key, value} pairs sent by a POST request" (src/src/gosp/gosp.go:39) reach
\* the page: a request that the module could send can be decoded.
EveryRequestIsRead == stage = "unread" => mishap # "none"
=============================================================================
