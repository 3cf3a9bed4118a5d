------------------------------- MODULE PageGen -------------------------------
(***************************************************************************)
(* One page request inside a gosp-server: the goroutine of the connection  *)
(* (LaunchPageGenerator and the metadata writer, serve.go:32-52,           *)
(* write-meta.go) and the goroutine it starts, which runs the page         *)
(* (GospGeneratePage, gosp2go/boilerplate.go, with the functions of        *)
(* package gosp).  They share a buffered channel of metadata and a buffer  *)
(* of page text.                                                           *)
(***************************************************************************)
EXTENDS Naturals, Sequences

CONSTANTS
    Cap,        \* capacity of the channel (serve.go:36)
    Okay,       \* the HTTP status 200
    Failed,     \* the HTTP status 500
    Others,     \* further HTTP statuses a page may set
    Fields,     \* metadata for the HTTP header: MIME types and other fields
    MaxSends,   \* bound: how many pieces of metadata a page sends
    MaxWrites,  \* bound: how many pieces of text a page writes
    TraceLines  \* how many error messages ReportPanic sends

Statuses == {Okay, Failed} \cup Others
\* Further metadata: messages, heartbeats, and what no writer knows.
Notes    == {"debug", "error", "alive", "other"} \cup Fields
Writers  == {"mod-gosp", "raw", "none"}

ASSUME SizeAssumption == /\ Cap \in Nat \ {0}
                         /\ MaxSends \in Nat /\ MaxWrites \in Nat
                         /\ TraceLines \in Nat
ASSUME NameAssumption == /\ Statuses \cap Notes = {}
                         /\ Fields \cap {"debug", "error", "alive", "other"} = {}
                         /\ Okay # Failed

VARIABLES
    writer,     \* p.WriteMetadata, chosen on the command line
    meta,       \* the channel's buffer
    closed,     \* the channel is closed
    main,       \* the connection's goroutine: "debug" (sending its debug
                \*   message), "read", "body", "done", or "crashed"
    status,     \* the status the metadata writer has seen last
    output,     \* the metadata written to the connection so far
    header,     \* the end of the metadata has been written
    body,       \* how much page text was written to it, or NoBody
    gen,        \* the page: "run", "report" (in ReportPanic), "close", "gone"
    html,       \* how much text the page has written to its buffer
    sends,      \* how much metadata the page's own code has sent
    trace,      \* how many error messages ReportPanic has sent
    last        \* history: the last status the page sent

NoBody == MaxWrites + 1     \* no amount of text

mainVars == <<main, status, output, header, body>>
genVars  == <<gen, html, sends, trace, last>>
vars     == <<writer, meta, closed, mainVars, genVars>>

Init == /\ writer \in Writers
        /\ meta = <<>> /\ closed = FALSE
        /\ main = "debug" /\ status = Okay /\ output = <<>> /\ header = FALSE
        /\ body = NoBody
        /\ gen = "run" /\ html = 0 /\ sends = 0 /\ trace = 0 /\ last = Okay

\* Mutant of Send: the channel takes one item too many.
SendBeyond(item) == /\ ~closed
                    /\ Len(meta) <= Cap
                    /\ meta' = Append(meta, item)

\* ch <- item by a goroutine that finds the channel open and not full.  A
\* full channel blocks the sender.
Send(item) == /\ ~closed
              /\ Len(meta) < Cap
              /\ meta' = Append(meta, item)

-----------------------------------------------------------------------------
\* The page.

\* The page's code sends metadata: a status, a field of the header, a message.
SendMeta ==
    /\ gen = "run"
    /\ sends < MaxSends
    /\ \E item \in Statuses \cup Notes :
         /\ Send(item)
         /\ last' = IF item \in Statuses THEN item ELSE last
    /\ sends' = sends + 1
    /\ UNCHANGED <<writer, closed, mainVars, gen, html, trace>>

\* The page's code writes text.
Write ==
    /\ gen = "run"
    /\ html < MaxWrites
    /\ html' = html + 1
    /\ UNCHANGED <<writer, meta, closed, mainVars, gen, sends, trace, last>>

\* The page's code returns, and the deferred function finds no panic.
Return ==
    /\ gen = "run"
    /\ gen' = "close"
    /\ UNCHANGED <<writer, meta, closed, mainVars, html, sends, trace, last>>

\* The page's code panics, and the deferred function calls ReportPanic.
Panic ==
    /\ gen = "run"
    /\ gen' = "report"
    /\ UNCHANGED <<writer, meta, closed, mainVars, html, sends, trace, last>>

\* ReportPanic sends the message and the stack, line by line ...
ReportLine ==
    /\ gen = "report"
    /\ trace < TraceLines
    /\ Send("error")
    /\ trace' = trace + 1
    /\ UNCHANGED <<writer, closed, mainVars, gen, html, sends, last>>

\* Mutant of ReportStatus: the status is left as the page had it.
ReportNoStatus ==
    /\ gen = "report"
    /\ trace = TraceLines
    /\ gen' = "close"
    /\ UNCHANGED <<writer, meta, closed, mainVars, html, sends, trace, last>>

\* Mutant of ReportStatus: the channel is not closed after a panic.
ReportAndVanish ==
    /\ gen = "report"
    /\ trace = TraceLines
    /\ Send(Failed)
    /\ last' = Failed
    /\ gen' = "gone"
    /\ UNCHANGED <<writer, closed, mainVars, html, sends, trace>>

\* ... and, last, the status.
ReportStatus ==
    /\ gen = "report"
    /\ trace = TraceLines
    /\ Send(Failed)
    /\ last' = Failed
    /\ gen' = "close"
    /\ UNCHANGED <<writer, closed, mainVars, html, sends, trace>>

\* The deferred function closes the channel, panic or no panic.
Close ==
    /\ gen = "close"
    /\ closed' = TRUE
    /\ gen' = "gone"
    /\ UNCHANGED <<writer, meta, mainVars, html, sends, trace, last>>

GenStep == \/ SendMeta \/ Write \/ Return \/ Panic
           \/ ReportLine \/ ReportStatus \/ Close

-----------------------------------------------------------------------------
\* The connection's goroutine.

\* LaunchPageGenerator sends its own debug message, to a channel it alone
\* reads but does not read yet.
SendDebug ==
    /\ main = "debug"
    /\ Send("debug")
    /\ main' = "read"
    /\ UNCHANGED <<writer, closed, status, output, header, body, genVars>>

\* A send on a closed channel panics, also one that was blocked when the
\* channel was closed.  No deferred function recovers: the process ends.
DebugPanics ==
    /\ main = "debug"
    /\ closed
    /\ main' = "crashed"
    /\ UNCHANGED <<writer, meta, closed, status, output, header, body, genVars>>

\* What the writer keeps of a piece of metadata.  The raw format has no place
\* for messages and status; "none" is silent.
Keeps(item) == CASE writer = "mod-gosp" -> item # "other"
                 [] writer = "raw"      -> item \in Fields
                 [] writer = "none"     -> FALSE

\* Only metadata that says so changes the status.
StatusAfter(item) == IF item \in Statuses THEN item ELSE status

\* One turn of the writer's loop over the channel.
ReadMeta ==
    /\ main = "read"
    /\ meta # <<>>
    /\ meta' = Tail(meta)
    /\ status' = StatusAfter(Head(meta))
    /\ output' = IF Keeps(Head(meta)) THEN Append(output, Head(meta)) ELSE output
    /\ UNCHANGED <<writer, closed, main, header, body, genVars>>

\* Mutant of LoopEnds: the loop ends when nothing is there to read.
NothingToRead == meta = <<>>

\* The loop ends when the channel is closed and empty.
LoopEnds == closed /\ meta = <<>>
ReadEnd ==
    /\ main = "read"
    /\ LoopEnds
    /\ header' = (writer # "none")
    /\ main' = "body"
    /\ UNCHANGED <<writer, meta, closed, status, output, body, genVars>>

\* The page's text goes out with status 200 only.
SendsText == status = Okay
WriteBody ==
    /\ main = "body"
    /\ body' = IF SendsText THEN html ELSE body
    /\ main' = "done"
    /\ UNCHANGED <<writer, meta, closed, status, output, header, genVars>>

MainStep == SendDebug \/ DebugPanics \/ ReadMeta \/ ReadEnd \/ WriteBody

\* The process has ended, with both goroutines, or both have returned.
Over == main = "crashed" \/ (main = "done" /\ gen = "gone")
Finished == Over /\ UNCHANGED vars

Next == (main # "crashed" /\ GenStep) \/ MainStep \/ Finished

Spec == Init /\ [][Next]_vars

-----------------------------------------------------------------------------
\* Every variable has its type, and the channel holds no more than it can.
TypeOK ==
    /\ writer \in Writers
    /\ meta \in Seq(Statuses \cup Notes) /\ Len(meta) <= Cap
    /\ closed \in BOOLEAN
    /\ main \in {"debug", "read", "body", "done", "crashed"}
    /\ status \in Statuses
    /\ output \in Seq(Statuses \cup Notes)
    /\ header \in BOOLEAN
    /\ body \in 0 .. NoBody
    /\ gen \in {"run", "report", "close", "gone"}
    /\ html \in 0 .. MaxWrites
    /\ sends \in 0 .. MaxSends
    /\ trace \in 0 .. TraceLines
    /\ last \in Statuses

\* What the server gives the connection is the whole text of the page or none of
\* it (Exchange says how much of that gets through): the text is written after the
\* page's code has come to its end, and only if the status the page set last is
\* 200 (serve.go:45-51).
WholePageOrNone ==
    main = "done" => /\ closed
                     /\ last = Okay => body = html
                     /\ last # Okay => body = NoBody

\* The status the metadata ends up with: the one after which none follows.
Reported(s) == \E i \in DOMAIN output :
                  /\ output[i] = s
                  /\ \A j \in DOMAIN output : j > i => output[j] \notin Statuses
\* A page that panics, whatever status it had set and text it had written, is
\* answered 500 and without text (boilerplate.go:19-25, gosp.go:87-99).
PanicHidesPage ==
    main = "done" /\ trace > 0 =>
      /\ body = NoBody
      /\ writer = "mod-gosp" => Reported(Failed)

\* Once the connection's goroutine reads metadata it reads to the end and
\* finishes, unless the process is killed: the page always closes the channel
\* (boilerplate.go:24).
ReaderFinishes == main = "read" ~> main \in {"done", "crashed"}

\* What serve.go:30-31 says of LaunchPageGenerator: it "starts
\* GospGeneratePage in a separate goroutine and waits for it to finish".
\* A page that has finished does not take the server down with it.
SurvivesThePage == main # "crashed"
=============================================================================
