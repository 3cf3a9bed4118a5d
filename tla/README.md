# Go Server Pages in TLA+

A model of [Go Server Pages](https://github.com/spakin/gosp): the Apache module
(`src/module`), the servers it launches (`src/gosp-server`), the page compiler
(`src/gosp2go`) and what of package `gosp` (`src/gosp`) runs inside them; TLC
configurations that check the model on small instances, and TLAPS proofs for
all instances. Paths below are paths of the repository.

## The system

| component | state | operations | interacts through |
|---|---|---|---|
| Apache module, request handling (`module/mod_gosp.c`, `comm.c`, `launch.c`, `utils.c`) | per worker: the request and how far it got; per site: the global mutex | `gosp_handler`, `rebuild_relaunch_retry`: compare mtimes, lock, kill, compile, ping, launch, retry | page, plugin and socket files; Unix-domain sockets; signals; child processes |
| Apache module, configuration (`mod_gosp.c:12-309`) | a record per server and per section | directive handlers, allocation, merging, `gosp_post_config` | arguments of `gosp2go` and `gosp-server` |
| wire protocol (`comm.c:53-281`, `411-573`, `serve.go:137-175`, `write-meta.go`) | one request and its answer | `send_request`, the JSON decoder, `writeModGospMetadata`, `process_response` | the connection |
| gosp-server, process life (`gosp-server.go`, `serve.go:96-181`) | socket file, process | `LoadPlugin`, `StartServer` | socket file, connections, signals |
| gosp-server, accept loop (`serve.go:76-181`) | `done`, the wait group, the kill clock, the socket's queue | the loop, `ResetKillClock`, a goroutine per connection | the above |
| gosp-server, one page request (`serve.go:32-52`, `write-meta.go`, generated code of `gosp2go/boilerplate.go`, `gosp/gosp.go:46-99`) | metadata channel, text buffer, last status | `LaunchPageGenerator`, `write*Metadata`, `GospGeneratePage`, `ReportPanic` | the connection of the request |
| gosp2go (`gosp2go.go`, `utils.go`) | working directory, directory stack, temporary files | `main`, `ProcessGospIncludes`, `ValidateImports`, `Build`, `Run` | page and included files, Go tool chain, plugin file |
| package gosp, `Open` (`gosp/gosp.go:111-191`) | none | `realPath`, `LiesInOrBelow` | file system |

What is hard here: any number of Apache workers act on the same three files per
page without a lock on the common path; servers are launched detached and talk
to nobody when they fail; every wait has its own clock (mutex 10 s, launch 3 s,
exit 1 s, answer 600 s, the server's deadline 10 s, the kill clock); a server
may leave at any moment and take connections with it; inside a server the main
goroutine, one per connection, one per page and the kill clock's share flags, a
wait group and a bounded channel; a request is written by C and read by Go, and
its answer the other way round; `gosp2go` resolves names from a directory that
it changes as it goes; Apache groups the merges of its sections as it likes.
`PROJECT.json` lists each of these hazards with its line and the properties
that watch over it.

What makes each component correct: the mutex is released on every path, a page
is compiled once per version, a request runs its page's code at most once, one
current server per page, an answer that was true at some moment of the request,
every request answered (module and servers); an exit request that is not missed
and does not lose what came before it (accept loop); whole text or none, status
and text in agreement, a panic answered 500, no request that blocks or kills
the server (one page request); the page gets the client's parameters and the
client what the page asked for (protocol); includes stay below the page and are
resolved relative to the including file, and a plugin is replaced by a
successful build only (gosp2go); the merged configuration is the one
`docs/configure.md` promises (configuration).

## Modules

- `GospBase` declares what module and servers share: constants, the kinds of
  faults, all variables, and `ProcessGone`, the end of a process as the kernel
  does it.
- `ModGosp` is the Apache module. `pc[w]` is the point that worker `w` has
  reached in `gosp_handler`; each action is the code from one step that others
  can see (a `stat`, a `connect`, the end of a read, a lock, the start or end of
  a child process, an `unlink`) up to the next, with every early return in
  between. `check`, `fast`, `fastwait` are the common path; `lock` is
  `acquire_global_lock`; `stat` to `retrywait` are `rebuild_relaunch_retry`
  under the mutex, `kill` to `unlink` being `kill_gosp_server`. The retry loop
  is `retry` before its first turn, `again` after a turn in which nobody could be
  connected to, `retrywait` once a request was sent. It gives up (`GiveUp`) after
  a turn of that kind only, and, unless servers are slow to start, only when no
  server of the page is listening or on its way: the loop has thirty turns.
- `GospServer` is the life of each gosp-server: `loading` (exec, `LoadPlugin`),
  `loaded` (about to remove the socket file), `unlinked` (about to listen),
  `listening`, `closing` (an ExitNow request was heard and `done` is set, and the
  accept loop may take one more connection), `draining` (`wg.Wait`), `expired` (the kill
  clock has removed the socket file, `os.Exit` comes next), `free`.
- `Gosp` composes the two, adds the authors who edit and delete pages, and
  states the properties.
- `PageService` is the abstract specification: clients ask, authors rewrite, and
  an answer shows the page as it was at some moment between request and answer,
  or no text. A rewrite may go unnoticed; then an answer may show any text from
  the last one that was `published` before the request to the one there is.
  `Gosp` implements it (`ImplementsService`).
- `ServeLoop` is one server from `Listen` on, goroutine by goroutine: the loop
  (`test`, `accept`, `accepted`, `wait`, `returned`), each connection
  (`decode`, `page`, `reply`, and `flag`, `dial`, `close` after an ExitNow
  answer; what it reads may be no request, and its deadline may pass before the
  request is read or the answer written), the kill clock, the socket's queue in order. Every step of it is a
  step of `GospServer` or none (`ActsAsOneServer`): what `Gosp` assumes of
  servers holds of this code.
- `PageGen` is one page request inside a server: the connection's goroutine,
  the page's goroutine, the channel between them, the three metadata writers.
- `Exchange` extends `PageGen` to the whole way of a request: the module
  writes the parameters (`SendTable`, `ParseGetArgs`, `SendPostData`), the
  server decodes them and runs the page, the module makes an answer of the lines
  and the text it gets (`ProcessResponse`), while the server may be killed, the
  deadline pass and the module's time run out between any two steps.
- `Configuration` reads directives in the order of the file into records
  (`Read` and the `Set...` handlers), merges them as Apache does (`Effective`)
  and ends in what `launch.c` passes on (`Allowed`, `GoPath`, `Replaced`).
- `Gosp2go` is a run of `gosp2go`: `cwd` and `dirStack` beside the files still
  open (`frames`), then the checks, then the build in a temporary directory. The
  output is a file of an absolute or a relative name or the standard output; a
  file or directory that cannot be opened, read or changed to ends the run
  (`FileError`).
- `MCGosp`, `MCServeLoop`, `MCPageGen`, `MCExchange`, `MCConfiguration` and
  `MCGosp2go` are the instances for TLC.
- `GospProofs` and `NominalProofs` (about `Gosp`, the second extending the first),
  `ServeLoopProofs`, `PageGenProofs`, `ExchangeProofs` (extending
  `PageGenProofs`), `ConfigurationProofs` and `Gosp2goProofs` are the proofs;
  `Folding` has the theorems about lists and folds that they use.

### Abstractions

In `Gosp`:

- A page's text is the number of its edits. An mtime comparison is one Boolean,
  `newer[p]`: set by an edit, cleared when gosp2go writes the plugin. A "hidden"
  edit may leave it as it was: one within a tick of the clock or during a
  compilation, one with an old mtime, one of an included file. `published[p]` is
  the last edit that did show; no step of the code depends on it.
- A connection is its fate: queued, accepted (`open`), answered, `cut` (the
  server's end closed early, read as an end of file or as a reset), `reset`.
  Sending is fused with connecting, since the request waits in the socket's
  buffer; decoding is fused with accepting. Which queued connection is accepted
  next is left open here; `ServeLoop` has the queue.
- A connection that the module abandons, after its timeout or an APR call that
  fails (`Abandons`), vanishes; an ExitNow request that a hung server would read
  only after that is a later crash here.
- `is_newer_than` queries two files in one step; if it cannot (-1), the handler
  goes for the mutex without it and to the ping under it (`PassesUnseen`). Under the mutex nobody else
  installs a plugin; without it a compilation that ends in between can only turn
  a 0 into a 1 and send the worker to the test under the mutex.
- The failure of an unlock and the crash of an Apache worker inside the critical
  section are left out. Compilation may fail at any time: a page may have errors.

Faults are constants, so that a run says what it assumes: `crash`, `error` (an
APR call fails), `idle_exit`, `slow_start`, `slow_reply`, `hidden_edit`,
`delete`; their meaning is in `GospBase`. `TimedLock` distinguishes the two
builds of `acquire_global_lock` (`utils.c:127`).

In the other modules:

- `ServeLoop`: a request is what it asks for; `ResetKillClock` on a clock that
  has fired blocks (`stuck`), since a timer made by `AfterFunc` has no channel.
- `Exchange`: a string is `plain`, `quoted` or `control`, which is what escaping
  tells apart; two parameter names stand for one name in two cases. A text is
  the number of its pieces. A line that a kill or the deadline tears is taken as
  unknown, as one of no effect, or as the whole line, whichever way the module
  can read it. Fields of a line stand for header fields of one name. `output` and
  `body` are what the server gives to the connection; what of it gets through a
  kill or a deadline is `cut`. `WholePageOrNone` and `PanicHidesPage` are about
  the former, `NoFalseText` and `AnswerMatchesPage` about what the client sees.
- `Configuration`: `plain` stands for every setting that is one string; the lists
  are sequences of entries that may carry a `+`. The arguments of
  `GospAllowedImports` are a constant (`ImportTexts`), any lists of names with
  `ALL` and `NONE` among them; an empty element, which gosp2go rejects, is left
  out. `gosp_post_config` may fail to make the directory, to create the mutex or
  to set its permissions. A context that is not around the
  page (a section of the other server) counts as one without a record, which
  Apache's merges pass over (`Held`, `Along`).
- `Gosp2go`: a page is its inclusions, imports and declarations. `files[d]` is
  the output file in directory `d`; an output that is not a file has none. A name with
  `..` behind a directory that is a symbolic link is left out, because
  `filepath.Abs` and `filepath.Dir` clean it by its letters and the kernel does
  not; the link of the instance is to a file. Names with links are what
  `StaysBelowPage` excludes: a link from outside to a file below the page passes
  the test, and the relative names in that file are then looked up outside.

## Runs

| run | instance | shows |
|---|---|---|
| `all_faults` | 2 workers, 1 page, 2 process IDs, 1 edit, all faults | types; `LockDiscipline`, `CompileEconomy`, `AtMostOnce`, `NeverRollsBack` |
| `nominal` | the same with 2 edits; crashes, idle exits and hidden edits only | `OneServer`, `ServerCurrent`, `KilledMeansGone`, and that `Gosp` implements `PageService` |
| `finish` | 2 workers, 1 process ID, all faults but hidden edits (which no worker notices), untimed mutex, fairness | `RequestsFinish` |
| `serve` | 3 connections, a queue of 2 | `EarlierRequestsComplete` and `ExitEnds`: an exit request loses nothing that came before it and is not missed; `EveryConnectionEnds`; `ActsAsOneServer` |
| `exchange` | channel of 2, 2 sends and 1 write of the page, 4 statuses, 4 fields, 2 parameters | `RequestArrives`, `AnswerMatchesPage`, `NoFalseText`, `AnswerComes`; of the page alone `WholePageOrNone`, `PanicHidesPage`, `ReaderFinishes` |
| `config` | 3 directives over a main server, a virtual host and 2 sections; a package, `ALL` and `NONE`, each with and without `+`, and a list of two | `InnermostDecides`, `ReplacementsAccumulate`, `ImportsWithoutGap`, `GoPathNests`, `RebuildSurvivesWhereSet` |
| `gosp2go` | 4 items per run, depth 2, 5 files in 3 directories, one link; the output in one of two directories, relative, or the standard output | `NestingIsBounded`, `StaysBelowPage`, `PluginsAreAllowed`, `PluginOnSuccessOnly`, `NothingLeftBehind` |
| `cut_off` | as `all_faults`, no fault at all | an edit makes the module kill the server of a page in progress, which is then answered 200 and empty |
| `page_crash` | channel of 5 as in the code | a fast page makes the server panic |
| `post_form` | as `exchange` | a form with a line break in a field is dropped |
| `imports` | as `config`, with the simplest lists only | a list that begins with `+` allows everything |
| `includes_cwd` | as `gosp2go` | after an inclusion from a subdirectory, names are looked up there |

Bounds.

- `Gosp`: two workers are enough for one to be anywhere in the critical section
  while the other takes any path; two processes for an old and a new server of
  the same page (with none free a launch fails, as `fork` does); two edits for
  one edit before and one during a rebuild. Requests are not bounded: an idle
  worker may always take another.
- `ServeLoop`: with three connections one may come before an exit request and
  one after it, or two exit requests meet a page; with a queue of two the dummy
  connection may find it full, and a client cannot connect while it is.
  Connections are made in the order of their numbers, which only names them.
- `Exchange`: a channel of two that two sends, the debug message and a panic
  overfill, so that either side blocks; a status that the module takes for 200,
  for another, for a failure of the page, and one it rejects; a field that
  replaces, one that adds, one without a name, and a MIME type. Two parameters
  are the least that meet in a table or need a comma.
- `Configuration`: three directives fill a parent, a child and a record between
  them; section and server may each be without a record.
- `Gosp2go`: depth 2 stands for the 10 of the code, and is reached by the page
  and two inclusions with an item left; `head` and `foot` exist beside the page
  and below it, so that a wrong directory finds a wrong file.

`CHECK_DEADLOCK FALSE` where the system may stop: in `PageGen` and `Exchange` a
page can fill the channel before the debug message is in it and both goroutines
then wait for ever (`serve.go:36`), and in `Configuration` no directive is left.

Why the nominal faults: each of the others voids a nominal property. A server
that starts slowly is taken for dead and a second one launched
(`mod_gosp.c:368`), and a hung server outlives its replacement (`launch.c:225`).
If a page is edited and then deleted while a request for it is under way, or
cannot be queried, the old plugin answers (`is_newer_than` returns -1, which is
not 1). If the retry loop's `connect_socket` fails for want of a resource, a
server is left starting behind the back of the next lock holder. Edits that hide
are among the nominal faults: they go unnoticed themselves, which
`PageService` says, and cost nothing else.

What the properties of the smaller modules leave out is stated with each:
`ExitEnds` asks that the socket file still leads to this server, or the dummy
connection goes elsewhere and the server stays until it is killed;
`ImportsWithoutGap`, `GoPathNests` and `RebuildSurvivesWhereSet` name the
configurations in which the code does what the documents say (`imports` shows
one where it does not); `PluginOnSuccessOnly` is about an absolute `-o`, which
the module gives; `EveryConnectionEnds`, `RequestsFinish` and `AnswerComes` take
a connection that is reset, a 500 and a timeout for an end; `AnswerMatchesPage` is about exchanges without mishap
and `NoFalseText` about all; `AnswerComes` starts when the request is sent.

Fairness.

- `Gosp` (`FairSpec`): a worker in mid-request runs on, and so do the clocks it
  reads (`HandlerStep`, weak); a server between launch and listen, and each
  goroutine of a server, run on (`ServerStep`, `ConnectionStep`, weak); a waiter
  for the mutex is not starved (`LockAcquire`, strong: the build without a
  timeout relies on the kernel for that). Nothing is assumed of arrivals, edits,
  crashes, kill clocks or the end of the accept loop.
- `ServeLoop`: the main goroutine, each connection's, and that of a kill clock
  that has fired are scheduled again and again (weak), and a page's code comes to
  an end: the deadline makes its writes fail, but does not stop it. Nobody has to
  connect, no clock to fire and no process to be killed.
- `Exchange`: the server's goroutines, the page's and the module are scheduled
  (weak); the module's 600 seconds come to an end, which is part of its step.
  The page's own code comes to an end.

`Configuration` and `Gosp2go` have no liveness property, and no fairness.

## Findings

Each violation run is a disagreement between the code and a sentence of the
documentation or of a comment; `PROJECT.json` quotes them. The most serious are
`page_crash` (the send of the debug message races with the page closing the
channel, and losing takes down the server with every request in it) and `imports`
(a `+` without a list to add to allows every package).

Other disagreements that were met while reading and modelling, without a run of
their own:

- The retry loop that gives up answers 200 with nothing (`mod_gosp.c:397`):
  another way to break `OkMeansComplete`, which needs a server that is slow to
  start or that ends before it is connected to.
- A text of `GospAllowedImports` that begins with `+NONE`, or has `NONE` behind
  other entries, undoes what is before it: merged to `os,NONE`, it is read as
  nothing (`params.go:63`), where `docs/configure.md:59` appends to the parent's
  set.
- `kill_gosp_server` reports success for a server that is alive and not
  listening (`launch.c:218-225`).
- ExitNow is answered first (`serve.go:156`), where
  `docs/implementation/back_end_server.md:12` has the answer last.
- A page that fills the channel of five before the debug message is sent hangs
  its connection and itself (`serve.go:36`).
- Without any `GospModReplace` there is no table of replacements, and
  `launch.c:140` follows NULL; so does every rebuild of a virtual host that has
  a directive of its own, whose record has no mutex, and a default work
  directory and user (`mod_gosp.c:296`). `RebuildSurvivesWhereSet` is what holds.
- `GospModReplace` with a module alone deletes from the table of its own context
  and cannot cancel what a parent says, against `docs/configure.md:69`.
- `GospGoCompiler` and `GospServer` are never NULL, so that any directive of
  ours in a section resets them there. A `+` at the front of a `GospGoPath`
  that is not merged is passed on literally.
- `-max-idle` is 5 minutes by default where `docs/configure.md:48` has none; with
  a negative value the first connection ends the server. An `Accept` that fails
  ends it, too.
- A heartbeat line has a blank after its name and is rejected, where
  `comm.c:465` means to ignore it.
- GET parameters: names that differ in case are one, and values are not
  URL-decoded; of several the last counts in a query and the first in a form. A
  client that sends its form slowly meets the server's deadline of ten seconds.
- The limit on inclusions lets 11 files nest where the documents count 10.
- A relative `-o` with `--build` names a file in the temporary directory, which
  is removed (`docs/debugging.md:12`); `notify.Fatal` leaves that directory
  behind; without `--build` the output is emptied before the page is read.

## Proofs

A proof holds for every value of the constants that the `ASSUME`s of its module
admit. Each rests on an inductive invariant, which TLC checked on the instances
above before it was proved. The proofs go by steps of `Next`, and below that by
conjuncts.

**The system under all faults** (`GospProofs`): for any sets of workers, pages
and process IDs, any number of edits and any set of faults, from `NoneAssumption`
(the special values are not workers, processes or numbers): `Typing`, `Mutex`,
`CompilesOnce`, `RunsOnce`, `PluginsAdvance`. They rest on `Invariance`: `IInv`
is inductive. `CompileEconomy` alone is not: that a compilation stays within the
budget needs that it was due when it started (`RebuildIsDue`), that whoever is
not due has budget left (`CompilesCounted`), and that nobody else compiles
meanwhile, which is `LockDiscipline`. `NeverRollsBack` needs that a compilation
in progress is no older than the installed plugin (`BuildsInOrder`), again by
mutual exclusion. `AtMostOnce` needs that a request whose connection is not
accepted yet has not run (`RunsCounted`).

**What is promised when servers are in time** (`NominalProofs`):
`OneServerAtATime`, `ServersAreCurrent` and `KilledServersAreGone`, under
`Timely` (no APR call fails, no server starts or answers too late; servers may
crash and leave at any moment, pages be edited, visibly or not, and deleted).
Under what is excluded each fails, for the reasons given with the bounds. None of
the three is inductive. `NInv` says in addition who may be starting a server: a process that
does not listen yet is awaited by the worker that launched it, which holds the
mutex (`LaunchIsAwaited`); a socket file leads to a process exactly while that
serves its page (`SocketIsServed`); whoever compiles or launches has the page for
itself (`NoneLeft`), because whoever kills or pings asks the only server there is
(`AsksTheServer`), and an answer that ends early means that this one has gone
(`CutByExit`).

**The whole system implements the page service** (`NominalProofs`):
`AnswersInTime` is `Spec => ImplementsService`, under `Timely` and `Kept` (no
deletions). That a plugin which is not newer than its page holds at least the
text published last (`UpToDateAlways`) needs neither: an edit that shows marks
the page, and a compilation reads all that is there. `SInv` follows the text from
the plugin that a worker takes for new enough (`PluginInTime`) through the server it connects to
(`PeersServe`, `PeerInTime`) to the answer (`ShownInTime`). That pages are not
deleted is needed: a page that is edited and then deleted during a request is
answered with the plugin of before the edit.

**A server is what the system takes it for** (`ServeLoopProofs`): `LoopTypes`,
`EarlierOnesComplete` and `ServesAsOne`, the latter `Spec => ActsAsOneServer`: a
goroutine's step is a step of `GospServer` or none, for any number of connections
and any length of the queue. `EarlierRequestsComplete` needs that connections are
made, queued and accepted in one order (`MadeInOrder` to `HandInOrder`) and that
`done` is owed to an exit request that has been accepted (`DoneByExit`): hence
what is still queued is younger than that request. The refinement needs in
addition which goroutine may take which steps (`Goroutines`).

**A page request** (`PageGenProofs`, `ExchangeProofs`): `WholeOrNone`,
`PanicIsHidden` and `PageTypes` of the page alone, and of the exchange, where the
server may be killed and the connection cut at any moment, `ExchangeTypes`,
`ExchangeHidesPanic`, `RequestsArrive`, `AnswersMatchPages` and `NoTextIsFalse`: for a channel of any capacity and pages
that send and write as much as they like. In `PInv` the status that the page set
last is in the channel with no other behind it, or has arrived (`StatusPasses`),
and the text waits for the channel to be closed and empty (`TextComesLast`). In
`XInv` whatever part of an answer got through carries text of a page that had come
to its end. In `MInv` the lines written, followed by what is in the channel, tell
the module what the page has sent (`SaidIsTold`: what the goroutine adds or its
writer drops has no effect there), and what was sent means what the page asked
for (`SaidIsMeant`).

`AnswerMatchesPage` compares a fold over lines of any number with positions among
what was sent, and thus needs induction over lists. A theorem with an operator
parameter cannot be used here, but a module with an operator constant can be
instantiated: `Folding` proves of any `Step(_, _)` and `Base` what `FoldLeft` does
with an empty list, with one element more (`FoldAppend`), with what every step
preserves (`FoldPreserves`), and after two lists with the same outcome
(`FoldContinues`), by induction over sets of numbers, and that a set of lists which
grows by single elements has all lists (`ListInduction`); `ExchangeProofs`
instantiates it with the loop of `process_response`, `apr_table_set`,
`send_table_item` and the decoder of JSON objects, `ConfigurationProofs` with
Apache's merges, gosp2go's `ImportSet.Set` and the three rules of
`docs/configure.md`.

`RequestArrives` compares what the client sent with what three folds in a row make
of it. Each has its own invariant, carried over one parameter more: the table that
`parse_get_args` fills has the names of the query, none twice in any case, and the
last value of each (`TableOf`); the text that `send_table` writes has pairs and
commas in turn, can be read unless a value has a control character, and is read
into a map of the table's names with their last values (`TextOf`). A form is sent
from its end, so that the last value read is the first of the form (`Reversed`).
Once decoded, no step changes a request before the page starts (`ArrivesStep`).

The proof of `AnswerMatchesPage` found two assumptions on constants that the instance had tacitly met.
What stands for a line that is no line (`Absent`) must not be a line or the end of
the header (`AbsentAssumption`), and header fields must not have the names of the
other lines (`NameAssumption`); otherwise the cases of a torn answer overlap.

**The configuration** (`ConfigurationProofs`): `ConfigurationTypes`,
`InnermostOnesDecide`, `ReplacementsReachPages`, `ImportsReachPages`,
`GoPathsNest` and `RebuildsSurvive`, for sections nested as deep as one likes and
any number of directives. In `CInv` the record of each context holds what its
directives say, and a context without a record has said nothing (`Recorded`). The
rest compares two folds over the contexts around a page: Apache's merges, which
join the sections first and the outcome to the server's record last, and what a
reader makes of the directives from the outside to the inside. Three arguments,
each by induction over the sections (`ListInduction`), bridge the grouping:

- Of a value on which one record overrides another as a whole, the innermost
  context decides (`MergesDecide`). This serves `max_idle` and its like, the
  entry of one module in the tables of replacements, and whether there is a table.
- The lists of imports are merged by an operation that is associative
  (`MergeImportsAssociates`), so that the grouping does not matter, as long as
  every record has a list (`SaidPlainly`): merging with a missing list is what
  breaks it. gosp2go then reads the merged list from left to right as the
  directives were meant one by one, as long as `NONE` stands first in its list and
  is not added to a parent's (`NoneComesFirst`): anywhere else it undoes what is
  before it.
- That of GOPATH is not associative: a `+` is lost with the first merge of two
  sections. What the sections make of one another is nothing, a list that replaces
  the server's, or the directory of the one section that adds to it
  (`NothingYet`, `Replacing`, `Adding`), if none adds before another says
  something (`OneAdds`).

They assume that `None` is no value (`NoneAssumption`), that what stands for a
cancelled replacement is no path (`NamesAssumption`), that only the first entry of
a text carries a `+` (`ImportAssumption`) and that sections are not called like
the servers (`SectionsAssumption`).

**gosp2go** (`Gosp2goProofs`): `Gosp2goTypes`, `NestingEnds`,
`InclusionsStayBelow`, `BuiltIsAllowed`, `FailureKeepsPlugin`, `SuccessCleansUp`,
for every tree of files, page, limit and command line; `InclusionsStayBelow` as
far as no inclusion goes through a symbolic link, and `FailureKeepsPlugin` for an
absolute `-o`. `GInv` ties the directory
stack to the open files (`Stacked`), and keeps every directory on it below the
page's as long as no link was followed (`Below`); `Checked` hands the outcome of
one test of `main` to the steps after it, and `Temporaries` says which files each
step may rely on. The directories are assumed to
form a tree (`TreeAssumption`), the limits to be numbers (`DepthAssumption`), and
a name that leads to a file to name it in a directory (`LookupAssumption`).

Only model-checked is liveness: `RequestsFinish`, `ExitEnds`, `EveryConnectionEnds`,
`AnswerComes` and `ReaderFinishes`. The prover has no rule for fairness, since it
does not reason about `ENABLED`. Every other property that a passing run checks is
proved; `WholePageOrNone` of the page alone, since what the server gives to a
connection does not depend on what becomes of that.

## Not modelled

- The crash of an Apache worker inside the critical section, and an unlock that
  fails: what becomes of the mutex depends on the mechanism that APR chose.
- `Open` of package `gosp` for names that do not exist, and the command lines of
  the programs: no state of their own. `gosp-server` with a request from a file
  calls `LaunchPageGenerator`, which `PageGen` has.
- The translation of blocks and expressions into Go text, and wording of
  answers, logs and errors: no property is about them.
- Documentation, examples, build files.
