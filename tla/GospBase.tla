------------------------------ MODULE GospBase ------------------------------
(***************************************************************************)
(* State shared by the two halves of Go Server Pages: the Apache module    *)
(* (module ModGosp, src/src/module) and the gosp-server processes it       *)
(* launches (module GospServer, src/src/gosp-server).  They meet in the    *)
(* file system (page, plugin and socket files), in the process table, in   *)
(* the module's global lock and in the connections to the sockets.         *)
(***************************************************************************)
EXTENDS Integers, FiniteSets

CONSTANTS
    Workers,    \* Apache workers, each serving one HTTP request at a time
    Pages,      \* Go Server Page files
    Pids,       \* process IDs available to gosp-server processes
    MaxEdits,   \* bound: how often each page file is rewritten
    Faults,     \* the mishaps that may happen, a subset of FaultKinds
    TimedLock,  \* was the module built with a timed mutex? (utils.c:127)
    None,       \* no value
    Stale       \* a socket file on which no process listens any more

(***************************************************************************)
(* "crash"       a gosp-server dies (notify.Fatal, an unrecovered panic)   *)
(* "error"       a call into APR fails for want of a resource              *)
(* "idle_exit"   the auto-kill clock of a gosp-server fires                *)
(* "slow_start"  a gosp-server needs over GOSP_LAUNCH_WAIT_TIME to listen  *)
(* "slow_reply"  a request is not read or answered within the 10 s of     *)
(*               serve.go:141, or within GOSP_RESPONSE_TIMEOUT             *)
(* "hidden_edit" page text changes, yet its file does not become newer     *)
(*               than the plugin: an edit during the compilation, within   *)
(*               one mtime tick, or of an included file                    *)
(* "delete"      a page file disappears                                    *)
(***************************************************************************)
FaultKinds == {"crash", "error", "idle_exit", "slow_start", "slow_reply",
               "hidden_edit", "delete"}

ASSUME NoneAssumption == /\ None \notin Nat \cup Workers \cup Pids
                         /\ Stale \notin Pids
                         /\ Stale # None

ASSUME BoundAssumption == /\ MaxEdits \in Nat
                          /\ Faults \subseteq FaultKinds
                          /\ TimedLock \in BOOLEAN

VARIABLES
    \* Files.  A version counts the edits of a page.
    exists,     \* exists[p]: the page file is there
    edits,      \* edits[p]: the version of the page file
    published,  \* published[p]: the version of its last edit that was not hidden
    newer,      \* newer[p]: the page file's mtime exceeds the plugin's
    plugin,     \* plugin[p]: the version the plugin was built from, or None
    sock,       \* sock[p]: the process bound to the socket file, Stale, None
    \* gosp-server processes.
    proc,       \* proc[s]: where process s is in its life, "free" if unused
    home,       \* home[s]: the page whose socket it was launched for
    ver,        \* ver[s]: the version of the plugin it loaded
    \* Apache workers.
    lock,       \* the worker that holds the global mutex
    pc,         \* pc[w]: where w is in gosp_handler
    page,       \* page[w]: r->filename of its request
    build,      \* build[w]: the version its gosp2go child is compiling
    result,     \* result[w]: how its last request ended
    \* The connection of each worker.
    peer,       \* peer[w]: the process at the other end
    link,       \* link[w]: what became of the connection
    \* History, read by no action's guard.
    compiles,   \* compiles[p]: successful compilations of p
    runs,       \* runs[w]: how often the request was handed to the page's code
    shown,      \* shown[w]: the version whose page text was sent in full
    floor       \* floor[w]: published[page[w]] when the request arrived

files   == <<exists, edits, published, newer, plugin, compiles>>
servers == <<sock, proc, home, ver>>
conns   == <<peer, link>>
request == <<page, floor>>
effects == <<runs, shown>>
vars    == <<files, servers, lock, pc, build, result, conns, request, effects>>

ProcStates  == {"free", "loading", "loaded", "unlinked", "listening",
                "closing", "draining", "expired"}
LinkStates  == {"none", "queued", "open", "answered", "cut", "reset"}
Results     == {"none", "ok", "status", "error", "notfound"}

\* The steps of kill_gosp_server and compile_gosp_server.
Rebuilding  == {"kill", "killwait", "reap", "unlink", "compile", "building"}
\* The steps rebuild_relaunch_retry takes between acquire_global_lock and
\* release_global_lock.
Critical    == Rebuilding \cup {"stat", "ping", "pingwait", "launch", "retry",
                                "again", "retrywait"}
PcStates    == Critical \cup {"idle", "check", "fast", "fastwait", "lock"}
\* The steps of the retry loop: its first turn, and those after a nap.
Retrying    == {"retry", "again"}
\* The worker is waiting for the answer to a request for the page itself.
AwaitsPage  == {"fastwait", "retrywait"}

May(fault) == fault \in Faults

StartingUp == {"loading", "loaded", "unlinked"}
Serving    == {"listening", "closing", "draining"}

(***************************************************************************)
(* Process s ends: exit(2), a fatal error or SIGKILL.  The kernel closes   *)
(* its end of every connection.  One it never accepted is reset, one it    *)
(* did accept ends early ("cut"); an answer already sent stays readable.   *)
(* A socket file outlives the process that was bound to it.                *)
(***************************************************************************)
ProcessGone(s) ==
    /\ proc' = [proc EXCEPT ![s] = "free"]
    /\ home' = [home EXCEPT ![s] = None]
    /\ ver'  = [ver EXCEPT ![s] = None]
    /\ sock' = [p \in Pages |-> IF sock[p] = s THEN Stale ELSE sock[p]]
    /\ peer' = [w \in Workers |-> IF peer[w] = s THEN None ELSE peer[w]]
    /\ link' = [w \in Workers |->
                  IF peer[w] # s THEN link[w]
                  ELSE CASE link[w] = "queued" -> "reset"
                         [] link[w] = "open"   -> "cut"
                         [] OTHER              -> link[w]]
=============================================================================
