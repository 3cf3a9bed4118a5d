------------------------------- MODULE Gosp2go -------------------------------
(***************************************************************************)
(* gosp2go from its command line to its exit (src/src/gosp2go): expanding  *)
(* the inclusions of a page, checking what it imports, and building the    *)
(* plugin.  The directory the process is in decides what a relative name   *)
(* means, and main, ProcessGospIncludes and Build all change it.           *)
(*                                                                         *)
(* A page is what the compiler looks at: inclusions, and top-level blocks  *)
(* that import a package or declare something.  A file is given its text   *)
(* when it is read, so it may be another one each time.                    *)
(***************************************************************************)
EXTENDS Naturals, Sequences, SequencesExt

CONSTANTS
    Root, Home,         \* the root directory; where gosp2go is started
    Temp,               \* the directory Build makes
    Dirs, Files,        \* directories (Temp is one) and files
    Up,                 \* Up[x]: the directory that x really lies in
    Entry,              \* Entry[<<d, n>>]: what name n in d leads to, also by a
                        \*   symbolic link
    OutDirs,            \* directories that an absolute -o may name a file in
    Pages,              \* names the input file may be given by
    Included,           \* names that pages include
    Packages, Allowed,  \* packages that exist; those of --allowed
    MaxIncludeDepth,
    MaxTop,             \* --max-top
    MaxItems,           \* bound: inclusions and blocks read in one run
    Nowhere,            \* no file
    Stdout              \* the standard output, "-"

ASSUME TreeAssumption == /\ {Root, Home, Temp} \subseteq Dirs
                         /\ OutDirs \subseteq Dirs \ {Temp}
                         /\ Dirs \cap Files = {}
                         /\ {Nowhere, Stdout} \cap (Dirs \cup Files) = {}
                         /\ Nowhere # Stdout
                         /\ Up \in [Dirs \cup Files -> Dirs]
                         /\ Up[Root] = Root
ASSUME DepthAssumption == {MaxIncludeDepth, MaxTop, MaxItems} \subseteq Nat

Modes == {"source", "build", "run"}

\* What a page consists of, and the pieces of it that become Go code.
Include(name) == [kind |-> "include", of |-> name]
Import(pkg)   == [kind |-> "import", of |-> pkg]
Declaration   == [kind |-> "declare", of |-> Nowhere]
Items == { Include(n) : n \in Included } \cup { Import(p) : p \in Packages }
           \cup {Declaration}
Texts == SeqOf(Items, 2)

VARIABLES
    pc,         \* the next step, or "done" (exit 0) or "failed" (exit 1)
    mode,       \* --build, --run or neither
    out,        \* the directory of an absolute -o, Nowhere for a relative one,
                \*   or Stdout, which is the default
    outAt,      \* the directory of the file that main opened as its output, or
                \*   Stdout
    prevDir,    \* where Build came from
    cwd,        \* the directory the process is in
    dirStack,   \* p.DirStack
    frames,     \* what is left of the page and of the inclusions being expanded
    code,       \* the top-level blocks so far
    files,      \* files[d]: the output file in d: "old", "empty" or "new"
    temp,       \* temporary files there are: "dir", "plugin"
    items,      \* how many items have been read
    opened      \* history: the inclusions that were opened, and from where

mainVars   == <<mode, out, outAt, prevDir>>
expandVars == <<dirStack, frames, code, items, opened>>
vars == <<pc, cwd, files, temp, mainVars, expandVars>>

-----------------------------------------------------------------------------
\* Pathnames: [abs |-> whether it begins with "/", via |-> its components].

Walk(at, name) ==
    CASE at = Nowhere -> Nowhere
      [] at # Nowhere /\ name = ".." -> Up[at]
      [] OTHER -> IF <<at, name>> \in DOMAIN Entry THEN Entry[<<at, name>>] ELSE Nowhere

\* What a pathname leads to for a process in directory d, and the directory
\* it names it in.
Leads(d, path)  == FoldLeft(Walk, IF path.abs THEN Root ELSE d, path.via)
DirOf(d, path)  == Leads(d, [path EXCEPT !.via = Front(@)])

\* A name leads to a file by way of the directory that it names the file in.
ASSUME LookupAssumption ==
  \A d \in Dirs, path \in Pages \cup Included :
      Leads(d, path) \in Files => DirOf(d, path) \in Dirs

\* LiesInOrBelow (package gosp), once realPath has done away with links: what
\* nobody can avoid who goes from x upwards for as long as there is a way.
ClosedUpwards(S) == \A y \in S : Up[y] \in S
Above == [x \in Dirs \cup Files |->
            { d \in Dirs \cup Files : \A S \in SUBSET (Dirs \cup Files) :
                                         x \in S /\ ClosedUpwards(S) => d \in S }]
LiesInOrBelow(x, d) == d \in Above[x]

-----------------------------------------------------------------------------
Init == /\ pc = "input"
        /\ mode \in Modes
        /\ out \in OutDirs \cup {Nowhere, Stdout}
        /\ mode = "build" => out # Stdout      \* checkParams
        /\ outAt = Nowhere /\ prevDir = Nowhere
        /\ cwd = Home /\ dirStack = <<>> /\ frames = <<>> /\ code = <<>>
        /\ files = [d \in Dirs |-> "old"]
        /\ temp = {} /\ items = 0 /\ opened = {}

\* notify.Fatal: the process exits, and deferred calls are not made.
Fatal == /\ pc' = "failed"
         /\ UNCHANGED <<cwd, files, temp, mainVars, expandVars>>

\* main opens the page and goes to its directory, or to the root if the page
\* is the standard input.
OpenInput(page) ==
    /\ pc = "input"
    /\ IF Leads(cwd, page) \in Files
       THEN /\ cwd' = DirOf(cwd, page)
            /\ dirStack' = <<DirOf(cwd, page)>>
            /\ pc' = "output"
            /\ UNCHANGED <<files, temp, mainVars, frames, code, items, opened>>
       ELSE Fatal
StandardInput ==
    /\ pc = "input"
    /\ cwd' = Root
    /\ dirStack' = <<Root>>
    /\ pc' = "output"
    /\ UNCHANGED <<files, temp, mainVars, frames, code, items, opened>>

\* Where the name of the output file leads, from the directory the process is
\* in by then.
OutDir == IF out = Nowhere THEN cwd ELSE out

\* The files after an output to place d, which is a file unless it is Stdout.
Put(d, what) == IF d = Stdout THEN files ELSE [files EXCEPT ![d] = what]

\* Only then the output is opened, and a file emptied, unless go build is to write
\* it.
\* Mutant of OpenOutput: it is opened in any case.
OpenAlways ==
    /\ pc = "output"
    /\ pc' = "read"
    /\ outAt' = OutDir
    /\ files' = Put(OutDir, "empty")
    /\ UNCHANGED <<cwd, temp, mode, out, prevDir, expandVars>>
OpenOutput ==
    /\ pc = "output"
    /\ pc' = "read"
    /\ IF mode = "build" THEN UNCHANGED <<files, outAt>>
       ELSE /\ outAt' = OutDir
            /\ files' = Put(OutDir, "empty")
    /\ UNCHANGED <<cwd, temp, mode, out, prevDir, expandVars>>

ReadInput(text) ==
    /\ pc = "read"
    /\ items + Len(text) <= MaxItems
    /\ frames' = <<text>>
    /\ items' = items + Len(text)
    /\ pc' = "expand"
    /\ UNCHANGED <<cwd, files, temp, mainVars, dirStack, code, opened>>

-----------------------------------------------------------------------------
(***************************************************************************)
(* ProcessGospIncludes.                                                    *)
(***************************************************************************)
Current == frames[Len(frames)]
Next1   == Head(Current)
Rest    == [frames EXCEPT ![Len(frames)] = Tail(@)]

AtItem(kinds) == pc = "expand" /\ Current # <<>> /\ Next1.kind \in kinds

\* Mutants of MayInclude: without the test where the file lies, and without the
\* one whether it could be opened.
AnywhereMayBe(name) == Leads(cwd, name) \in Files
MissingMayBe(name) ==
    \/ Leads(cwd, name) = Nowhere
    \/ LiesInOrBelow(Leads(cwd, name), dirStack[Len(dirStack)])

\* The guards of an inclusion: the file lies in or below the directory of the
\* file that includes it, and can be opened.
MayInclude(name) ==
    /\ Leads(cwd, name) \in Files
    /\ LiesInOrBelow(Leads(cwd, name), dirStack[Len(dirStack)])

\* Mutant of DepthLeft.
NoLimit == TRUE
DepthLeft == Len(dirStack) < MaxIncludeDepth + 1

\* An inclusion is opened and read, and expanded from the directory it is
\* named in (PushDirectoryOf), which fails where that is too deep.
IncludeFile ==
    /\ AtItem({"include"})
    /\ LET name == Next1.of
       IN  IF MayInclude(name) /\ DepthLeft
           THEN /\ \E text \in Texts :
                     /\ items + Len(text) <= MaxItems
                     /\ items' = items + Len(text)
                     /\ frames' = Append(Rest, text)
                /\ opened' = opened \cup {[name |-> name, file |-> Leads(cwd, name),
                                           from |-> dirStack[Len(dirStack)],
                                           in   |-> DirOf(cwd, name)]}
                /\ cwd' = DirOf(cwd, name)
                /\ dirStack' = Append(dirStack, DirOf(cwd, name))
                /\ UNCHANGED <<pc, files, temp, mainVars, code>>
           ELSE Fatal

\* PopDirectory, at the end of an inclusion, changes to the directory it pops.
AtEndOfInclusion == pc = "expand" /\ Current = <<>> /\ Len(frames) > 1
PopDirectory ==
    /\ AtEndOfInclusion
    /\ cwd' = dirStack[Len(dirStack)]
    /\ dirStack' = Front(dirStack)
    /\ frames' = Front(frames)
    /\ UNCHANGED <<pc, files, temp, mainVars, code, items, opened>>

\* Opening and reading a file that is there, opening the output and changing to a
\* directory may fail: SmartOpen, PushDirectoryOf and PopDirectory abort.
FileError ==
    /\ \/ pc \in {"input", "read"}
       \/ pc = "output" /\ mode # "build" /\ out # Stdout
       \/ AtItem({"include"}) \/ AtEndOfInclusion
    /\ Fatal

\* Everything else is copied, and GospToGo collects it later in this order.
Copy ==
    /\ AtItem({"import", "declare"})
    /\ code' = Append(code, Next1)
    /\ frames' = Rest
    /\ UNCHANGED <<pc, cwd, files, temp, mainVars, dirStack, items, opened>>

Expanded ==
    /\ pc = "expand" /\ Current = <<>> /\ Len(frames) = 1
    /\ pc' = "generate"
    /\ UNCHANGED <<cwd, files, temp, mainVars, expandVars>>

-----------------------------------------------------------------------------
\* GospToGo puts the top-level blocks after the boilerplate.
Generate ==
    /\ pc = "generate"
    /\ IF Len(code) > MaxTop THEN Fatal
       ELSE /\ pc' = "validate"
            /\ UNCHANGED <<cwd, files, temp, mainVars, expandVars>>

\* Where the import declarations end, as far as a Go parser takes them.
Declares(i) == code[i].kind = "declare"
Leading(i)  == ~Declares(i) /\ \A j \in 1 .. i : ~Declares(j)

\* Mutant of SeesImport: only the first block is looked at.
FirstOnly(i) == i = 1 /\ ~Declares(1)

\* ValidateImports parses the imports only.
SeesImport(i) == Leading(i)
ImportsValid == "ALL" \in Allowed \/ \A i \in DOMAIN code : SeesImport(i) => code[i].of \in Allowed
ValidateImports ==
    /\ pc = "validate"
    /\ IF ImportsValid
       THEN /\ pc' = IF mode = "source" THEN "write" ELSE "build"
            /\ UNCHANGED <<cwd, files, temp, mainVars, expandVars>>
       ELSE Fatal

\* Neither --build nor --run: the Go program is the output.
WriteSource ==
    /\ pc = "write"
    /\ files' = Put(outAt, "new")
    /\ pc' = "done"
    /\ UNCHANGED <<cwd, temp, mainVars, expandVars>>

\* Run makes a file for the plugin; Build makes a directory and goes there.
StartBuild ==
    /\ pc = "build"
    /\ \/ Fatal
       \/ /\ temp' = IF mode = "run" THEN {"dir", "plugin"} ELSE {"dir"}
          /\ prevDir' = cwd
          /\ cwd' = Temp
          /\ pc' = "compile"
          /\ UNCHANGED <<files, mode, out, outAt, expandVars>>

\* go mod tidy and go build; the compiler takes no import after a declaration.
CompilerTakes == \A i \in DOMAIN code : code[i].kind = "import" => Leading(i)

\* RemoveAll of the directory Build made, when Build returns; the plugin goes
\* with it if that is where go build put it.
\* Mutant of RemoveTempDir: the call is missing.
KeepTempDir == temp
RemoveTempDir == temp \ {"dir"}

GoBuild ==
    /\ pc = "compile"
    /\ \/ Fatal
       \/ /\ CompilerTakes
          /\ files' = IF mode = "build" /\ OutDir # Temp THEN Put(OutDir, "new")
                                                        ELSE files
          /\ temp' = RemoveTempDir
          /\ cwd' = prevDir
          /\ pc' = IF mode = "build" THEN "done" ELSE "serve"
          /\ UNCHANGED <<mainVars, expandVars>>

\* Run: gosp-server writes the page, or a part of it, to the output; if it fails
\* the plugin stays.
RunServer ==
    /\ pc = "serve"
    /\ \/ /\ pc' = "failed"
          /\ files' \in {files, Put(outAt, "new")}
          /\ UNCHANGED temp
       \/ /\ pc' = "done"
          /\ files' = Put(outAt, "new")
          /\ temp' = temp \ {"plugin"}
    /\ UNCHANGED <<cwd, mainVars, expandVars>>

Exited == pc \in {"done", "failed"} /\ UNCHANGED vars

Step == \/ \E page \in Pages : OpenInput(page)
        \/ StandardInput \/ OpenOutput
        \/ \E text \in Texts : ReadInput(text)
        \/ IncludeFile \/ PopDirectory \/ FileError \/ Copy \/ Expanded
        \/ Generate \/ ValidateImports \/ WriteSource
        \/ StartBuild \/ GoBuild \/ RunServer

Next == Step \/ Exited

Spec == Init /\ [][Next]_vars
-----------------------------------------------------------------------------
(***************************************************************************)
(* What gosp2go promises.                                                  *)
(***************************************************************************)
Outputs == {"old", "empty", "new"}
Steps == {"input", "output", "read", "expand", "generate", "validate", "write",
          "build", "compile", "serve", "done", "failed"}

\* Every variable has its type; the directories of opened inclusions exist.
TypeOK ==
    /\ pc \in Steps /\ mode \in Modes
    /\ cwd \in Dirs /\ prevDir \in Dirs \cup {Nowhere}
    /\ {out, outAt} \subseteq Dirs \cup {Nowhere, Stdout}
    /\ dirStack \in Seq(Dirs)
    /\ frames \in Seq(Seq(Items)) /\ code \in Seq(Items)
    /\ files \in [Dirs -> Outputs]
    /\ temp \subseteq {"dir", "plugin"}
    /\ \A o \in opened : o.file \in Files /\ {o.from, o.in} \subseteq Dirs
    /\ items \in 0 .. MaxItems

\* An expansion holds one directory per open inclusion and one for the page, and
\* never gets deeper than MaxIncludeDepth inclusions: the page that includes
\* itself is stopped (PushDirectoryOf, PopDirectory).
NestingIsBounded ==
    pc = "expand" => Len(dirStack) = Len(frames) /\ Len(frames) <= MaxIncludeDepth + 1

\* However inclusions are nested and wherever PopDirectory leaves the process,
\* all that is ever included lies in or below the directory of the page, if no
\* inclusion goes through a symbolic link (ProcessGospIncludes).
StaysBelowPage ==
    (\A o \in opened : Up[o.file] = o.in)
        => \A o \in opened : LiesInOrBelow(o.file, dirStack[1]) /\ LiesInOrBelow(o.in, dirStack[1])

\* What ends up in a plugin or is run has at most MaxTop blocks and imports only
\* allowed packages, although ValidateImports looks no further than the first
\* declaration (Build after GospToGo and ValidateImports).
PluginsAreAllowed ==
    pc \in {"done", "serve"} /\ mode # "source" =>
        /\ Len(code) <= MaxTop
        /\ \A i \in DOMAIN code :
             code[i].kind = "import" => code[i].of \in Allowed \/ "ALL" \in Allowed

\* With --build and an absolute -o, a plugin that exists is replaced by a
\* successful build and by nothing else, which is what lets the Apache module
\* keep the old plugin after an error; and no other file is touched (main leaves
\* the file to go build).
PluginOnSuccessOnly ==
    mode = "build" /\ out # Nowhere =>
        \A d \in Dirs : files[d] = IF d = out /\ pc = "done" THEN "new" ELSE "old"

\* A successful gosp2go leaves no temporary file behind (the deferred calls of
\* Build and Run).
NothingLeftBehind == pc = "done" => temp = {}

\* A relative name in an inclusion means the same wherever it stands in a file:
\* docs/markup/file_inclusion.md says "a path relative to the page", and
\* PopDirectory that it "returns to the previous directory we were in".
RelativeToPage == \A o \in opened : o.file = Leads(o.from, o.name)
=============================================================================
