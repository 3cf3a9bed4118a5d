----------------------------- MODULE Gosp2goProofs -----------------------------
(***************************************************************************)
(* Proofs about gosp2go, for every tree of files, every page and every     *)
(* limit: nesting ends, nothing outside of the page's directory is         *)
(* included, what is built imports what is allowed, and a failure leaves   *)
(* the old plugin alone.                                                   *)
(***************************************************************************)
EXTENDS Gosp2go, SequenceTheorems, TLAPS

(***************************************************************************)
(* The inductive invariant, on top of TypeOK.                              *)
(***************************************************************************)

\* One directory is on the stack for the page, and one for each open inclusion.
Stacked ==
    /\ pc = "input" => dirStack = <<>>
    /\ pc \in {"output", "read"} => Len(dirStack) = 1
    /\ pc = "expand" => /\ Len(frames) >= 1
                        /\ Len(dirStack) = Len(frames)
                        /\ Len(frames) <= MaxIncludeDepth + 1

\* As long as no inclusion went through a symbolic link, the page's directory
\* holds every directory on the stack and everything that was opened.
NoLinks == \A o \in opened : Up[o.file] = o.in
Below ==
    /\ dirStack = <<>> => opened = {}
    /\ pc \in {"input", "output", "read"} => opened = {}
    /\ NoLinks => /\ \A i \in 1 .. Len(dirStack) : LiesInOrBelow(dirStack[i], dirStack[1])
                  /\ \A o \in opened : /\ LiesInOrBelow(o.file, dirStack[1])
                                       /\ LiesInOrBelow(o.in, dirStack[1])

Built == pc = "done" /\ mode # "source"

\* Each step of main relies on the tests of the steps before it.
Checked ==
    /\ pc = "write" => mode = "source"
    /\ pc \in {"build", "compile", "serve"} => mode # "source"
    /\ pc = "serve" => mode = "run"
    /\ pc \in {"validate", "build", "compile", "serve"} \/ Built
         => Len(code) <= MaxTop
    /\ pc \in {"build", "compile", "serve"} \/ Built
         => ImportsValid
    /\ pc = "serve" \/ Built => CompilerTakes
    /\ pc = "compile" => prevDir \in Dirs

\* The temporary files that there are at each step, unless gosp2go has failed.
Temporaries ==
    CASE pc = "compile" -> temp = IF mode = "run" THEN {"dir", "plugin"} ELSE {"dir"}
      [] pc = "serve"   -> temp = {"plugin"}
      [] pc = "failed"  -> TRUE
      [] OTHER          -> temp = {}

\* With --build the files are as they were, until the end.
Untouched ==
    mode = "build" => /\ out \in OutDirs \cup {Nowhere}
                      /\ pc # "done" => files = [d \in Dirs |-> "old"]

GInv == /\ TypeOK
        /\ Stacked
        /\ Below
        /\ Checked
        /\ Temporaries
        /\ Untouched
        /\ PluginOnSuccessOnly

-----------------------------------------------------------------------------
(***************************************************************************)
(* Lying in or below a directory.                                          *)
(***************************************************************************)

\* A directory lies in or below itself.
LEMMA BelowItself == \A d \in Dirs : LiesInOrBelow(d, d)
  BY DEF LiesInOrBelow, Above

\* What lies below a directory lies below all that one lies below.
LEMMA BelowBelow ==
  ASSUME NEW x \in Dirs \cup Files, NEW d \in Dirs \cup Files, NEW e \in Dirs \cup Files,
         LiesInOrBelow(x, d), LiesInOrBelow(d, e)
  PROVE  LiesInOrBelow(x, e)
  BY DEF LiesInOrBelow, Above

\* The directory of a file lies below whatever directory the file lies below.
LEMMA DirectoryBelow ==
  ASSUME NEW x \in Files, NEW d \in Dirs, LiesInOrBelow(x, d)
  PROVE  LiesInOrBelow(Up[x], d)
<1>1. Up[x] \in Dirs /\ x # d
  BY TreeAssumption
<1>2. ASSUME NEW S \in SUBSET (Dirs \cup Files), Up[x] \in S, ClosedUpwards(S)
      PROVE  d \in S
  <2>1. ClosedUpwards(S \cup {x}) /\ S \cup {x} \in SUBSET (Dirs \cup Files)
    BY <1>2 DEF ClosedUpwards
  <2>2. d \in S \cup {x}
    BY <2>1 DEF LiesInOrBelow, Above
  <2> QED
    BY <1>1, <2>2
<1> QED
  BY <1>1, <1>2 DEF LiesInOrBelow, Above

-----------------------------------------------------------------------------
(***************************************************************************)
(* What the steps do to the stacks.                                        *)
(***************************************************************************)

\* A text that is read is a sequence of items.
LEMMA TextType == \A text \in Texts : text \in Seq(Items) /\ Len(text) \in Nat
<1>1. ASSUME NEW text \in Texts PROVE text \in Seq(Items) /\ Len(text) \in Nat
  <2>1. PICK m \in 0 .. 2 : text \in [1 .. m -> Items]
    BY DEF Texts, SeqOf
  <2>2. m \in Nat
    OBVIOUS
  <2> QED
    BY <2>1, <2>2
<1> QED
  BY <1>1

\* Front takes the last element off.
LEMMA FrontType ==
  ASSUME NEW S, NEW s \in Seq(S), Len(s) > 0
  PROVE  /\ Front(s) \in Seq(S)
         /\ Len(Front(s)) = Len(s) - 1
         /\ \A i \in 1 .. Len(s) - 1 : Front(s)[i] = s[i]
<1>1. \A i \in 1 .. Len(s) - 1 : s[i] \in S
  BY ElementOfSeq
<1>2. PICK n \in Nat : n = Len(s) - 1
  OBVIOUS
<1>3. /\ SubSeq(s, 1, n) \in Seq(S)
      /\ Len(SubSeq(s, 1, n)) = IF 1 <= n THEN n - 1 + 1 ELSE 0
      /\ \A i \in 1 .. n - 1 + 1 : SubSeq(s, 1, n)[i] = s[1 + i - 1]
  BY <1>1, <1>2, SubSeqProperties
<1>4. n - 1 + 1 = n /\ (1 <= n \/ n = 0) /\ \A i \in 1 .. n : 1 + i - 1 = i
  OBVIOUS
<1> QED
  BY <1>2, <1>3, <1>4 DEF Front

\* An item that is dealt with is taken out of the innermost text.
LEMMA ItemType ==
  ASSUME TypeOK, Stacked, NEW kinds, AtItem(kinds)
  PROVE  /\ Next1 \in Items
         /\ Rest \in Seq(Seq(Items))
         /\ Len(Rest) = Len(frames)
<1>1. Len(frames) \in 1 .. Len(frames)
  BY DEF TypeOK, Stacked, AtItem
<1>2. Current \in Seq(Items) /\ Current # <<>>
  BY <1>1, ElementOfSeq DEF TypeOK, Current, AtItem
<1>3. Next1 \in Items /\ Tail(Current) \in Seq(Items)
  BY <1>2 DEF Next1
<1>4. Rest = [frames EXCEPT ![Len(frames)] = Tail(Current)]
  BY DEF Rest, Current
<1> QED
  BY <1>1, <1>3, <1>4, ExceptSeq DEF TypeOK

\* The name of an inclusion is one that pages include.
LEMMA NameType ==
  ASSUME TypeOK, Stacked, AtItem({"include"})
  PROVE  Next1.of \in Included
<1>1. Next1 \in Items /\ Next1.kind = "include"
  BY ItemType DEF AtItem
<1>2. \A item \in Items : item.kind = "include" => item.of \in Included
  BY DEF Items, Include, Import, Declaration
<1> QED
  BY <1>1, <1>2

-----------------------------------------------------------------------------
\* The invariant holds of a run of gosp2go that begins.
LEMMA Gosp2goInit == Init => GInv
<1>1. /\ <<>> \in Seq(Dirs) /\ <<>> \in Seq(Seq(Items)) /\ <<>> \in Seq(Items)
      /\ Len(<<>>) = 0
  OBVIOUS
<1> QED
  BY <1>1, TreeAssumption, DepthAssumption
  DEF Init, GInv, TypeOK, Steps, Outputs, Modes, Stacked, Below, Checked, Built,
      Temporaries, Untouched, PluginOnSuccessOnly

\* A fatal error keeps what held before it.
LEMMA FatalStep == ASSUME GInv, pc # "done", Fatal PROVE GInv'
  BY DEF GInv, TypeOK, Steps, Stacked, Below, NoLinks, Checked, Built, Temporaries,
         Untouched, PluginOnSuccessOnly, Fatal, mainVars, expandVars

\* Steps after which no directory is opened any more.
LEMMA LateStep ==
  ASSUME GInv,
         \/ Expanded \/ Generate \/ ValidateImports \/ WriteSource
         \/ StartBuild \/ GoBuild \/ RunServer
  PROVE  GInv'
<1> USE TreeAssumption, DepthAssumption
    DEF GInv, Steps, Outputs, Modes, mainVars, expandVars
<1>a. ASSUME UNCHANGED <<dirStack, opened>>, pc' \notin {"input", "output", "read"}
      PROVE  Below'
  BY <1>a DEF Below, NoLinks
<1>1. CASE Expanded /\ ~Fatal
  BY <1>1, <1>a
  DEF Expanded, TypeOK, Stacked, Checked, Built, ImportsValid, SeesImport,
      Leading, Declares, CompilerTakes, Temporaries, Untouched, PluginOnSuccessOnly
<1>2. CASE Generate /\ ~Fatal
  BY <1>2, <1>a
  DEF Generate, TypeOK, Stacked, Checked, Built, ImportsValid, SeesImport,
      Leading, Declares, CompilerTakes, Temporaries, Untouched, PluginOnSuccessOnly
<1>3. CASE ValidateImports /\ ~Fatal
  <2>1. TypeOK'
    BY <1>3 DEF ValidateImports, TypeOK, Checked
  <2>2. Stacked'
    BY <1>3 DEF ValidateImports, Stacked, Checked
  <2>3. Below'
    BY <1>3, <1>a DEF ValidateImports
  <2>4. Checked'
    BY <1>3
    DEF ValidateImports, Checked, Built, ImportsValid, SeesImport, Leading,
        Declares, CompilerTakes, TypeOK
  <2>5. Temporaries'
    BY <1>3 DEF ValidateImports, Temporaries, Checked, TypeOK
  <2>6. Untouched'
    BY <1>3 DEF ValidateImports, Untouched
  <2>7. PluginOnSuccessOnly'
    BY <1>3 DEF ValidateImports, PluginOnSuccessOnly, Untouched, TypeOK
  <2> QED
    BY <2>1, <2>2, <2>3, <2>4, <2>5, <2>6, <2>7
<1>4. CASE WriteSource /\ ~Fatal
  BY <1>4, <1>a
  DEF WriteSource, Put, TypeOK, Stacked, Checked, Built, ImportsValid, SeesImport,
      Leading, Declares, CompilerTakes, Temporaries, Untouched, PluginOnSuccessOnly
<1>5. CASE StartBuild /\ ~Fatal
  BY <1>5, <1>a
  DEF StartBuild, TypeOK, Stacked, Checked, Built, ImportsValid, SeesImport,
      Leading, Declares, CompilerTakes, Temporaries, Untouched, PluginOnSuccessOnly
<1>6. CASE GoBuild /\ ~Fatal
  <2>1. TypeOK'
    BY <1>6 DEF GoBuild, TypeOK, RemoveTempDir, Put, OutDir, Checked
  <2>2. Stacked'
    BY <1>6 DEF GoBuild, Stacked, RemoveTempDir, Put, OutDir, Checked
  <2>3. Below'
    BY <1>6, <1>a DEF GoBuild
  <2>4. Checked'
    BY <1>6
    DEF GoBuild, Checked, RemoveTempDir, Put, OutDir, Built, ImportsValid,
        SeesImport, Leading, Declares, CompilerTakes, TypeOK
  <2>5. Temporaries'
    BY <1>6 DEF GoBuild, Temporaries, RemoveTempDir, Put, OutDir, Checked, TypeOK
  <2>6. Untouched'
    BY <1>6 DEF GoBuild, Untouched, RemoveTempDir, Put, OutDir
  <2>7. PluginOnSuccessOnly'
    BY <1>6
    DEF GoBuild, PluginOnSuccessOnly, RemoveTempDir, Put, OutDir, Untouched, TypeOK
  <2> QED
    BY <2>1, <2>2, <2>3, <2>4, <2>5, <2>6, <2>7
<1>7. CASE RunServer /\ ~Fatal
  <2>1. TypeOK'
    BY <1>7 DEF RunServer, Put, TypeOK, Checked
  <2>2. Stacked'
    BY <1>7 DEF RunServer, Stacked, Checked
  <2>3. Below'
    BY <1>7, <1>a DEF RunServer
  <2>4. Checked'
    BY <1>7
    DEF RunServer, Checked, Built, ImportsValid, SeesImport, Leading, Declares,
        CompilerTakes, TypeOK
  <2>5. Temporaries'
    BY <1>7 DEF RunServer, Temporaries, Checked, TypeOK
  <2>6. Untouched'
    BY <1>7 DEF RunServer, Put, Untouched, Checked
  <2>7. PluginOnSuccessOnly'
    BY <1>7 DEF RunServer, Put, PluginOnSuccessOnly, Checked
  <2> QED
    BY <2>1, <2>2, <2>3, <2>4, <2>5, <2>6, <2>7
<1>8. CASE Fatal
  BY <1>8, FatalStep
  DEF Expanded, Generate, ValidateImports, WriteSource, StartBuild,
      GoBuild, RunServer
<1> QED
  BY <1>1, <1>2, <1>3, <1>4, <1>5, <1>6, <1>7, <1>8

\* main opens its files and reads the page.
LEMMA EarlyStep ==
  ASSUME GInv,
         \/ \E page \in Pages : OpenInput(page)
         \/ StandardInput \/ OpenOutput \/ FileError
         \/ \E text \in Texts : ReadInput(text)
  PROVE  GInv'
<1> USE TreeAssumption, DepthAssumption
    DEF GInv, TypeOK, Steps, Outputs, Modes, mainVars, expandVars, Stacked, Checked,
        Built, Temporaries, Untouched, PluginOnSuccessOnly
<1>1. ASSUME NEW d \in Dirs, pc = "input", pc' = "output", cwd' = d, dirStack' = <<d>>,
             UNCHANGED <<files, temp, mainVars, frames, code, items, opened>>
      PROVE  GInv'
  <2>1. dirStack' \in Seq(Dirs) /\ Len(dirStack') = 1 /\ dirStack'[1] = d
    BY <1>1
  <2>2. Below'
    BY <1>1, <2>1, BelowItself DEF Below
  <2> QED
    BY <1>1, <2>1, <2>2
<1>2. ASSUME NEW page \in Pages, OpenInput(page) PROVE GInv'
  <2>1. CASE Fatal
    BY <1>2, <2>1, FatalStep DEF OpenInput
  <2>2. CASE Leads(cwd, page) \in Files
    <3>1. DirOf(cwd, page) \in Dirs
      BY <2>2, LookupAssumption
    <3> QED
      BY <1>1, <1>2, <2>2, <3>1 DEF OpenInput
  <2> QED
    BY <1>2, <2>1, <2>2 DEF OpenInput
<1>3. CASE StandardInput
  BY <1>1, <1>3 DEF StandardInput
<1>4. CASE OpenOutput
  <2>1. Below'
    BY <1>4 DEF OpenOutput, Below, NoLinks
  <2>2. CASE mode = "build"
    BY <1>4, <2>1, <2>2 DEF OpenOutput
  <2>3. CASE mode # "build"
    BY <1>4, <2>1, <2>3, ZenonT(60) DEF OpenOutput, OutDir, Put
  <2> QED
    BY <2>2, <2>3
<1>5. ASSUME NEW text \in Texts, ReadInput(text) PROVE GInv'
  <2>1. /\ text \in Seq(Items) /\ Len(text) \in Nat
        /\ <<text>> \in Seq(Seq(Items)) /\ Len(<<text>>) = 1
    BY TextType
  <2>2. Below'
    BY <1>5 DEF ReadInput, Below, NoLinks
  <2> QED
    BY <1>5, <2>1, <2>2 DEF ReadInput
<1>6. CASE FileError
  BY <1>6, FatalStep DEF FileError, AtItem, AtEndOfInclusion
<1> QED
  BY <1>2, <1>3, <1>4, <1>5, <1>6

\* An inclusion: the file is opened where its includer may include it.
LEMMA IncludeStep ==
  ASSUME GInv, IncludeFile
  PROVE  GInv'
<1> DEFINE name == Next1.of
           last == dirStack[Len(dirStack)]
           file == Leads(cwd, name)
           dir  == DirOf(cwd, name)
<1>1. CASE Fatal
  BY <1>1, FatalStep DEF IncludeFile, AtItem
<1>2. CASE MayInclude(name) /\ DepthLeft
  <2>0. PICK text \in Texts : /\ items + Len(text) <= MaxItems
                              /\ items' = items + Len(text)
                              /\ frames' = Append(Rest, text)
    BY <1>2 DEF IncludeFile
  <2>1. /\ pc = "expand" /\ AtItem({"include"})
        /\ items + Len(text) <= MaxItems /\ items' = items + Len(text)
        /\ opened' = opened \cup {[name |-> name, file |-> file, from |-> last, in |-> dir]}
        /\ cwd' = dir /\ dirStack' = Append(dirStack, dir)
        /\ frames' = Append(Rest, text)
        /\ UNCHANGED <<pc, files, temp, mainVars, code>>
    BY <1>2, <2>0 DEF IncludeFile, AtItem
  <2>2. /\ file \in Files /\ dir \in Dirs
        /\ Len(dirStack) \in Nat \ {0} /\ last \in Dirs /\ dirStack[1] \in Dirs
        /\ LiesInOrBelow(file, last)
    <3>1. name \in Included
      BY <2>1, NameType DEF GInv
    <3>2. Len(dirStack) \in Nat \ {0}
      BY <2>1 DEF GInv, TypeOK, Stacked
    <3>3. cwd \in Dirs /\ last \in Dirs /\ dirStack[1] \in Dirs
      BY <3>2, ElementOfSeq DEF GInv, TypeOK
    <3> QED
      BY <1>2, <3>1, <3>2, <3>3, LookupAssumption DEF MayInclude
  <2> HIDE DEF name, last, file, dir
  <2>3. /\ dirStack' \in Seq(Dirs) /\ Len(dirStack') = Len(dirStack) + 1
        /\ \A i \in 1 .. Len(dirStack) : dirStack'[i] = dirStack[i]
        /\ dirStack'[Len(dirStack) + 1] = dir
    BY <2>1, <2>2, AppendProperties DEF GInv, TypeOK
  <2>4. frames' \in Seq(Seq(Items)) /\ Len(frames') = Len(frames) + 1
    <3>1. Rest \in Seq(Seq(Items)) /\ Len(Rest) = Len(frames)
      BY <2>1, ItemType DEF GInv
    <3> QED
      BY <2>1, <3>1, TextType, AppendProperties
  <2>5. TypeOK'
    BY <2>1, <2>2, <2>3, <2>4, TextType, DepthAssumption
    DEF GInv, TypeOK, mainVars
  <2>6. Stacked'
    BY <1>2, <2>1, <2>3, <2>4, DepthAssumption, SMTT(30) DEF GInv, TypeOK, Stacked, DepthLeft
  <2>7. Below'
    <3>1. dirStack' # <<>> /\ dirStack'[1] = dirStack[1]
      BY <2>2, <2>3
    <3>2. SUFFICES ASSUME NoLinks'
                   PROVE  /\ \A i \in 1 .. Len(dirStack') :
                                LiesInOrBelow(dirStack'[i], dirStack[1])
                          /\ \A o \in opened' : /\ LiesInOrBelow(o.file, dirStack[1])
                                                /\ LiesInOrBelow(o.in, dirStack[1])
      BY <2>1, <3>1 DEF Below
    <3>3. NoLinks /\ Up[file] = dir
      <4> DEFINE new == [name |-> name, file |-> file, from |-> last, in |-> dir]
      <4>1. new.file = file /\ new.in = dir
        OBVIOUS
      <4>2. opened' = opened \cup {new}
        BY <2>1
      <4> HIDE DEF new
      <4> QED
        BY <3>2, <4>1, <4>2 DEF NoLinks
    <3>4. LiesInOrBelow(last, dirStack[1])
      BY <2>2, <3>3 DEF GInv, Below, last
    <3>5. LiesInOrBelow(file, dirStack[1])
      BY <2>2, <3>4, BelowBelow
    <3>6. LiesInOrBelow(dir, dirStack[1])
      BY <2>2, <3>3, <3>5, DirectoryBelow
    <3>7. \A i \in 1 .. Len(dirStack') : i \in 1 .. Len(dirStack) \/ i = Len(dirStack) + 1
      BY <2>2, <2>3
    <3> QED
      BY <2>1, <2>3, <3>3, <3>5, <3>6, <3>7 DEF GInv, Below
  <2> QED
    BY <2>1, <2>5, <2>6, <2>7
    DEF GInv, Checked, Built, Temporaries, Untouched, PluginOnSuccessOnly, mainVars
<1> QED
  BY <1>1, <1>2 DEF IncludeFile

\* The end of an inclusion: the stacks are as they were before it.
LEMMA PopStep == ASSUME GInv, PopDirectory PROVE GInv'
<1>1. /\ pc = "expand" /\ Len(frames) > 1 /\ Len(dirStack) = Len(frames)
      /\ cwd' = dirStack[Len(dirStack)]
      /\ dirStack' = Front(dirStack) /\ frames' = Front(frames)
      /\ UNCHANGED <<pc, files, temp, mainVars, code, items, opened>>
  BY DEF GInv, Stacked, PopDirectory, AtEndOfInclusion
<1>2. Len(dirStack) \in Nat \ {0, 1} /\ dirStack[Len(dirStack)] \in Dirs
  <2>1. dirStack \in Seq(Dirs) /\ Len(dirStack) > 1
    BY <1>1 DEF GInv, TypeOK
  <2> QED
    BY <2>1, ElementOfSeq
<1>3. /\ dirStack' \in Seq(Dirs) /\ Len(dirStack') = Len(dirStack) - 1
      /\ \A i \in 1 .. Len(dirStack) - 1 : dirStack'[i] = dirStack[i]
  BY <1>1, <1>2, FrontType DEF GInv, TypeOK
<1>4. frames' \in Seq(Seq(Items)) /\ Len(frames') = Len(frames) - 1
  BY <1>1, FrontType DEF GInv, TypeOK
<1>5. TypeOK'
  BY <1>1, <1>2, <1>3, <1>4 DEF GInv, TypeOK, mainVars
<1>6. Stacked'
  BY <1>1, <1>2, <1>3, <1>4, DepthAssumption, SMTT(30) DEF GInv, TypeOK, Stacked
<1>7. Below'
  <2>1. dirStack' # <<>> /\ dirStack'[1] = dirStack[1]
    BY <1>2, <1>3
  <2> QED
    BY <1>1, <1>2, <1>3, <2>1 DEF GInv, Below, NoLinks
<1> QED
  BY <1>1, <1>5, <1>6, <1>7
  DEF GInv, Checked, Built, Temporaries, Untouched, PluginOnSuccessOnly, mainVars

\* A block is copied.
LEMMA CopyStep == ASSUME GInv, Copy PROVE GInv'
<1>1. /\ pc = "expand" /\ AtItem({"import", "declare"})
      /\ code' = Append(code, Next1) /\ frames' = Rest
      /\ UNCHANGED <<pc, cwd, files, temp, mainVars, dirStack, items, opened>>
  BY DEF Copy, AtItem
<1>2. Next1 \in Items /\ Rest \in Seq(Seq(Items)) /\ Len(Rest) = Len(frames)
  BY <1>1, ItemType DEF GInv
<1>3. TypeOK'
  BY <1>1, <1>2, AppendProperties DEF GInv, TypeOK, mainVars
<1>4. Stacked' /\ Below'
  BY <1>1, <1>2 DEF GInv, Stacked, Below, NoLinks
<1> QED
  BY <1>1, <1>3, <1>4
  DEF GInv, Checked, Built, Temporaries, Untouched, PluginOnSuccessOnly, mainVars

\* Every step of gosp2go keeps it.
LEMMA Gosp2goStep == ASSUME GInv, [Next]_vars PROVE GInv'
<1>1. CASE UNCHANGED vars
  BY <1>1
  DEF vars, mainVars, expandVars, GInv, TypeOK, Stacked, Below, NoLinks, Checked, Built,
      ImportsValid, SeesImport, Leading, Declares, CompilerTakes, Temporaries,
      Untouched, PluginOnSuccessOnly
<1>2. CASE Step
  BY <1>2, EarlyStep, IncludeStep, PopStep, CopyStep, LateStep DEF Step
<1> QED
  BY <1>1, <1>2 DEF Next, Exited

-----------------------------------------------------------------------------
(***************************************************************************)
(* What gosp2go promises.                                                  *)
(***************************************************************************)
THEOREM Compiling == Spec => []GInv
<1> QED
  BY Gosp2goInit, Gosp2goStep, PTL DEF Spec

\* Every variable has its type; wherever inclusions lead the process, it is in
\* a directory.
THEOREM Gosp2goTypes == Spec => []TypeOK
<1>1. GInv => TypeOK
  BY DEF GInv
<1> QED
  BY <1>1, Compiling, PTL

\* The page that includes itself is stopped, at whatever MaxIncludeDepth.
THEOREM NestingEnds == Spec => []NestingIsBounded
<1>1. GInv => NestingIsBounded
  BY DEF GInv, Stacked, NestingIsBounded
<1> QED
  BY <1>1, Compiling, PTL

\* Inclusions of inclusions stay below the page, in every tree of files, if none of
\* them goes through a symbolic link.
THEOREM InclusionsStayBelow == Spec => []StaysBelowPage
<1>1. GInv => StaysBelowPage
  BY DEF GInv, Below, NoLinks, StaysBelowPage
<1> QED
  BY <1>1, Compiling, PTL

\* What is built or run imports allowed packages only: the compiler refuses
\* the imports that ValidateImports does not look at (utils.go:108-116).
THEOREM BuiltIsAllowed == Spec => []PluginsAreAllowed
<1>1. GInv => PluginsAreAllowed
  BY DEF GInv, Checked, Built, ImportsValid, SeesImport, CompilerTakes,
     PluginsAreAllowed
<1> QED
  BY <1>1, Compiling, PTL

\* A failed build leaves the plugin that was there (gosp2go.go:234-242).
THEOREM FailureKeepsPlugin == Spec => []PluginOnSuccessOnly
<1>1. GInv => PluginOnSuccessOnly
  BY DEF GInv
<1> QED
  BY <1>1, Compiling, PTL

\* A successful gosp2go has removed what Build and Run made.
THEOREM SuccessCleansUp == Spec => []NothingLeftBehind
<1>1. GInv => NothingLeftBehind
  BY DEF GInv, Temporaries, NothingLeftBehind
<1> QED
  BY <1>1, Compiling, PTL
=============================================================================
