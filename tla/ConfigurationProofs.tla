-------------------------- MODULE ConfigurationProofs --------------------------
(***************************************************************************)
(* Proofs about the configuration, for any sections around a page, nested  *)
(* as deep as one likes, and any number of directives: what gosp2go and    *)
(* gosp-server are told is what the documentation promises, wherever       *)
(* Configuration says that it is.                                          *)
(***************************************************************************)
EXTENDS Configuration, SequenceTheorems, TLAPS

\* The folds: Apache's merges, what the innermost context says, what an import
\* list allows, and what the documentation makes of the lists.
Merging   == INSTANCE Folding WITH Base <- None, Step <- MergeIfAny
Deciding  == INSTANCE Folding WITH Base <- None, Step <- Override
Allowing  == INSTANCE Folding WITH Base <- {}, Step <- AddImport
Promising == INSTANCE Folding WITH Base <- {}, Step <- DocAllows
Nesting   == INSTANCE Folding WITH Base <- <<BuiltIn>>, Step <- DocExtends

(***************************************************************************)
(* The inductive invariant, on top of TypeOK.                              *)
(***************************************************************************)
Sayings == [plain   : [AllPlain -> Values \cup {None}],
            imports : OptionalOf(ImportTexts),
            go_path : OptionalOf(PathTexts),
            repl    : [Modules -> Paths \cup {None, "cancelled"}]]

\* What a table replaces m by.
Replacement(table, m) == IF table # None /\ m \in DOMAIN table THEN table[m] ELSE None

\* The record of a context holds what its directives say, and there is none if
\* they say nothing.
Holds(record, says) ==
    /\ \A f \in Nullable : record.plain[f] = says.plain[f]
    /\ record.imports = says.imports
    /\ record.go_path = says.go_path
    /\ \A m \in Modules : says.repl[m] # "cancelled" =>
         says.repl[m] = Replacement(record.mod_repls, m)
    /\ record.mod_repls = None <=> \A m \in Modules : says.repl[m] = None
Recorded ==
    \A c \in Contexts :
        IF conf[c] = None THEN said[c] = NothingSaid ELSE Holds(conf[c], said[c])

\* A server that has started has its mutex.
MutexMade == phase \in {"ready", "crashed"} => sconf["main"].mutex # None

CInv == /\ TypeOK
        /\ said \in [Contexts -> Sayings]
        /\ Recorded
        /\ MutexMade

-----------------------------------------------------------------------------
(***************************************************************************)
(* Merging.                                                                *)
(***************************************************************************)

\* Stripping the "+" of a list leaves a list, and one of a single entry is
\* appended like the entry.
LEMMA Stripped ==
  ASSUME NEW text \in Lists
  PROVE  /\ text \in Seq(Entries) /\ text[1] \in Entries /\ Len(text) \in Nat \ {0}
         /\ WithoutPlus(text) \in Lists
         /\ Len(WithoutPlus(text)) = Len(text)
         /\ WithoutPlus(text)[1] = Entry(FALSE, text[1].name)
         /\ \A i \in 2 .. Len(text) : WithoutPlus(text)[i] = text[i]
<1>1. text \in Seq(Entries) /\ text # <<>>
  BY DEF Lists
<1>2. Len(text) \in Nat \ {0} /\ text[1] \in Entries
  BY <1>1
<1>4. Entry(FALSE, text[1].name) \in Entries
  BY <1>2 DEF Entries, Entry
<1> DEFINE e == Entry(FALSE, text[1].name)
<1>5. WithoutPlus(text) = <<e>> \o Tail(text)
  BY DEF WithoutPlus
<1>6. /\ Tail(text) \in Seq(Entries)
      /\ Len(Tail(text)) = Len(text) - 1
      /\ \A i \in 1 .. Len(text) - 1 : Tail(text)[i] = text[i + 1]
  BY <1>1
<1> HIDE DEF e
<1>a. e \in Entries
  BY <1>4 DEF e
<1>7. <<e>> \in Seq(Entries) /\ Len(<<e>>) = 1 /\ <<e>>[1] = e
  BY <1>a
<1>8. /\ WithoutPlus(text) \in Seq(Entries)
      /\ Len(WithoutPlus(text)) = Len(text)
      /\ WithoutPlus(text)[1] = e
      /\ \A i \in 2 .. Len(text) : WithoutPlus(text)[i] = text[i]
  BY <1>2, <1>5, <1>6, <1>7
<1>9. WithoutPlus(text) # <<>>
  BY <1>2, <1>8
<1> QED
  BY <1>1, <1>2, <1>8, <1>9 DEF e, Lists

\* What directives say are lists.
LEMMA TextsAreLists ==
  /\ ImportTexts \subseteq Lists /\ PathTexts \subseteq Lists
  /\ \A e \in Entries : <<e>> \in Lists
<1>1. ASSUME NEW e \in Entries PROVE <<e>> \in Lists
  BY <1>1 DEF Lists
<1>2. \A text \in PathTexts : \E e \in Entries : text = <<e>>
  BY DEF PathTexts, Entries
<1> QED
  BY <1>1, <1>2, ImportAssumption

\* Two tables make a table.
LEMMA MergeReplsType ==
  ASSUME NEW a \in Tables, NEW b \in Tables
  PROVE  MergeRepls(a, b) \in Tables
<1>1. a # None /\ b # None
  BY NoneAssumption
<1>2. PICK S \in SUBSET Modules : a \in [S -> Paths]
  BY DEF Tables
<1>3. PICK T \in SUBSET Modules : b \in [T -> Paths]
  BY DEF Tables
<1>4. MergeRepls(a, b) \in [S \cup T -> Paths] /\ S \cup T \in SUBSET Modules
  BY <1>1, <1>2, <1>3 DEF MergeRepls
<1> QED
  BY <1>4 DEF Tables

\* The built-in record is one, and what merging makes of two records is one.
LEMMA MergeTypes ==
  ASSUME NEW p \in OptionalOf(Records), NEW c \in OptionalOf(Records)
  PROVE  /\ MergeIfAny(p, c) \in OptionalOf(Records)
         /\ p # None \/ c # None => MergeIfAny(p, c) \in Records
<1> SUFFICES ASSUME p \in Records, c \in Records PROVE Merge(p, c) \in Records
  BY DEF MergeIfAny, OptionalOf
<1>1. MergePlain(p.plain, c.plain) \in [AllPlain -> Values \cup {BuiltIn, None}]
  BY DEF MergePlain, ChildOverParent, Records
<1>2. ASSUME NEW a \in Lists, NEW b \in Lists PROVE a \o b \in Lists
  BY <1>2 DEF Lists
<1>3. <<Entry(FALSE, "ALL")>> \in Lists
  <2>1. Entry(FALSE, "ALL") \in Entries
    BY DEF Entries, Entry
  <2> QED
    BY <2>1, TextsAreLists
<1>4. MergeImports(p.imports, c.imports) \in OptionalOf(Lists)
  BY <1>2, <1>3, Stripped DEF MergeImports, ChildOverParent, Records, OptionalOf
<1>5. MergeGoPath(p.go_path, c.go_path) \in OptionalOf(Lists)
  BY <1>2, Stripped DEF MergeGoPath, ChildOverParent, Records, OptionalOf
<1>7. MergeRepls(p.mod_repls, c.mod_repls) \in OptionalOf(Tables)
  BY MergeReplsType DEF MergeRepls, ChildOverParent, Records, OptionalOf
<1> QED
  BY <1>1, <1>4, <1>5, <1>7 DEF Merge, Records

-----------------------------------------------------------------------------
(***************************************************************************)
(* The invariant.                                                          *)
(***************************************************************************)

\* Records as they are allocated hold nothing.
LEMMA FreshHolds ==
  /\ Fresh \in Records /\ FreshServer \in ServerRecords /\ NothingSaid \in Sayings
  /\ Holds(Fresh, NothingSaid)
<1>1. Fresh \in Records
  BY DEF Fresh, Records, OptionalOf
<1>2. FreshServer \in ServerRecords
  BY DEF FreshServer, ServerRecords, OptionalOf
<1>3. NothingSaid \in Sayings
  BY DEF NothingSaid, Sayings, OptionalOf
<1>4. Holds(Fresh, NothingSaid)
  BY DEF Fresh, NothingSaid, Holds, Replacement, Nullable, AllPlain, Defaulted
<1> QED
  BY <1>1, <1>2, <1>3, <1>4

\* Before the file is read, only the main server has records.
LEMMA ConfigurationInit == ASSUME Init PROVE CInv
<1>1. "main" \in Contexts /\ "main" \in Servers
  BY DEF Contexts, Servers
<1>2. TypeOK
  BY <1>1, FreshHolds, NoneAssumption, BoundAssumption DEF Init, TypeOK, OptionalOf
<1>3. said \in [Contexts -> Sayings]
  BY FreshHolds DEF Init
<1>4. Recorded
  BY FreshHolds DEF Init, Recorded
<1>5. MutexMade
  BY DEF Init, MutexMade
<1> QED
  BY <1>2, <1>3, <1>4, <1>5 DEF CInv

\* A directive finds records, allocated if need be.
LEMMA DirectiveFinds ==
  ASSUME CInv, NEW c \in Contexts
  PROVE  /\ ConfOf(c) \in Records /\ Holds(ConfOf(c), said[c])
         /\ ServerOf(c) \in Servers /\ SconfOf(ServerOf(c)) \in ServerRecords
<1>1. ConfOf(c) \in Records
  BY FreshHolds DEF CInv, TypeOK, OptionalOf, ConfOf
<1>2. Holds(ConfOf(c), said[c])
  BY FreshHolds DEF CInv, Recorded, ConfOf
<1>3. ServerOf(c) \in Servers
  BY DEF ServerOf, CInv, TypeOK, Contexts
<1>4. SconfOf(ServerOf(c)) \in ServerRecords
  BY <1>3, FreshHolds DEF CInv, TypeOK, OptionalOf, SconfOf
<1> QED
  BY <1>1, <1>2, <1>3, <1>4

\* A directive keeps the invariant if it leaves a record that holds what is said.
LEMMA DirectiveKeeps ==
  ASSUME CInv, NEW c \in Contexts, NEW new \in Records,
         NEW snew \in ServerRecords, NEW says \in Sayings, Holds(new, says),
         Directive(c, new, snew), said' = [said EXCEPT ![c] = says]
  PROVE  CInv'
<1>1. /\ conf' = [conf EXCEPT ![c] = new]
      /\ sconf' = [sconf EXCEPT ![ServerOf(c)] = snew]
      /\ count' \in 0 .. MaxDirectives
      /\ phase = "reading" /\ phase' = phase /\ place' = place
  BY BoundAssumption DEF Directive, CInv, TypeOK
<1>2. new # None /\ snew # None
  BY NoneAssumption
<1>3. TypeOK'
  BY <1>1, <1>2, DirectiveFinds DEF CInv, TypeOK, OptionalOf
<1>4. said' \in [Contexts -> Sayings]
  BY DEF CInv
<1>5. Recorded'
  BY <1>1, <1>2 DEF CInv, TypeOK, Recorded
<1>6. MutexMade'
  BY <1>1 DEF MutexMade
<1> QED
  BY <1>3, <1>4, <1>5, <1>6 DEF CInv

\* What becomes of a record of a context when a directive changes a field of it,
\* and of what is said.
LEMMA FieldSet ==
  ASSUME NEW r \in Records, NEW says \in Sayings, Holds(r, says)
  PROVE  /\ \A f \in AllPlain, v \in Values :
              LET new == [r EXCEPT !.plain[f] = v]
                  now == [says EXCEPT !.plain[f] = v]
              IN  new \in Records /\ now \in Sayings /\ Holds(new, now)
         /\ \A text \in PathTexts :
              LET new == [r EXCEPT !.go_path = text]
                  now == [says EXCEPT !.go_path = text]
              IN  new \in Records /\ now \in Sayings /\ Holds(new, now)
         /\ \A text \in ImportTexts :
              LET new == [r EXCEPT !.imports = text]
                  now == [says EXCEPT !.imports = text]
              IN  new \in Records /\ now \in Sayings /\ Holds(new, now)
<1> USE DEF Records, Sayings, OptionalOf, Holds
<1>1. ASSUME NEW f \in AllPlain, NEW v \in Values
      PROVE  LET new == [r EXCEPT !.plain[f] = v]
                 now == [says EXCEPT !.plain[f] = v]
             IN  new \in Records /\ now \in Sayings /\ Holds(new, now)
  BY <1>1 DEF Nullable, AllPlain
<1>2. ASSUME NEW text \in PathTexts
      PROVE  LET new == [r EXCEPT !.go_path = text]
                 now == [says EXCEPT !.go_path = text]
             IN  new \in Records /\ now \in Sayings /\ Holds(new, now)
  BY <1>2, TextsAreLists
<1>3. ASSUME NEW text \in ImportTexts
      PROVE  LET new == [r EXCEPT !.imports = text]
                 now == [says EXCEPT !.imports = text]
             IN  new \in Records /\ now \in Sayings /\ Holds(new, now)
  BY <1>3, TextsAreLists
<1> QED
  BY <1>1, <1>2, <1>3

\* A directive about a module changes the table, and what is said of the module.
LEMMA ReplSet ==
  ASSUME NEW r \in Records, NEW says \in Sayings, Holds(r, says),
         NEW m \in Modules, NEW p \in Paths \cup {None}
  PROVE  LET table == HashSet(IF r.mod_repls = None THEN <<>> ELSE r.mod_repls, m, p)
             new   == [r EXCEPT !.mod_repls = table]
             now   == [says EXCEPT !.repl[m] = IF p = None THEN "cancelled" ELSE p]
         IN  new \in Records /\ now \in Sayings /\ Holds(new, now)
<1> DEFINE old == IF r.mod_repls = None THEN <<>> ELSE r.mod_repls
<1> DEFINE table == HashSet(old, m, p)
<1> DEFINE new == [r EXCEPT !.mod_repls = table]
<1> DEFINE now == [says EXCEPT !.repl[m] = IF p = None THEN "cancelled" ELSE p]
<1>1. PICK S \in SUBSET Modules : old \in [S -> Paths]
  <2>1. CASE r.mod_repls = None
    <3>1. <<>> \in [{} -> Paths]
      OBVIOUS
    <3> QED
      BY <2>1, <3>1
  <2>2. CASE r.mod_repls # None
    BY <2>2 DEF Records, OptionalOf, Tables
  <2> QED
    BY <2>1, <2>2
<1>2. \A x \in Modules : Replacement(r.mod_repls, x) = IF x \in S THEN old[x] ELSE None
  BY <1>1 DEF Replacement
<1> HIDE DEF old
<1>3. /\ DOMAIN table = (S \ {m}) \cup (IF p = None THEN {} ELSE {m})
      /\ \A x \in DOMAIN table : table[x] = IF x = m THEN p ELSE old[x]
      /\ table \in Tables
  <2> DEFINE D == (S \ {m}) \cup (IF p = None THEN {} ELSE {m})
  <2>1. table = [x \in D |-> IF x = m THEN p ELSE old[x]]
    BY <1>1 DEF HashSet
  <2>2. D \in SUBSET Modules /\ \A x \in D : (IF x = m THEN p ELSE old[x]) \in Paths
    BY <1>1
  <2> QED
    BY <2>1, <2>2 DEF Tables
<1>4. table # None
  BY <1>3, NoneAssumption
<1>5. \A x \in Modules :
        Replacement(table, x) = IF x = m THEN p ELSE IF x \in S THEN old[x] ELSE None
  BY <1>3, <1>4 DEF Replacement
<1> HIDE DEF table
<1>6. new \in Records /\ new.mod_repls = table
  BY <1>3 DEF Records, OptionalOf
<1>7. now \in Sayings
  BY DEF Sayings
<1>8. \A x \in Modules :
        now.repl[x] = IF x # m THEN says.repl[x] ELSE IF p = None THEN "cancelled" ELSE p
  BY DEF Sayings
<1>9. ASSUME NEW x \in Modules, now.repl[x] # "cancelled"
      PROVE  now.repl[x] = Replacement(new.mod_repls, x)
  BY <1>2, <1>5, <1>6, <1>8, <1>9 DEF Holds
<1>10. now.repl[m] # None
  BY <1>8, NoneAssumption
<1>11. Holds(new, now)
  <2>1. /\ new.plain = r.plain /\ new.imports = r.imports /\ new.go_path = r.go_path
        /\ now.plain = says.plain /\ now.imports = says.imports /\ now.go_path = says.go_path
    BY DEF Records, Sayings
  <2> HIDE DEF new, now
  <2> QED
    BY <1>4, <1>6, <1>9, <1>10, <2>1 DEF Holds
<1> QED
  BY <1>6, <1>7, <1>11 DEF old, table, new, now

\* Every step of the configuration keeps the invariant.
LEMMA ConfigurationStep == ASSUME CInv, [Next]_vars PROVE CInv'
<1>1. ASSUME NEW c \in Contexts, Read(c) PROVE CInv'
  <2> USE DEF ContextDirective
  <2>0. /\ ConfOf(c) \in Records /\ said[c] \in Sayings /\ Holds(ConfOf(c), said[c])
        /\ SconfOf(ServerOf(c)) \in ServerRecords
    BY DirectiveFinds DEF CInv
  <2>1. ASSUME NEW f \in Plain, NEW v \in Values, SetPlain(c, f, v) PROVE CInv'
    <3> DEFINE new == [ConfOf(c) EXCEPT !.plain[f] = v]
    <3> DEFINE now == [said[c] EXCEPT !.plain[f] = v]
    <3>1. new \in Records /\ now \in Sayings /\ Holds(new, now)
      BY <2>0, PlainAssumption, FieldSet
    <3>2. Directive(c, new, SconfOf(ServerOf(c))) /\ said' = [said EXCEPT ![c] = now]
      BY <2>1 DEF SetPlain
    <3> HIDE DEF new, now
    <3> QED
      BY <2>0, <3>1, <3>2, DirectiveKeeps
  <2>2. ASSUME NEW text \in PathTexts, SetGoPath(c, text) PROVE CInv'
    <3> DEFINE new == [ConfOf(c) EXCEPT !.go_path = text]
    <3> DEFINE now == [said[c] EXCEPT !.go_path = text]
    <3>1. new \in Records /\ now \in Sayings /\ Holds(new, now)
      BY <2>0, FieldSet
    <3>2. Directive(c, new, SconfOf(ServerOf(c))) /\ said' = [said EXCEPT ![c] = now]
      BY <2>2 DEF SetGoPath
    <3> HIDE DEF new, now
    <3> QED
      BY <2>0, <3>1, <3>2, DirectiveKeeps
  <2>3. ASSUME NEW text \in ImportTexts, SetAllowedImports(c, text) PROVE CInv'
    <3> DEFINE new == [ConfOf(c) EXCEPT !.imports = text]
    <3> DEFINE now == [said[c] EXCEPT !.imports = text]
    <3>1. new \in Records /\ now \in Sayings /\ Holds(new, now)
      BY <2>0, FieldSet
    <3>2. Directive(c, new, SconfOf(ServerOf(c))) /\ said' = [said EXCEPT ![c] = now]
      BY <2>3 DEF SetAllowedImports
    <3> HIDE DEF new, now
    <3> QED
      BY <2>0, <3>1, <3>2, DirectiveKeeps
  <2>4. ASSUME NEW m \in Modules, NEW p \in Paths \cup {None}, AddModRepl(c, m, p)
        PROVE  CInv'
    <3> DEFINE old == ConfOf(c).mod_repls
    <3> DEFINE new == [ConfOf(c) EXCEPT !.mod_repls =
                         HashSet(IF old = None THEN <<>> ELSE old, m, p)]
    <3> DEFINE now == [said[c] EXCEPT !.repl[m] = IF p = None THEN "cancelled" ELSE p]
    <3>1. new \in Records /\ now \in Sayings /\ Holds(new, now)
      BY <2>0, ReplSet
    <3>2. Directive(c, new, SconfOf(ServerOf(c))) /\ said' = [said EXCEPT ![c] = now]
      BY <2>4 DEF AddModRepl
    <3> HIDE DEF new, now
    <3> QED
      BY <2>0, <3>1, <3>2, DirectiveKeeps
  <2>5. said' = said => said' = [said EXCEPT ![c] = said[c]]
    BY DEF CInv
  <2>6. ASSUME NEW d \in Dirs, SetWorkDir(c, d) PROVE CInv'
    <3> DEFINE snew == [SconfOf(ServerOf(c)) EXCEPT !.work_dir = d]
    <3>1. snew \in ServerRecords
      BY <2>0 DEF ServerRecords
    <3>2. Directive(c, ConfOf(c), snew) /\ said' = [said EXCEPT ![c] = said[c]]
      BY <2>5, <2>6 DEF SetWorkDir
    <3> HIDE DEF snew
    <3> QED
      BY <2>0, <3>1, <3>2, DirectiveKeeps
  <2>7. ASSUME NEW u \in Values, SetUserId(c, u) PROVE CInv'
    <3> DEFINE snew == [SconfOf(ServerOf(c)) EXCEPT !.user = u]
    <3>1. snew \in ServerRecords
      BY <2>0 DEF ServerRecords
    <3>2. Directive(c, ConfOf(c), snew) /\ said' = [said EXCEPT ![c] = said[c]]
      BY <2>5, <2>7 DEF SetUserId
    <3> HIDE DEF snew
    <3> QED
      BY <2>0, <3>1, <3>2, DirectiveKeeps
  <2> QED
    BY <1>1, <2>1, <2>2, <2>3, <2>4, <2>6, <2>7 DEF Read
<1>2. CASE UnknownUser
  BY <1>2 DEF UnknownUser, CInv, TypeOK, Recorded, MutexMade
<1>3. ASSUME NEW found \in {"absent", "directory", "file", "denied"},
             NEW lockable \in BOOLEAN, PostConfig(found, lockable)
      PROVE  CInv'
  <2>1. CASE phase' = "refused" /\ UNCHANGED <<place, conf, sconf, count, said>>
    BY <2>1 DEF CInv, TypeOK, Recorded, MutexMade
  <2>2. CASE /\ phase' = "ready"
             /\ sconf' = [sconf EXCEPT !["main"].mutex = sconf["main"].work_dir]
             /\ UNCHANGED <<place, conf, count, said>>
    <3> DEFINE r == sconf["main"]
    <3> DEFINE new == [r EXCEPT !.mutex = r.work_dir]
    <3>1. r \in ServerRecords
      BY DEF CInv, TypeOK, OptionalOf, Servers
    <3>2. new \in ServerRecords /\ new.mutex \in Dirs \cup {BuiltIn}
      BY <3>1 DEF ServerRecords, OptionalOf
    <3>3. sconf' = [sconf EXCEPT !["main"] = new]
      BY <2>2
    <3> HIDE DEF new
    <3>4. /\ sconf'["main"] = new /\ sconf' \in [Servers -> OptionalOf(ServerRecords)]
          /\ new # None /\ new.mutex # None
      BY <3>2, <3>3, NoneAssumption DEF CInv, TypeOK, OptionalOf, Servers
    <3> QED
      BY <2>2, <3>4 DEF CInv, TypeOK, Recorded, MutexMade
  <2> QED
    BY <1>3, <2>1, <2>2 DEF PostConfig
<1>4. ASSUME NEW s \in Servers, Rebuild(s) PROVE CInv'
  BY <1>4 DEF Rebuild, CInv, TypeOK, Recorded, MutexMade
<1>5. CASE UNCHANGED vars
  BY <1>5 DEF vars, CInv, TypeOK, Recorded, MutexMade
<1> QED
  BY <1>1, <1>2, <1>3, <1>4, <1>5 DEF Next

\* The inductive invariant holds of every configuration.
THEOREM Configuring == Spec => []CInv
<1>1. Init => CInv
  BY ConfigurationInit
<1>2. CInv /\ [Next]_vars => CInv'
  BY ConfigurationStep
<1> QED
  BY <1>1, <1>2, PTL DEF Spec

\* Every variable of the configuration keeps its type, and no table of
\* replacements holds NULL (mod_gosp.c:84-96).
THEOREM ConfigurationTypes == Spec => []TypeOK
<1>1. CInv => TypeOK
  BY DEF CInv
<1> QED
  BY <1>1, Configuring, PTL

-----------------------------------------------------------------------------
(***************************************************************************)
(* Lists of contexts.                                                      *)
(***************************************************************************)

\* What the contexts of a list hold, as a list.
LEMMA AlongType ==
  ASSUME NEW C, NEW list \in Seq(C), NEW s, NEW held, NEW R, None \in R,
         \A c \in C : held[c] \in R
  PROVE  /\ Along(list, s, held) \in Seq(R)
         /\ Len(Along(list, s, held)) = Len(list)
<1>1. DOMAIN list = 1 .. Len(list) /\ Len(list) \in Nat /\ \A i \in 1 .. Len(list) : list[i] \in C
  OBVIOUS
<1>2. [i \in 1 .. Len(list) |-> Held(list[i], s, held)] \in [1 .. Len(list) -> R]
  BY <1>1 DEF Held
<1> QED
  BY <1>1, <1>2 DEF Along

\* One more context, one more value.
LEMMA AlongGrows ==
  ASSUME NEW C, NEW list \in Seq(C), NEW c \in C, NEW s, NEW held
  PROVE  Along(Append(list, c), s, held) = Append(Along(list, s, held), Held(c, s, held))
<1> DEFINE R == {held[d] : d \in C} \cup {None}
<1> DEFINE longer == Append(list, c)
<1> DEFINE p == Along(list, s, held)
<1> DEFINE q == Along(longer, s, held)
<1> DEFINE v == Held(c, s, held)
<1>1. None \in R /\ (\A d \in C : held[d] \in R) /\ v \in R
  BY DEF Held
<1> HIDE DEF R
<1>2. /\ longer \in Seq(C) /\ Len(longer) = Len(list) + 1 /\ Len(list) \in Nat
      /\ longer[Len(list) + 1] = c /\ \A i \in 1 .. Len(list) : longer[i] = list[i]
      /\ DOMAIN list = 1 .. Len(list) /\ DOMAIN longer = 1 .. Len(list) + 1
  OBVIOUS
<1> HIDE DEF longer
<1>3. p \in Seq(R) /\ q \in Seq(R) /\ Len(p) = Len(list) /\ Len(q) = Len(list) + 1
  <2>1. ASSUME NEW l \in Seq(C)
        PROVE  Along(l, s, held) \in Seq(R) /\ Len(Along(l, s, held)) = Len(l)
    BY <1>1, AlongType
  <2> QED
    BY <1>2, <2>1
<1>4. \A i \in 1 .. Len(list) : q[i] = p[i]
  BY <1>2 DEF Along
<1>5. q[Len(list) + 1] = v
  BY <1>2 DEF Along
<1> HIDE DEF p, q, v
<1>6. q = Append(p, v)
  BY <1>1, <1>2, <1>3, <1>4, <1>5
<1> QED
  BY <1>6 DEF p, q, v, longer

\* What the two servers hold, before anything that their sections do.
LEMMA AlongServers ==
  ASSUME NEW s \in Servers, NEW held
  PROVE  Along(<<"main", "vhost">>, s, held)
           = <<held["main"], IF s = "main" THEN None ELSE held["vhost"]>>
<1>1. "main" \in Around(s) /\ (s = "vhost" => "vhost" \in Around(s))
  BY DEF Around
<1>2. s = "main" => "vhost" \notin Around(s)
  BY SectionsAssumption DEF Around, Servers
<1> DEFINE list == <<"main", "vhost">>
<1>3. DOMAIN list = {1, 2} /\ list[1] = "main" /\ list[2] = "vhost"
  OBVIOUS
<1>4. Along(list, s, held) = [i \in {1, 2} |-> IF i = 1 THEN held["main"]
                                               ELSE IF s = "main" THEN None ELSE held["vhost"]]
  BY <1>1, <1>2, <1>3 DEF Along, Held, Servers
<1> HIDE DEF list
<1>5. \A x, y : <<x, y>> = [i \in {1, 2} |-> IF i = 1 THEN x ELSE y]
  OBVIOUS
<1> QED
  BY <1>4, <1>5 DEF list

-----------------------------------------------------------------------------
(***************************************************************************)
(* Settings where the innermost context decides.                           *)
(***************************************************************************)

\* The contexts around a page are contexts, and in the list of them.
LEMMA ChainType ==
  /\ Chain \in Seq(Contexts)
  /\ \A s \in Servers : \A d \in Around(s) : d \in Contexts /\ \E i \in DOMAIN Chain : Chain[i] = d
<1> DEFINE servers == <<"main", "vhost">>
<1>1. /\ servers \in Seq(Contexts) /\ Len(servers) = 2
      /\ servers[1] = "main" /\ servers[2] = "vhost"
  BY DEF Contexts, Servers
<1>2. Sections \in Seq(Contexts) /\ Len(Sections) \in Nat
  BY SectionsAssumption DEF Contexts
<1> HIDE DEF servers
<1>3. /\ Chain \in Seq(Contexts) /\ Len(Chain) = 2 + Len(Sections)
      /\ DOMAIN Chain = 1 .. 2 + Len(Sections) /\ DOMAIN Sections = 1 .. Len(Sections)
      /\ Chain[1] = "main" /\ Chain[2] = "vhost"
      /\ \A i \in 1 .. Len(Sections) : Chain[2 + i] = Sections[i]
  BY <1>1, <1>2 DEF Chain, servers
<1>4. ASSUME NEW s \in Servers, NEW d \in Around(s)
      PROVE  d \in Contexts /\ \E i \in DOMAIN Chain : Chain[i] = d
  <2>1. CASE d \in Servers
    BY <1>2, <1>3, <2>1 DEF Contexts, Servers
  <2>2. CASE d \in ToSet(Sections)
    <3>1. PICK i \in DOMAIN Sections : Sections[i] = d
      BY <2>2 DEF ToSet
    <3>2. 2 + i \in DOMAIN Chain /\ Chain[2 + i] = d
      BY <1>2, <1>3, <3>1
    <3> QED
      BY <2>2, <3>2 DEF Contexts
  <2> QED
    BY <1>4, <2>1, <2>2 DEF Around, Servers
<1> QED
  BY <1>3, <1>4

\* The merges of a page's sections make a record of their records.
SectionsMerged(list, s) == Merging!Fold(Along(list, s, conf))

\* The folds of the model are those that the theorems of Folding are about.
LEMMA LinkedFolds ==
  /\ \A s : SectionLevel(s) = SectionsMerged(Sections, s)
  /\ \A s, setting : Innermost(s, setting) = Deciding!Fold(Along(Chain, s, setting))
<1>1. \A list : FoldLeft(MergeIfAny, None, list) = Merging!Fold(list)
  BY DEF Merging!Fold, FoldLeft, MapThenFoldSet, Max,
         Merging!FoldLeft, Merging!MapThenFoldSet, Merging!Max
<1>2. \A list : FoldLeft(Override, None, list) = Deciding!Fold(list)
  BY DEF Deciding!Fold, FoldLeft, MapThenFoldSet, Max,
         Deciding!FoldLeft, Deciding!MapThenFoldSet, Deciding!Max
<1> QED
  BY <1>1, <1>2 DEF SectionLevel, SectionsMerged, Innermost

\* One more section is merged into what those around it are merged to.
LEMMA OneMoreSection ==
  ASSUME TypeOK, NEW s \in Servers, NEW list \in Seq(Contexts), NEW c \in Contexts
  PROVE  SectionsMerged(Append(list, c), s)
           = MergeIfAny(SectionsMerged(list, s), Held(c, s, conf))
<1>1. /\ None \in OptionalOf(Records)
      /\ \A d \in Contexts : conf[d] \in OptionalOf(Records)
  BY DEF TypeOK, OptionalOf
<1> DEFINE r == Held(c, s, conf)
<1>2. Along(list, s, conf) \in Seq(OptionalOf(Records)) /\ r \in OptionalOf(Records)
  BY <1>1, AlongType DEF Held
<1>a. Along(Append(list, c), s, conf) = Append(Along(list, s, conf), r)
  BY AlongGrows
<1> HIDE DEF r
<1>3. Merging!Fold(Append(Along(list, s, conf), r))
        = MergeIfAny(Merging!Fold(Along(list, s, conf)), r)
  BY <1>2, Merging!FoldAppend
<1> QED
  BY <1>a, <1>3 DEF SectionsMerged, r

\* Merged sections are a record or none, ...
LEMMA SectionsMergedType ==
  ASSUME TypeOK, NEW s \in Servers, NEW list \in Seq(Contexts)
  PROVE  SectionsMerged(list, s) \in OptionalOf(Records)
<1>1. /\ None \in OptionalOf(Records)
      /\ \A d \in Contexts : conf[d] \in OptionalOf(Records)
  BY DEF TypeOK, OptionalOf
<1>2. Along(list, s, conf) \in Seq(OptionalOf(Records))
  <2>1. "main" \in Contexts
    BY DEF Contexts, Servers
  <2> QED
    BY <1>1, <2>1, AlongType
<1>3. Merging!Fold(Along(list, s, conf)) \in OptionalOf(Records)
  BY <1>1, <1>2, MergeTypes, Merging!FoldPreserves
<1> QED
  BY <1>3 DEF SectionsMerged

\* ... a server has a record, ...
LEMMA ServerLevelType ==
  ASSUME TypeOK, NEW s \in Servers
  PROVE  ServerLevel(s) \in Records /\ conf["main"] \in Records
<1>1. /\ conf["main"] \in Records
      /\ conf["vhost"] \in OptionalOf(Records)
  BY DEF TypeOK, OptionalOf, Contexts, Servers
<1>2. MergeIfAny(conf["main"], conf["vhost"]) \in Records
  BY <1>1, MergeTypes, NoneAssumption DEF OptionalOf
<1> QED
  BY <1>1, <1>2 DEF ServerLevel

\* ... and so has a page.
LEMMA EffectiveType ==
  ASSUME TypeOK, NEW s \in Servers
  PROVE  Effective(s) \in Records
<1>1. Sections \in Seq(Contexts)
  BY SectionsAssumption DEF Contexts
<1>2. SectionLevel(s) \in OptionalOf(Records)
  BY <1>1, LinkedFolds, SectionsMergedType
<1>3. ServerLevel(s) \in Records /\ ServerLevel(s) # None
  BY ServerLevelType, NoneAssumption
<1> QED
  BY <1>2, <1>3, MergeTypes DEF Effective, OptionalOf

\* Tables are overlaid module by module.
LEMMA OverlaidTables ==
  ASSUME NEW p \in OptionalOf(Tables), NEW c \in OptionalOf(Tables), NEW m \in Modules
  PROVE  Replacement(MergeRepls(p, c), m) = Override(Replacement(p, m), Replacement(c, m))
<1>1. CASE p = None \/ c = None
  BY <1>1 DEF MergeRepls, ChildOverParent, Replacement, Override
<1>2. CASE p # None /\ c # None
  <2>1. p \in Tables /\ c \in Tables
    BY <1>2 DEF OptionalOf
  <2>2. MergeRepls(p, c) # None
    <3>1. p \in OptionalOf(Tables) /\ MergeRepls(p, c) \in Tables
      BY <1>2, <2>1, MergeReplsType
    <3> QED
      BY <3>1, NoneAssumption
  <2>3. \A x \in DOMAIN c : c[x] # None
    BY <2>1, NoneAssumption DEF Tables
  <2>4. MergeRepls(p, c) = [x \in DOMAIN p \cup DOMAIN c |-> IF x \in DOMAIN c THEN c[x] ELSE p[x]]
    BY <1>2 DEF MergeRepls
  <2> QED
    BY <1>2, <2>2, <2>3, <2>4 DEF Replacement, Override
<1> QED
  BY <1>1, <1>2

\* If merging has one value V of a record override another like Override does,
\* then the innermost context decides V.
LEMMA MergesDecide ==
  ASSUME TypeOK, NEW s \in Servers, NEW V, NEW setting, V[None] = None,
         \A p, c \in OptionalOf(Records) : V[MergeIfAny(p, c)] = Override(V[p], V[c]),
         \A c \in Contexts \cap Around(s) : setting[c] = V[conf[c]]
  PROVE  Innermost(s, setting) = V[Effective(s)]
<1> DEFINE servers == <<"main", "vhost">>
<1> DEFINE Says(list) == Deciding!Fold(Along(servers \o list, s, setting))
<1> DEFINE T == {list \in Seq(Contexts) :
                   Says(list) = Override(V[ServerLevel(s)], V[SectionsMerged(list, s)])}
<1> DEFINE R == {setting[c] : c \in Contexts} \cup {None}
<1>0. /\ servers \in Seq(Contexts) /\ None \in R /\ \A c \in Contexts : setting[c] \in R
      /\ "main" \in Contexts /\ "vhost" \in Contexts
  BY DEF Contexts, Servers
<1>a. "main" \in Around(s) /\ (s # "main" => "vhost" \in Around(s))
  BY DEF Around, Servers
<1> HIDE DEF R
<1>1. <<>> \in T
  <2>1. servers \o <<>> = servers /\ <<>> \in Seq(Contexts)
    BY <1>0
  <2>2. Says(<<>>) = Override(Override(None, setting["main"]),
                             IF s = "main" THEN None ELSE setting["vhost"])
    BY <2>1, AlongServers, Deciding!FoldTwo
  <2>3. Override(None, setting["main"]) = V[conf["main"]]
    BY <1>0, <1>a DEF Override
  <2>4. Says(<<>>) = V[ServerLevel(s)]
    <3>1. CASE s = "main"
      BY <2>2, <2>3, <3>1 DEF ServerLevel, Override
    <3>2. CASE s # "main"
      <4>1. conf["main"] \in OptionalOf(Records) /\ conf["vhost"] \in OptionalOf(Records)
        BY <1>0 DEF TypeOK
      <4> QED
        BY <1>0, <1>a, <2>2, <2>3, <3>2, <4>1 DEF ServerLevel
    <3> QED
      BY <3>1, <3>2
  <2>5. SectionsMerged(<<>>, s) = None
    <3>1. Along(<<>>, s, conf) = <<>>
      BY DEF Along
    <3> QED
      BY <3>1, Merging!FoldEmpty DEF SectionsMerged
  <2> HIDE DEF Says
  <2> QED
    BY <2>1, <2>4, <2>5 DEF Override
<1> HIDE DEF servers
<1>2. ASSUME NEW list \in Seq(Contexts), NEW c \in Contexts, list \in T
      PROVE  Append(list, c) \in T
  <2> DEFINE v == Held(c, s, setting)
  <2> DEFINE r == Held(c, s, conf)
  <2>1. /\ servers \o list \in Seq(Contexts)
        /\ servers \o Append(list, c) = Append(servers \o list, c)
        /\ Append(list, c) \in Seq(Contexts)
    BY <1>0, Merging!ConcatAppend
  <2>2. Says(Append(list, c)) = Override(Says(list), v)
    <3>1. Along(servers \o list, s, setting) \in Seq(R) /\ v \in R
      BY <1>0, <2>1, AlongType DEF Held
    <3>a. Along(Append(servers \o list, c), s, setting)
            = Append(Along(servers \o list, s, setting), v)
      <4>1. ASSUME NEW l \in Seq(Contexts)
            PROVE  Along(Append(l, c), s, setting) = Append(Along(l, s, setting), v)
        BY AlongGrows
      <4> QED
        BY <2>1, <4>1
    <3> HIDE DEF v
    <3>2. Deciding!Fold(Append(Along(servers \o list, s, setting), v))
            = Override(Deciding!Fold(Along(servers \o list, s, setting)), v)
      BY <3>1, Deciding!FoldAppend
    <3> QED
      BY <2>1, <3>a, <3>2
  <2>3. SectionsMerged(Append(list, c), s) = MergeIfAny(SectionsMerged(list, s), r)
    BY OneMoreSection
  <2>4. SectionsMerged(list, s) \in OptionalOf(Records) /\ r \in OptionalOf(Records)
    BY SectionsMergedType DEF TypeOK, OptionalOf, Held
  <2>5. v = V[r]
    BY DEF Held
  <2>6. Says(list) = Override(V[ServerLevel(s)], V[SectionsMerged(list, s)])
    BY <1>2
  <2> HIDE DEF Says, v, r
  <2>7. Says(Append(list, c))
          = Override(V[ServerLevel(s)], V[SectionsMerged(Append(list, c), s)])
    BY <2>2, <2>3, <2>4, <2>5, <2>6 DEF Override
  <2> QED
    BY <2>1, <2>7
<1> HIDE DEF T
<1>3. Seq(Contexts) \subseteq T
  BY <1>1, <1>2, Merging!ListInduction
<1>4. Sections \in Seq(Contexts)
  BY SectionsAssumption DEF Contexts
<1>5. Sections \in T
  BY <1>3, <1>4
<1>6. Says(Sections) = Override(V[ServerLevel(s)], V[SectionsMerged(Sections, s)])
  BY <1>5 DEF T
<1>7. Says(Sections) = Innermost(s, setting)
  BY LinkedFolds DEF Chain, servers
<1>8. Effective(s) = MergeIfAny(ServerLevel(s), SectionsMerged(Sections, s))
  BY LinkedFolds DEF Effective
<1>9. /\ ServerLevel(s) \in OptionalOf(Records)
      /\ SectionsMerged(Sections, s) \in OptionalOf(Records)
  BY <1>4, ServerLevelType, SectionsMergedType DEF OptionalOf
<1> QED
  BY <1>6, <1>7, <1>8, <1>9

\* Wherever a setting is made that has no built-in value, the innermost context
\* that makes it decides (mod_gosp.c:197).
THEOREM InnermostOnesDecide == Spec => []InnermostDecides
<1>1. ASSUME CInv, NEW s \in Servers, NEW f \in Nullable
      PROVE  Effective(s).plain[f] = DocPlain(s, f)
  <2> DEFINE V == [r \in OptionalOf(Records) |-> IF r = None THEN None ELSE r.plain[f]]
  <2> DEFINE setting == [c \in Contexts |-> said[c].plain[f]]
  <2>0. /\ \A r \in Records : r # None
        /\ None \in OptionalOf(Records)
        /\ \A r : r \in OptionalOf(Records) <=> r = None \/ r \in Records
        /\ f \in AllPlain
    BY NoneAssumption DEF OptionalOf, AllPlain
  <2>1. V[None] = None
    BY <2>0
  <2>2. ASSUME NEW p \in OptionalOf(Records), NEW c \in OptionalOf(Records)
        PROVE  V[MergeIfAny(p, c)] = Override(V[p], V[c])
    <3>1. CASE p = None \/ c = None
      BY <2>0, <3>1 DEF MergeIfAny, Override
    <3>2. CASE p # None /\ c # None
      <4>1. MergeIfAny(p, c) = Merge(p, c) /\ MergeIfAny(p, c) \in Records
        BY <3>2, MergeTypes DEF MergeIfAny
      <4>2. Merge(p, c).plain[f] = IF c.plain[f] = None THEN p.plain[f] ELSE c.plain[f]
        BY <2>0 DEF Merge, MergePlain, ChildOverParent
      <4> QED
        BY <2>0, <3>2, <4>1, <4>2 DEF Override
    <3> QED
      BY <3>1, <3>2
  <2>3. \A c \in Contexts : setting[c] = V[conf[c]]
    BY <1>1, <2>0 DEF CInv, TypeOK, Recorded, Holds, NothingSaid
  <2>4. TypeOK
    BY <1>1 DEF CInv
  <2>5. Effective(s) \in Records
    BY <2>4, EffectiveType
  <2> HIDE DEF V, setting
  <2>6. Innermost(s, setting) = V[Effective(s)]
    BY <2>1, <2>2, <2>3, <2>4, MergesDecide
  <2> QED
    BY <2>0, <2>5, <2>6 DEF V, setting, DocPlain
<1>2. CInv => InnermostDecides
  BY <1>1 DEF InnermostDecides
<1> QED
  BY <1>2, Configuring, PTL

\* A replacement that no context cancels reaches gosp2go as the innermost context
\* gives it, and nothing else does (mod_gosp.c:218-233, launch.c:155-163).
THEOREM ReplacementsReachPages == Spec => []ReplacementsAccumulate
<1>1. ASSUME CInv, NEW s \in Servers, NEW m \in Modules,
             \A c \in Around(s) : said[c].repl[m] # "cancelled"
      PROVE  Replacement(Effective(s).mod_repls, m) = DocReplaced(s, m)
  <2> DEFINE V == [r \in OptionalOf(Records) |->
                     IF r = None THEN None ELSE Replacement(r.mod_repls, m)]
  <2> DEFINE setting == [c \in Contexts |-> said[c].repl[m]]
  <2>0. /\ \A r \in Records : r # None
        /\ None \in OptionalOf(Records)
        /\ \A r : r \in OptionalOf(Records) <=> r = None \/ r \in Records
    BY NoneAssumption DEF OptionalOf
  <2>1. V[None] = None
    BY <2>0
  <2>2. ASSUME NEW p \in OptionalOf(Records), NEW c \in OptionalOf(Records)
        PROVE  V[MergeIfAny(p, c)] = Override(V[p], V[c])
    <3>1. CASE p = None \/ c = None
      BY <2>0, <3>1 DEF MergeIfAny, Override
    <3>2. CASE p # None /\ c # None
      <4>1. MergeIfAny(p, c) = Merge(p, c) /\ MergeIfAny(p, c) \in Records
        BY <3>2, MergeTypes DEF MergeIfAny
      <4>2. Replacement(MergeRepls(p.mod_repls, c.mod_repls), m)
              = Override(Replacement(p.mod_repls, m), Replacement(c.mod_repls, m))
        <5>1. /\ p.mod_repls \in OptionalOf(Tables) /\ c.mod_repls \in OptionalOf(Tables)
          <6>1. p \in Records /\ c \in Records
            BY <3>2 DEF OptionalOf
          <6> QED
            BY <6>1 DEF Records
        <5> QED
          BY <5>1, OverlaidTables
      <4> QED
        BY <2>0, <3>2, <4>1, <4>2 DEF Merge
    <3> QED
      BY <3>1, <3>2
  <2>3. \A c \in Contexts \cap Around(s) : setting[c] = V[conf[c]]
    BY <1>1, <2>0 DEF CInv, TypeOK, Recorded, Holds, NothingSaid
  <2>4. TypeOK
    BY <1>1 DEF CInv
  <2>5. Effective(s) \in Records
    BY <2>4, EffectiveType
  <2> HIDE DEF V, setting
  <2>6. Innermost(s, setting) = V[Effective(s)]
    BY <2>1, <2>2, <2>3, <2>4, MergesDecide
  <2> QED
    BY <2>0, <2>5, <2>6 DEF V, setting, DocReplaced
<1>2. ASSUME CInv PROVE ReplacementsAccumulate
  <2> SUFFICES ASSUME NEW s \in Servers, NEW m \in Modules,
                      \A c \in Around(s) : said[c].repl[m] # "cancelled"
               PROVE  LET table == Replaced(s)
                          given == IF table = None THEN {} ELSE DOMAIN table
                      IN  IF DocReplaced(s, m) = None
                          THEN m \notin given
                          ELSE m \in given /\ table[m] = DocReplaced(s, m)
    BY DEF ReplacementsAccumulate
  <2>1. Replacement(Replaced(s), m) = DocReplaced(s, m)
    BY <1>1, <1>2 DEF Replaced
  <2>2. Replaced(s) \in OptionalOf(Tables)
    BY <1>2, EffectiveType DEF CInv, Replaced, Records
  <2>3. \A x \in DOMAIN Replaced(s) : Replaced(s) # None => Replaced(s)[x] # None
    BY <2>2, NoneAssumption DEF OptionalOf, Tables
  <2> QED
    BY <2>1, <2>3 DEF Replacement
<1> QED
  BY <1>2, Configuring, PTL

\* The fold with Override is None only for a list of nothing.
LEMMA SomethingDecides ==
  ASSUME NEW s, NEW setting, NEW list \in Seq(Contexts),
         Deciding!Fold(Along(list, s, setting)) = None
  PROVE  \A i \in DOMAIN list : Held(list[i], s, setting) = None
<1> DEFINE F(l) == Deciding!Fold(Along(l, s, setting))
<1> DEFINE T == {l \in Seq(Contexts) :
                   F(l) = None => \A i \in DOMAIN l : Held(l[i], s, setting) = None}
<1>1. <<>> \in T
  OBVIOUS
<1>2. ASSUME NEW l \in Seq(Contexts), NEW c \in Contexts, l \in T
      PROVE  Append(l, c) \in T
  <2> DEFINE v == Held(c, s, setting)
  <2> DEFINE R == {setting[d] : d \in Contexts} \cup {None}
  <2>1. None \in R /\ (\A d \in Contexts : setting[d] \in R) /\ v \in R
    BY DEF Held
  <2> HIDE DEF R
  <2>2. Along(l, s, setting) \in Seq(R)
    BY <2>1, AlongType
  <2>3. Along(Append(l, c), s, setting) = Append(Along(l, s, setting), v)
    BY AlongGrows
  <2>4. F(Append(l, c)) = Override(F(l), v)
    <3> HIDE DEF v
    <3>1. Deciding!Fold(Append(Along(l, s, setting), v))
            = Override(Deciding!Fold(Along(l, s, setting)), v)
      BY <2>1, <2>2, Deciding!FoldAppend
    <3> QED
      BY <2>3, <3>1
  <2>5. /\ Append(l, c) \in Seq(Contexts) /\ Append(l, c)[Len(l) + 1] = c
        /\ DOMAIN Append(l, c) = 1 .. Len(l) + 1 /\ DOMAIN l = 1 .. Len(l)
        /\ \A i \in 1 .. Len(l) : Append(l, c)[i] = l[i]
        /\ Len(l) \in Nat
    OBVIOUS
  <2>6. F(l) = None => \A i \in DOMAIN l : Held(l[i], s, setting) = None
    BY <1>2
  <2> DEFINE m == Append(l, c)
  <2> HIDE DEF F, m
  <2>7. ASSUME F(m) = None, NEW i \in DOMAIN m PROVE Held(m[i], s, setting) = None
    <3>1. F(l) = None /\ v = None
      BY <2>4, <2>7 DEF Override, m
    <3>2. i \in 1 .. Len(l) \/ i = Len(l) + 1
      BY <2>5 DEF m
    <3> QED
      BY <2>5, <2>6, <3>1, <3>2 DEF m
  <2> QED
    BY <2>5, <2>7 DEF m
<1> HIDE DEF T
<1>3. list \in T
  BY <1>1, <1>2, Merging!ListInduction
<1> QED
  BY <1>3 DEF T

\* A worker can rebuild a page where some context around it has replaced a module
\* and its server has no record of its own (mod_gosp.c:218-233, 329, launch.c:140).
THEOREM RebuildsSurvive == Spec => []RebuildSurvivesWhereSet
<1>1. ASSUME CInv, NEW s \in Servers, NEW d \in Around(s), NEW x \in Modules,
             said[d].repl[x] # None
      PROVE  Effective(s).mod_repls # None
  <2> DEFINE V == [r \in OptionalOf(Records) |->
                     IF r = None THEN None
                     ELSE IF r.mod_repls = None THEN None ELSE "cancelled"]
  <2> DEFINE setting == [c \in Contexts |->
                     IF \E m \in Modules : said[c].repl[m] # None THEN "cancelled" ELSE None]
  <2>0. /\ \A r \in Records : r # None
        /\ None \in OptionalOf(Records) /\ None # "cancelled"
        /\ \A r : r \in OptionalOf(Records) <=> r = None \/ r \in Records
    BY NoneAssumption DEF OptionalOf
  <2>1. V[None] = None
    BY <2>0
  <2>2. ASSUME NEW p \in OptionalOf(Records), NEW c \in OptionalOf(Records)
        PROVE  V[MergeIfAny(p, c)] = Override(V[p], V[c])
    <3>1. CASE p = None \/ c = None
      BY <2>0, <3>1 DEF MergeIfAny, Override
    <3>2. CASE p # None /\ c # None
      <4>1. MergeIfAny(p, c) = Merge(p, c) /\ MergeIfAny(p, c) \in Records
        BY <3>2, MergeTypes DEF MergeIfAny
      <4>2. /\ p \in Records /\ c \in Records
        BY <3>2 DEF OptionalOf
      <4>3. MergeRepls(p.mod_repls, c.mod_repls) = None
              <=> p.mod_repls = None /\ c.mod_repls = None
        <5>1. CASE p.mod_repls = None \/ c.mod_repls = None
          BY <5>1 DEF MergeRepls, ChildOverParent
        <5>2. CASE p.mod_repls # None /\ c.mod_repls # None
          BY <4>2, <5>2, MergeReplsType, NoneAssumption DEF Records, OptionalOf
        <5> QED
          BY <5>1, <5>2
      <4>4. Merge(p, c).mod_repls = MergeRepls(p.mod_repls, c.mod_repls)
        BY DEF Merge
      <4> QED
        BY <2>0, <3>2, <4>1, <4>2, <4>3, <4>4 DEF Override
    <3> QED
      BY <3>1, <3>2
  <2>3. \A c \in Contexts \cap Around(s) : setting[c] = V[conf[c]]
    BY <1>1, <2>0 DEF CInv, TypeOK, Recorded, Holds, NothingSaid
  <2>4. TypeOK
    BY <1>1 DEF CInv
  <2>5. Effective(s) \in Records
    BY <2>4, EffectiveType
  <2>6. PICK i \in DOMAIN Chain : Chain[i] = d
    BY ChainType
  <2>7. d \in Contexts /\ setting[d] = "cancelled"
    BY <1>1, ChainType
  <2> HIDE DEF V, setting
  <2>8. Innermost(s, setting) = V[Effective(s)]
    BY <2>1, <2>2, <2>3, <2>4, MergesDecide
  <2>9. Innermost(s, setting) # None
    <3>1. Held(d, s, setting) # None
      BY <1>1, <2>0, <2>7 DEF Held
    <3> QED
      BY <2>6, <3>1, ChainType, LinkedFolds, SomethingDecides
  <2> QED
    BY <2>0, <2>5, <2>8, <2>9 DEF V
<1>2. ASSUME CInv PROVE RebuildSurvivesWhereSet
  <2> SUFFICES ASSUME phase = "ready", NEW s \in Servers, sconf[s] = None \/ s = "main",
                      NEW d \in Around(s), NEW x \in Modules, said[d].repl[x] # None
               PROVE  ~NullFollowed(s)
    BY DEF RebuildSurvivesWhereSet
  <2>1. ServerConf(s).mutex # None
    BY <1>2 DEF CInv, MutexMade, ServerConf
  <2> QED
    BY <1>1, <1>2, <2>1 DEF NullFollowed
<1> QED
  BY <1>2, Configuring, PTL

-----------------------------------------------------------------------------
(***************************************************************************)
(* GOPATH.                                                                 *)
(***************************************************************************)
Names == Dirs \cup Packages \cup {"ALL", "NONE"}

\* Directories as a list of entries without "+".
Listed(names) == [i \in DOMAIN names |-> Entry(FALSE, names[i])]

GoPathOf(r) == IF r = None THEN None ELSE r.go_path
SaidGoPath  == [c \in Contexts |-> said[c].go_path]
Nested(list, s) == Nesting!Fold(Along(list, s, SaidGoPath))

\* A list of two parts.
LEMMA ListedParts ==
  ASSUME NEW a \in Seq(Names), NEW b \in Seq(Names)
  PROVE  /\ Listed(a) \in Seq(Entries) /\ Len(Listed(a)) = Len(a)
         /\ Listed(a \o b) = Listed(a) \o Listed(b)
<1>1. ASSUME NEW q \in Seq(Names)
      PROVE  /\ Listed(q) \in Seq(Entries) /\ Len(Listed(q)) = Len(q)
             /\ \A i \in 1 .. Len(q) : Listed(q)[i] = Entry(FALSE, q[i])
  <2>1. DOMAIN q = 1 .. Len(q) /\ Len(q) \in Nat /\ \A i \in 1 .. Len(q) : q[i] \in Names
    OBVIOUS
  <2>2. \A x \in Names : Entry(FALSE, x) \in Entries
    BY DEF Entry, Entries, Names
  <2>3. Listed(q) \in [1 .. Len(q) -> Entries]
    BY <2>1, <2>2 DEF Listed
  <2>4. \A i \in 1 .. Len(q) : Listed(q)[i] = Entry(FALSE, q[i])
    BY <2>1 DEF Listed
  <2> DEFINE l == Listed(q)
  <2> DEFINE n == Len(q)
  <2>5. l \in [1 .. n -> Entries] /\ n \in Nat
    BY <2>1, <2>3
  <2> HIDE DEF l, n
  <2>6. l \in Seq(Entries)
    BY <2>5
  <2>7. Len(l) = n
    BY <2>5, <2>6
  <2> QED
    BY <2>4, <2>6, <2>7 DEF l, n
<1> DEFINE c == a \o b
<1>2. /\ c \in Seq(Names) /\ Len(c) = Len(a) + Len(b)
      /\ Len(a) \in Nat /\ Len(b) \in Nat
      /\ \A i \in 1 .. Len(a) : c[i] = a[i]
      /\ \A i \in 1 .. Len(b) : c[Len(a) + i] = b[i]
  OBVIOUS
<1> HIDE DEF c
<1> DEFINE p == Listed(a)
<1> DEFINE q == Listed(b)
<1> DEFINE r == Listed(c)
<1>3. /\ p \in Seq(Entries) /\ q \in Seq(Entries) /\ r \in Seq(Entries)
      /\ Len(p) = Len(a) /\ Len(q) = Len(b) /\ Len(r) = Len(a) + Len(b)
      /\ \A i \in 1 .. Len(a) : p[i] = Entry(FALSE, a[i])
      /\ \A i \in 1 .. Len(b) : q[i] = Entry(FALSE, b[i])
      /\ \A i \in 1 .. Len(a) + Len(b) : r[i] = Entry(FALSE, c[i])
  BY <1>1, <1>2
<1> HIDE DEF p, q, r
<1>4. /\ p \o q \in Seq(Entries) /\ Len(p \o q) = Len(a) + Len(b)
      /\ \A i \in 1 .. Len(a) : (p \o q)[i] = p[i]
      /\ \A i \in 1 .. Len(b) : (p \o q)[Len(a) + i] = q[i]
  <2>1. p \o q \in Seq(Entries) /\ Len(p \o q) = Len(a) + Len(b)
    BY <1>3, ConcatProperties
  <2>2. ASSUME NEW i \in 1 .. Len(p) + Len(q)
        PROVE (p \o q)[i] = IF i <= Len(p) THEN p[i] ELSE q[i - Len(p)]
    BY <1>3, ConcatProperties
  <2>3. ASSUME NEW i \in 1 .. Len(b) PROVE (p \o q)[Len(a) + i] = q[i]
    <3> DEFINE j == Len(a) + i
    <3>1. j \in 1 .. Len(p) + Len(q) /\ ~(j <= Len(p)) /\ j - Len(p) = i
      BY <1>2, <1>3
    <3> HIDE DEF j
    <3>2. (p \o q)[j] = q[i]
      BY <2>2, <3>1
    <3> QED
      BY <3>2 DEF j
  <2> QED
    BY <1>2, <1>3, <2>1, <2>2, <2>3
<1>5. ASSUME NEW i \in 1 .. Len(a) + Len(b) PROVE r[i] = (p \o q)[i]
  <2>1. CASE i \in 1 .. Len(a)
    <3>1. r[i] = Entry(FALSE, c[i])
      BY <1>3
    <3>2. (p \o q)[i] = Entry(FALSE, a[i])
      BY <1>3, <1>4, <2>1
    <3>3. c[i] = a[i]
      BY <1>2, <2>1
    <3> QED
      BY <3>1, <3>2, <3>3
  <2>2. CASE i \notin 1 .. Len(a)
    <3>1. PICK j \in 1 .. Len(b) : i = Len(a) + j
      <4>1. i - Len(a) \in 1 .. Len(b) /\ i = Len(a) + (i - Len(a))
        BY <1>2, <2>2
      <4> QED
        BY <4>1
    <3>2. r[i] = Entry(FALSE, c[Len(a) + j])
      BY <1>3, <3>1
    <3>3. (p \o q)[Len(a) + j] = Entry(FALSE, b[j])
      BY <1>3, <1>4
    <3>4. c[Len(a) + j] = b[j]
      BY <1>2
    <3> QED
      BY <3>1, <3>2, <3>3, <3>4
  <2> QED
    BY <2>1, <2>2
<1>6. r = p \o q
  BY <1>3, <1>4, <1>5, SeqEqual
<1> QED
  BY <1>1, <1>6 DEF c, p, q, r

\* What a directive for GOPATH says, to the module and to a reader.
LEMMA TextListed ==
  ASSUME NEW text \in PathTexts
  PROVE  /\ text \in Lists /\ text # None /\ text[1].name \in Names
         /\ [i \in DOMAIN text |-> text[i].name] = <<text[1].name>>
         /\ <<text[1].name>> \in Seq(Names)
         /\ WithoutPlus(text) = Listed(<<text[1].name>>)
         /\ ~text[1].plus => text = Listed(<<text[1].name>>)
<1>1. PICK e \in [plus : BOOLEAN, name : Dirs] : text = <<e>>
  BY DEF PathTexts
<1>2. text \in Lists /\ text # None
  BY TextsAreLists, NoneAssumption
<1>3. text[1] = e /\ DOMAIN text = {1} /\ Tail(text) = <<>>
  BY <1>1
<1>4. e.name \in Names /\ <<e.name>> \in Seq(Names)
  BY DEF Names
<1>5. [i \in DOMAIN text |-> text[i].name] = <<e.name>>
  BY <1>1, <1>3
<1>6. Listed(<<e.name>>) = <<Entry(FALSE, e.name)>>
  <2> DEFINE x == e.name
  <2> HIDE DEF x
  <2>1. DOMAIN <<x>> = {1} /\ <<x>>[1] = x
    OBVIOUS
  <2>2. Listed(<<x>>) = [i \in {1} |-> Entry(FALSE, x)]
    BY <2>1 DEF Listed
  <2>3. \A y : <<y>> = [i \in {1} |-> y]
    OBVIOUS
  <2> QED
    BY <2>2, <2>3 DEF x
<1>7. WithoutPlus(text) = <<Entry(FALSE, e.name)>>
  <2>1. \A x : <<x>> \o <<>> = <<x>>
    <3> TAKE x
    <3>1. <<x>> \in Seq({x})
      OBVIOUS
    <3> QED
      BY <3>1, ConcatEmptySeq
  <2> QED
    BY <1>3, <2>1 DEF WithoutPlus
<1>8. ~e.plus => e = Entry(FALSE, e.name)
  BY DEF Entry
<1> QED
  BY <1>1, <1>2, <1>3, <1>4, <1>5, <1>6, <1>7, <1>8

\* Merging extends the list of a context like a reader does.
LEMMA Extended ==
  ASSUME NEW names \in Seq(Names), names # <<>>, NEW text \in OptionalOf(PathTexts)
  PROVE  /\ DocExtends(names, text) \in Seq(Names) \ {<<>>}
         /\ Listed(names) # None /\ ~Listed(names)[1].plus
         /\ MergeGoPath(Listed(names), text) = Listed(DocExtends(names, text))
<1>1. Listed(names) \in Seq(Entries) /\ Len(Listed(names)) = Len(names) /\ Len(names) \in Nat \ {0}
  BY ListedParts
<1>2. Listed(names) \in Lists /\ Listed(names) # None
  BY <1>1, NoneAssumption DEF Lists
<1>3. ~Listed(names)[1].plus
  <2>1. 1 \in DOMAIN names
    BY <1>1
  <2> QED
    BY <2>1 DEF Listed, Entry
<1>4. CASE text = None
  BY <1>2, <1>3, <1>4 DEF DocExtends, MergeGoPath, ChildOverParent
<1>5. CASE text # None
  <2>1. text \in PathTexts
    BY <1>5 DEF OptionalOf
  <2> DEFINE own == <<text[1].name>>
  <2>2. /\ own \in Seq(Names) /\ Len(own) = 1
        /\ DocExtends(names, text) = IF text[1].plus THEN own \o names ELSE own
        /\ WithoutPlus(text) = Listed(own)
        /\ ~text[1].plus => text = Listed(own)
    BY <1>5, <2>1, TextListed DEF DocExtends
  <2>a. own # <<>>
    OBVIOUS
  <2> HIDE DEF own
  <2>3. own \o names \in Seq(Names) /\ Len(own \o names) = 1 + Len(names)
    <3>1. own \in Seq(Names) /\ Len(own) = 1
      BY <2>2
    <3>2. own \o names \in Seq(Names) /\ Len(own \o names) = Len(own) + Len(names)
      BY <3>1, ConcatProperties
    <3> QED
      BY <3>1, <3>2
  <2>4. own \o names # <<>>
    BY <1>1, <2>3
  <2>5. Listed(own \o names) = Listed(own) \o Listed(names)
    BY <2>2, ListedParts
  <2>6. MergeGoPath(Listed(names), text)
          = IF text[1].plus THEN WithoutPlus(text) \o Listed(names) ELSE text
    BY <1>2, <1>5 DEF MergeGoPath, ChildOverParent
  <2> QED
    BY <1>2, <1>3, <2>2, <2>a, <2>3, <2>4, <2>5, <2>6
<1> QED
  BY <1>4, <1>5

\* The GOPATH of two records is merged, whether they exist or not.
LEMMA MergedGoPath ==
  ASSUME NEW p \in OptionalOf(Records), NEW c \in OptionalOf(Records)
  PROVE  GoPathOf(MergeIfAny(p, c)) = MergeGoPath(GoPathOf(p), GoPathOf(c))
<1>1. CASE p = None \/ c = None
  BY <1>1 DEF MergeIfAny, GoPathOf, MergeGoPath, ChildOverParent
<1>2. CASE p # None /\ c # None
  <2>1. MergeIfAny(p, c) = Merge(p, c) /\ MergeIfAny(p, c) # None
    BY <1>2, MergeTypes, NoneAssumption DEF MergeIfAny
  <2> QED
    BY <1>2, <2>1 DEF GoPathOf, Merge
<1> QED
  BY <1>1, <1>2

\* What a context says of GOPATH is in its record.
LEMMA SaidIsHeld ==
  ASSUME CInv, NEW s \in Servers
  PROVE  /\ SaidGoPath \in [Contexts -> OptionalOf(PathTexts)]
         /\ \A c \in Contexts :
              /\ conf[c] \in OptionalOf(Records)
              /\ Held(c, s, SaidGoPath) \in OptionalOf(PathTexts)
              /\ Held(c, s, SaidGoPath) = GoPathOf(Held(c, s, conf))
              /\ SaidGoPath[c] = GoPathOf(conf[c])
<1>1. SaidGoPath \in [Contexts -> OptionalOf(PathTexts)]
  BY DEF CInv, SaidGoPath, Sayings
<1>2. ASSUME NEW c \in Contexts PROVE SaidGoPath[c] = GoPathOf(conf[c])
  BY DEF CInv, Recorded, Holds, NothingSaid, SaidGoPath, GoPathOf
<1>3. \A c \in Contexts : conf[c] \in OptionalOf(Records)
  BY DEF CInv, TypeOK
<1>4. \A c \in Contexts : /\ Held(c, s, SaidGoPath) \in OptionalOf(PathTexts)
                          /\ Held(c, s, SaidGoPath) = GoPathOf(Held(c, s, conf))
  BY <1>1, <1>2 DEF Held, OptionalOf, GoPathOf
<1> QED
  BY <1>1, <1>2, <1>3, <1>4

\* One more context extends what the documentation promises.
LEMMA OneMoreNested ==
  ASSUME CInv, NEW s \in Servers, NEW list \in Seq(Contexts), NEW c \in Contexts
  PROVE  Nested(Append(list, c), s) = DocExtends(Nested(list, s), Held(c, s, SaidGoPath))
<1> DEFINE R == OptionalOf(PathTexts)
<1> DEFINE t == Held(c, s, SaidGoPath)
<1>1. None \in R /\ (\A d \in Contexts : SaidGoPath[d] \in R) /\ t \in R
  BY SaidIsHeld DEF OptionalOf
<1> HIDE DEF R
<1>2. Along(list, s, SaidGoPath) \in Seq(R)
  BY <1>1, AlongType
<1>3. Along(Append(list, c), s, SaidGoPath) = Append(Along(list, s, SaidGoPath), t)
  BY AlongGrows
<1> HIDE DEF t
<1>4. Nesting!Fold(Append(Along(list, s, SaidGoPath), t))
        = DocExtends(Nesting!Fold(Along(list, s, SaidGoPath)), t)
  BY <1>1, <1>2, Nesting!FoldAppend
<1> QED
  BY <1>3, <1>4 DEF Nested, t

\* Where the main server has a list, a server's record lists what a reader expects.
LEMMA ServersNest ==
  ASSUME CInv, NEW s \in Servers,
         said["main"].go_path # None, ~said["main"].go_path[1].plus
  PROVE  LET names == Nested(<<"main", "vhost">>, s)
         IN  /\ names \in Seq(Names) \ {<<>>}
             /\ ServerLevel(s).go_path = Listed(names)
<1> DEFINE names == Nested(<<"main", "vhost">>, s)
<1> DEFINE m == said["main"].go_path
<1> DEFINE v == IF s = "main" THEN None ELSE SaidGoPath["vhost"]
<1> DEFINE own == <<m[1].name>>
<1>1. /\ "main" \in Contexts /\ "vhost" \in Contexts
      /\ SaidGoPath["main"] = m /\ m \in OptionalOf(PathTexts)
  BY SaidIsHeld DEF Contexts, Servers, SaidGoPath
<1>2. m \in PathTexts /\ ~m[1].plus /\ v \in OptionalOf(PathTexts)
  BY <1>1, SaidIsHeld DEF OptionalOf
<1>3. own \in Seq(Names) /\ own # <<>> /\ m = Listed(own)
  <2>1. own \in Seq(Names) /\ m = Listed(own)
    BY <1>2, TextListed
  <2>2. own # <<>>
    <3>1. Len(own) = 1 /\ Len(<<>>) = 0
      OBVIOUS
    <3> HIDE DEF own
    <3> QED
      BY <3>1
  <2> HIDE DEF own
  <2> QED
    BY <2>1, <2>2
<1>4. names = DocExtends(own, v)
  <2>1. Along(<<"main", "vhost">>, s, SaidGoPath) = <<m, v>>
    BY <1>1, AlongServers
  <2>2. names = DocExtends(DocExtends(<<BuiltIn>>, m), v)
    <3> HIDE DEF m, v
    <3> QED
      BY <2>1, Nesting!FoldTwo DEF Nested
  <2>3. DocExtends(<<BuiltIn>>, m) = [i \in DOMAIN m |-> m[i].name]
    BY <1>2 DEF DocExtends
  <2>4. [i \in DOMAIN m |-> m[i].name] = own
    BY <1>2, TextListed
  <2> QED
    BY <2>2, <2>3, <2>4
<1>5. ServerLevel(s).go_path = MergeGoPath(m, v)
  <2>1. ServerLevel(s).go_path = GoPathOf(ServerLevel(s))
    BY ServerLevelType, NoneAssumption DEF GoPathOf, CInv
  <2>2. GoPathOf(conf["main"]) = m
    BY <1>1, SaidIsHeld
  <2>3. CASE s = "main"
    BY <2>1, <2>2, <2>3 DEF ServerLevel, MergeGoPath, ChildOverParent
  <2>4. CASE s # "main"
    <3>1. GoPathOf(MergeIfAny(conf["main"], conf["vhost"]))
            = MergeGoPath(GoPathOf(conf["main"]), GoPathOf(conf["vhost"]))
      BY <1>1, SaidIsHeld, MergedGoPath
    <3>2. GoPathOf(conf["vhost"]) = v
      BY <1>1, <2>4, SaidIsHeld
    <3> QED
      BY <2>1, <2>2, <2>4, <3>1, <3>2 DEF ServerLevel
  <2> QED
    BY <2>3, <2>4
<1> HIDE DEF names, m, v, own
<1>6. names \in Seq(Names) \ {<<>>} /\ ServerLevel(s).go_path = Listed(names)
  BY <1>2, <1>3, <1>4, <1>5, Extended
<1> QED
  BY <1>6 DEF names

\* The sections of a list, of which none adds before another that says anything,
\* and what merging has made of them: nothing, a list that replaces the server's,
\* or what one section adds to it.
OneOfThemAdds(list, s) ==
    \A i, j \in DOMAIN list :
        i < j /\ Held(list[i], s, SaidGoPath) # None /\ Held(list[j], s, SaidGoPath) # None
          => ~Held(list[i], s, SaidGoPath)[1].plus
NothingYet(merged, names, own) ==
    /\ merged = None /\ names = own
Replacing(merged, names) ==
    /\ names \in Seq(Names) \ {<<>>} /\ merged = Listed(names)
Adding(list, merged, names, own, s) ==
    /\ \E i \in DOMAIN list : Held(list[i], s, SaidGoPath) # None /\ Held(list[i], s, SaidGoPath)[1].plus
    /\ merged \in PathTexts /\ names = DocExtends(own, merged)

\* Which of the three it is, section by section.
LEMMA SectionsNest ==
  ASSUME CInv, NEW s \in Servers, NEW list \in Seq(Contexts), OneOfThemAdds(list, s),
         NEW own, own = Nested(<<"main", "vhost">>, s)
  PROVE  LET merged == GoPathOf(SectionsMerged(list, s))
             names  == Nested(<<"main", "vhost">> \o list, s)
         IN  \/ NothingYet(merged, names, own)
             \/ Replacing(merged, names)
             \/ Adding(list, merged, names, own, s)
<1> DEFINE servers == <<"main", "vhost">>
<1> DEFINE M(l) == GoPathOf(SectionsMerged(l, s))
<1> DEFINE N(l) == Nested(servers \o l, s)
<1> DEFINE Claim(l) == \/ NothingYet(M(l), N(l), own)
                       \/ Replacing(M(l), N(l))
                       \/ Adding(l, M(l), N(l), own, s)
<1> DEFINE T == {l \in Seq(Contexts) : OneOfThemAdds(l, s) => Claim(l)}
<1>0. servers \in Seq(Contexts) /\ own = Nested(servers, s)
  BY DEF Contexts, Servers
<1> HIDE DEF servers
<1>1. <<>> \in T
  <2>1. servers \o <<>> = servers /\ <<>> \in Seq(Contexts)
    BY <1>0
  <2>2. SectionsMerged(<<>>, s) = None
    <3>1. Along(<<>>, s, conf) = <<>>
      BY DEF Along
    <3> QED
      BY <3>1, Merging!FoldEmpty DEF SectionsMerged
  <2>3. M(<<>>) = None /\ N(<<>>) = own
    BY <1>0, <2>1, <2>2 DEF GoPathOf
  <2> HIDE DEF M, N
  <2> QED
    BY <2>1, <2>3 DEF NothingYet
<1>2. ASSUME NEW l \in Seq(Contexts), NEW c \in Contexts, l \in T,
             OneOfThemAdds(Append(l, c), s)
      PROVE  Claim(Append(l, c))
  <2> DEFINE longer == Append(l, c)
  <2> DEFINE h(d) == Held(d, s, SaidGoPath)
  <2> DEFINE t == h(c)
  <2>1. /\ longer \in Seq(Contexts) /\ longer[Len(l) + 1] = c
        /\ DOMAIN longer = 1 .. Len(l) + 1 /\ DOMAIN l = 1 .. Len(l)
        /\ \A i \in 1 .. Len(l) : longer[i] = l[i]
        /\ Len(l) \in Nat
        /\ servers \o longer = Append(servers \o l, c) /\ servers \o l \in Seq(Contexts)
    BY <1>0, Merging!ConcatAppend
  <2>2. t \in OptionalOf(PathTexts) /\ t = GoPathOf(Held(c, s, conf))
    BY SaidIsHeld
  <2>3. M(longer) = MergeGoPath(M(l), t)
    <3>1. TypeOK
      BY DEF CInv
    <3>2. SectionsMerged(longer, s) = MergeIfAny(SectionsMerged(l, s), Held(c, s, conf))
      BY <3>1, OneMoreSection
    <3>3. /\ SectionsMerged(l, s) \in OptionalOf(Records)
          /\ Held(c, s, conf) \in OptionalOf(Records)
      BY <3>1, SectionsMergedType, SaidIsHeld DEF Held, OptionalOf
    <3> HIDE DEF longer, t
    <3> QED
      BY <2>2, <3>2, <3>3, MergedGoPath
  <2>4. N(longer) = DocExtends(N(l), t)
    BY <2>1, OneMoreNested
  <2> HIDE DEF longer, t, M, N
  <2>7. \A i \in DOMAIN l : i \in DOMAIN longer /\ h(longer[i]) = h(l[i])
    BY <2>1
  <2>5. OneOfThemAdds(l, s)
    <3> SUFFICES ASSUME NEW i \in DOMAIN l, NEW j \in DOMAIN l,
                        i < j, h(l[i]) # None, h(l[j]) # None
                 PROVE  ~h(l[i])[1].plus
      BY DEF OneOfThemAdds
    <3>1. OneOfThemAdds(longer, s)
      BY <1>2 DEF longer
    <3> HIDE DEF h
    <3>2. \A a, b \in DOMAIN longer :
            a < b /\ h(longer[a]) # None /\ h(longer[b]) # None => ~h(longer[a])[1].plus
      BY <3>1 DEF OneOfThemAdds, h
    <3> QED
      BY <2>7, <3>2
  <2>6. Claim(l)
    BY <1>2, <2>5
  <2> SUFFICES Claim(longer)
    BY DEF longer
  <2>8. CASE t = None
    <3>1. M(longer) = M(l) /\ N(longer) = N(l)
      BY <2>3, <2>4, <2>8 DEF MergeGoPath, ChildOverParent, DocExtends
    <3> QED
      BY <2>6, <2>7, <3>1 DEF NothingYet, Replacing, Adding
  <2>9. CASE t # None
    <3>0. t \in PathTexts
      BY <2>2, <2>9 DEF OptionalOf
    <3>1. CASE NothingYet(M(l), N(l), own)
      <4>1. M(longer) = t /\ N(longer) = DocExtends(own, t)
        BY <2>3, <2>4, <2>9, <3>1 DEF NothingYet, MergeGoPath, ChildOverParent
      <4>2. CASE t[1].plus
        <5>1. h(longer[Len(l) + 1]) # None /\ h(longer[Len(l) + 1])[1].plus
          BY <2>1, <2>9, <4>2 DEF t
        <5> QED
          BY <2>1, <3>0, <4>1, <5>1, SMTT(30) DEF Adding
      <4>3. CASE ~t[1].plus
        <5> DEFINE dirs == <<t[1].name>>
        <5>1. dirs \in Seq(Names) /\ t = Listed(dirs) /\ N(longer) = dirs
          BY <2>9, <3>0, <4>1, <4>3, TextListed DEF DocExtends
        <5>3. dirs # <<>>
          OBVIOUS
        <5> HIDE DEF dirs
        <5> QED
          BY <4>1, <5>1, <5>3 DEF Replacing
      <4> QED
        BY <4>2, <4>3
    <3>2. CASE Replacing(M(l), N(l))
      BY <2>2, <2>3, <2>4, <3>2, Extended DEF Replacing
    <3>3. CASE Adding(l, M(l), N(l), own, s)
      <4>1. PICK i \in DOMAIN l : h(l[i]) # None /\ h(l[i])[1].plus
        BY <3>3 DEF Adding
      <4>2. /\ i \in DOMAIN longer /\ Len(l) + 1 \in DOMAIN longer /\ i < Len(l) + 1
            /\ h(longer[i]) # None /\ h(longer[i])[1].plus /\ h(longer[Len(l) + 1]) # None
        BY <2>1, <2>9, <4>1 DEF t
      <4> QED
        BY <1>2, <4>2 DEF OneOfThemAdds, longer
    <3> QED
      BY <2>6, <3>1, <3>2, <3>3
  <2> QED
    BY <2>8, <2>9
<1>3. \A l \in Seq(Contexts), c \in Contexts : l \in T => Append(l, c) \in T
  <2> SUFFICES ASSUME NEW l \in Seq(Contexts), NEW c \in Contexts, l \in T
               PROVE  Append(l, c) \in T
    OBVIOUS
  <2>1. Append(l, c) \in Seq(Contexts)
    OBVIOUS
  <2>2. OneOfThemAdds(Append(l, c), s) => Claim(Append(l, c))
    BY <1>2
  <2> HIDE DEF Claim
  <2> QED
    BY <2>1, <2>2
<1> HIDE DEF T
<1>4. list \in T
  BY <1>1, <1>3, Merging!ListInduction
<1>5. Claim(list)
  BY <1>4 DEF T
<1> QED
  BY <1>5 DEF servers

\* GOPATH lists the directories from the innermost context to the outermost, where
\* no section adds before another says something (mod_gosp.c:246-257).
THEOREM GoPathsNest == Spec => []GoPathNests
<1>1. ASSUME CInv, NEW s \in Servers, OneAdds(s)
      PROVE  GoPath(s) = Listed(DocGoPath(s))
  <2> DEFINE servers == <<"main", "vhost">>
  <2> DEFINE own == Nested(servers, s)
  <2> DEFINE g == GoPathOf(SectionsMerged(Sections, s))
  <2> DEFINE n == Nested(servers \o Sections, s)
  <2>1. own \in Seq(Names) \ {<<>>} /\ ServerLevel(s).go_path = Listed(own)
    BY <1>1, ServersNest DEF OneAdds
  <2>2. Sections \in Seq(Contexts)
    BY SectionsAssumption DEF Contexts
  <2>3. OneOfThemAdds(Sections, s)
    <3>1. \A i \in DOMAIN Sections :
            /\ Held(Sections[i], s, SaidGoPath) # None => SectionSays(s, i)
            /\ SectionSays(s, i) => Held(Sections[i], s, SaidGoPath) = said[Sections[i]].go_path
      <4>1. \A i \in DOMAIN Sections : Sections[i] \in Contexts
        BY <2>2
      <4> QED
        BY <4>1 DEF Held, SectionSays, SaidGoPath
    <3> QED
      BY <1>1, <3>1 DEF OneAdds, OneOfThemAdds
  <2>4. \/ NothingYet(g, n, own)
        \/ Replacing(g, n)
        \/ Adding(Sections, g, n, own, s)
    BY <1>1, <2>2, <2>3, SectionsNest
  <2>5. GoPathOf(Effective(s)) = MergeGoPath(Listed(own), g)
    <3>1. TypeOK
      BY <1>1 DEF CInv
    <3>2. Effective(s) = MergeIfAny(ServerLevel(s), SectionsMerged(Sections, s))
      BY LinkedFolds DEF Effective
    <3>3. /\ ServerLevel(s) \in OptionalOf(Records) /\ ServerLevel(s) # None
          /\ SectionsMerged(Sections, s) \in OptionalOf(Records)
      BY <2>2, <3>1, ServerLevelType, SectionsMergedType, NoneAssumption DEF OptionalOf
    <3>4. GoPathOf(ServerLevel(s)) = Listed(own)
      BY <2>1, <3>3 DEF GoPathOf
    <3> QED
      BY <3>2, <3>3, <3>4, MergedGoPath
  <2>6. DocGoPath(s) = n
    <3>1. \A list : FoldLeft(DocExtends, <<BuiltIn>>, list) = Nesting!Fold(list)
      BY DEF Nesting!Fold, FoldLeft, MapThenFoldSet, Max,
             Nesting!FoldLeft, Nesting!MapThenFoldSet, Nesting!Max
    <3> QED
      BY <3>1 DEF DocGoPath, Nested, Chain, SaidGoPath
  <2> HIDE DEF own, g, n
  <2>7. n \in Seq(Names) \ {<<>>} /\ GoPathOf(Effective(s)) = Listed(n)
    <3>1. CASE NothingYet(g, n, own)
      BY <2>1, <2>5, <3>1 DEF NothingYet, MergeGoPath, ChildOverParent
    <3>2. CASE Replacing(g, n)
      <4>1. g # None /\ ~g[1].plus
        BY <3>2, Extended DEF Replacing, OptionalOf
      <4> QED
        BY <2>5, <3>2, <4>1 DEF Replacing, MergeGoPath, ChildOverParent
    <3>3. CASE Adding(Sections, g, n, own, s)
      BY <2>1, <2>5, <3>3, Extended DEF Adding, OptionalOf
    <3> QED
      BY <2>4, <3>1, <3>2, <3>3
  <2>8. Listed(n) # None
    BY <2>7, Extended DEF OptionalOf
  <2>9. Effective(s) # None
    BY <1>1, EffectiveType, NoneAssumption DEF CInv
  <2> QED
    BY <2>6, <2>7, <2>8, <2>9 DEF GoPath, GoPathOf
<1>2. CInv => GoPathNests
  BY <1>1 DEF GoPathNests, Listed
<1> QED
  BY <1>2, Configuring, PTL

-----------------------------------------------------------------------------
(***************************************************************************)
(* Allowed imports.                                                        *)
(***************************************************************************)

\* What gosp2go allows, given a list, and what the documentation promises.
Allows(text)      == Allowing!Fold(text)
ImportsOf(r)      == IF r = None THEN None ELSE r.imports
SaidImports       == [c \in Contexts |-> said[c].imports]
Promised(list, s) == Promising!Fold(Along(list, s, SaidImports))

\* A list is its first entry and the rest.
LEMMA FirstAndRest ==
  ASSUME NEW text \in Lists
  PROVE  /\ text[1] \in Entries /\ Tail(text) \in Seq(Entries)
         /\ text = <<text[1]>> \o Tail(text)
<1>1. text \in Seq(Entries) /\ text # <<>>
  BY DEF Lists
<1>2. /\ Len(text) \in Nat \ {0} /\ text[1] \in Entries
      /\ Tail(text) \in Seq(Entries) /\ Len(Tail(text)) = Len(text) - 1
      /\ \A i \in 1 .. Len(text) - 1 : Tail(text)[i] = text[i + 1]
  BY <1>1
<1> DEFINE x == text[1]
<1> DEFINE tail == Tail(text)
<1> HIDE DEF x, tail
<1>3. <<x>> \in Seq(Entries) /\ Len(<<x>>) = 1 /\ <<x>>[1] = x
  BY <1>2 DEF x
<1>4. /\ <<x>> \o tail \in Seq(Entries) /\ Len(<<x>> \o tail) = Len(text)
      /\ (<<x>> \o tail)[1] = x
      /\ \A i \in 2 .. Len(text) : (<<x>> \o tail)[i] = tail[i - 1]
  BY <1>2, <1>3 DEF tail
<1>5. \A i \in 1 .. Len(text) : (<<x>> \o tail)[i] = text[i]
  <2> TAKE i \in 1 .. Len(text)
  <2>1. CASE i = 1
    BY <1>4, <2>1 DEF x
  <2>2. CASE i # 1
    <3>1. Len(text) \in Nat
      BY <1>2
    <3>2. i \in 2 .. Len(text) /\ i - 1 \in 1 .. Len(text) - 1
      BY <2>2, <3>1
    <3>3. tail[i - 1] = text[(i - 1) + 1]
      BY <1>2, <3>2 DEF tail
    <3>4. (i - 1) + 1 = i
      BY <3>2
    <3> QED
      BY <1>4, <3>2, <3>3, <3>4
  <2> QED
    BY <2>1, <2>2
<1>6. text = <<x>> \o tail
  BY <1>1, <1>4, <1>5, SeqEqual
<1> QED
  BY <1>2, <1>6 DEF x, tail

\* The "+" of a list says nothing about what the list allows.
LEMMA PlusIsIgnored ==
  ASSUME NEW text \in Lists
  PROVE  Allows(WithoutPlus(text)) = Allows(text)
<1> DEFINE x == text[1]
<1> DEFINE y == Entry(FALSE, x.name)
<1>1. x \in Entries /\ y \in Entries /\ y.name = x.name
  BY FirstAndRest DEF Entries, Entry
<1>2. AddImport({}, x) = AddImport({}, y)
  BY <1>1 DEF AddImport
<1>3. text = <<x>> \o Tail(text) /\ Tail(text) \in Seq(Entries)
  BY FirstAndRest
<1>4. WithoutPlus(text) = <<y>> \o Tail(text)
  BY DEF WithoutPlus
<1> HIDE DEF x, y
<1>5. <<x>> \in Seq(Entries) /\ <<y>> \in Seq(Entries)
  BY <1>1
<1>6. Allowing!Fold(<<x>>) = Allowing!Fold(<<y>>)
  <2>1. Allowing!Fold(<<x>>) = AddImport({}, x)
    BY Allowing!FoldOne
  <2>2. Allowing!Fold(<<y>>) = AddImport({}, y)
    BY Allowing!FoldOne
  <2> QED
    BY <1>2, <2>1, <2>2
<1>7. Allowing!Fold(<<x>> \o Tail(text)) = Allowing!Fold(<<y>> \o Tail(text))
  <2> DEFINE rest == Tail(text)
  <2>1. rest \in Seq(Entries)
    BY <1>3
  <2> HIDE DEF rest
  <2>2. Allowing!Fold(<<x>> \o rest) = Allowing!Fold(<<y>> \o rest)
    BY <1>5, <1>6, <2>1, Allowing!FoldContinues
  <2> QED
    BY <2>2 DEF rest
<1> QED
  BY <1>3, <1>4, <1>7 DEF Allows

\* Two lists make a list, and however three are grouped, they make the same one.
LEMMA MergeImportsAssociates ==
  ASSUME NEW t \in Lists, NEW u \in Lists, NEW v \in Lists
  PROVE  /\ MergeImports(t, u) \in Lists
         /\ MergeImports(t, MergeImports(u, v)) = MergeImports(MergeImports(t, u), v)
<1>1. ASSUME NEW a \in Lists, NEW b \in Lists
      PROVE  /\ a \o b \in Lists /\ (a \o b)[1] = a[1]
             /\ WithoutPlus(a \o b) = WithoutPlus(a) \o b
  <2>1. /\ a \in Seq(Entries) /\ b \in Seq(Entries)
        /\ Len(a) \in Nat \ {0} /\ Len(b) \in Nat \ {0}
    BY Stripped
  <2> DEFINE ab == a \o b
  <2>2. /\ ab \in Seq(Entries) /\ Len(ab) = Len(a) + Len(b)
        /\ \A i \in 1 .. Len(a) + Len(b) :
             ab[i] = IF i <= Len(a) THEN a[i] ELSE b[i - Len(a)]
    BY <2>1, ConcatProperties
  <2> HIDE DEF ab
  <2>3. ab[1] = a[1] /\ ab # <<>>
    BY <2>1, <2>2
  <2>4. ab \in Lists
    BY <2>2, <2>3 DEF Lists
  <2> DEFINE p == WithoutPlus(ab)
  <2> DEFINE w == WithoutPlus(a)
  <2>5. /\ p \in Seq(Entries) /\ Len(p) = Len(a) + Len(b)
        /\ p[1] = Entry(FALSE, a[1].name)
        /\ \A i \in 2 .. Len(a) + Len(b) : p[i] = ab[i]
    BY <2>2, <2>3, <2>4, Stripped DEF Lists
  <2>6. /\ w \in Seq(Entries) /\ Len(w) = Len(a)
        /\ w[1] = Entry(FALSE, a[1].name)
        /\ \A i \in 2 .. Len(a) : w[i] = a[i]
    BY Stripped DEF Lists
  <2> HIDE DEF p, w
  <2>7. /\ w \o b \in Seq(Entries) /\ Len(w \o b) = Len(a) + Len(b)
        /\ \A i \in 1 .. Len(a) + Len(b) :
             (w \o b)[i] = IF i <= Len(a) THEN w[i] ELSE b[i - Len(a)]
    <3>1. /\ w \o b \in Seq(Entries) /\ Len(w \o b) = Len(w) + Len(b)
          /\ \A i \in 1 .. Len(w) + Len(b) :
               (w \o b)[i] = IF i <= Len(w) THEN w[i] ELSE b[i - Len(w)]
      <4>1. w \in Seq(Entries) /\ b \in Seq(Entries)
        BY <2>1, <2>6
      <4> QED
        BY <4>1, ConcatProperties
    <3>2. Len(w) = Len(a)
      BY <2>6
    <3> QED
      BY <3>1, <3>2
  <2>8. ASSUME NEW i \in 1 .. Len(a) + Len(b) PROVE p[i] = (w \o b)[i]
    <3> DEFINE m == Len(a)
    <3> DEFINE n == Len(b)
    <3>a. m \in Nat \ {0} /\ n \in Nat \ {0} /\ i \in 1 .. m + n
      BY <2>1
    <3> HIDE DEF m, n
    <3>b. i = 1 \/ i \in 2 .. m \/ i \in m + 1 .. m + n
      BY <3>a
    <3>c. 1 \in 1 .. m + n /\ 1 <= m
      BY <3>a
    <3>1. CASE i = 1
      <4>1. (w \o b)[1] = w[1]
        BY <2>7, <3>c DEF m, n
      <4> QED
        BY <2>5, <2>6, <3>1, <4>1
    <3>2. CASE i \in 2 .. Len(a)
      BY <2>1, <2>2, <2>5, <2>6, <2>7, <3>2
    <3>3. CASE i \in Len(a) + 1 .. Len(a) + Len(b)
      BY <2>1, <2>2, <2>5, <2>7, <3>3
    <3> QED
      BY <3>b, <3>1, <3>2, <3>3 DEF m, n
  <2>9. p = w \o b
    BY <2>5, <2>7, <2>8, SeqEqual
  <2> QED
    BY <2>3, <2>4, <2>9 DEF ab, p, w
<1>2. \A a \in Lists : a # None /\ a \in Seq(Entries) /\ WithoutPlus(a) \in Lists
  BY Stripped, NoneAssumption
<1>3. ASSUME NEW a \in Lists, NEW b \in Lists
      PROVE  MergeImports(a, b) = IF b[1].plus THEN a \o WithoutPlus(b) ELSE b
  BY <1>2 DEF MergeImports, ChildOverParent
<1>a. ASSUME NEW a \in Lists, NEW b \in Lists PROVE MergeImports(a, b) \in Lists
  <2>1. a \o WithoutPlus(b) \in Lists
    BY <1>1, <1>2
  <2> QED
    BY <1>3, <2>1
<1>4. MergeImports(t, u) \in Lists /\ MergeImports(u, v) \in Lists
  BY <1>a
<1>5. CASE ~v[1].plus
  BY <1>3, <1>4, <1>5
<1>6. CASE v[1].plus
  <2> DEFINE w == WithoutPlus(v)
  <2>1. MergeImports(u, v) = u \o w /\ w \in Lists /\ (u \o w)[1] = u[1]
    BY <1>1, <1>2, <1>3, <1>6
  <2>2. MergeImports(MergeImports(t, u), v) = MergeImports(t, u) \o w
    BY <1>3, <1>4, <1>6
  <2> HIDE DEF w
  <2>3. CASE ~u[1].plus
    <3>1. MergeImports(t, u \o w) = u \o w
      BY <1>1, <1>3, <2>1, <2>3
    <3>2. MergeImports(t, u) = u
      BY <1>3, <2>3
    <3> QED
      BY <2>1, <2>2, <3>1, <3>2
  <2>4. CASE u[1].plus
    <3>1. MergeImports(t, u \o w) = t \o WithoutPlus(u \o w)
      BY <1>1, <1>3, <2>1, <2>4
    <3>2. MergeImports(t, u) = t \o WithoutPlus(u)
      BY <1>3, <2>4
    <3>3. WithoutPlus(u \o w) = WithoutPlus(u) \o w
      BY <1>1, <2>1
    <3>4. (t \o WithoutPlus(u)) \o w = t \o (WithoutPlus(u) \o w)
      BY <1>2, <2>1, ConcatAssociative
    <3> QED
      BY <1>4, <2>1, <2>2, <3>1, <3>2, <3>3, <3>4
  <2> QED
    BY <2>3, <2>4
<1> QED
  BY <1>4, <1>5, <1>6

\* The names on a list.
NamesIn(list) == { list[i].name : i \in DOMAIN list }

\* A list of one more entry has one more name, ...
LEMMA NamesGrow ==
  ASSUME NEW S, NEW list \in Seq(S), NEW e \in S
  PROVE  NamesIn(Append(list, e)) = NamesIn(list) \cup {e.name}
<1> DEFINE longer == Append(list, e)
<1>1. /\ DOMAIN list = 1 .. Len(list) /\ DOMAIN longer = 1 .. Len(list) + 1
      /\ Len(list) \in Nat /\ longer[Len(list) + 1] = e
      /\ \A i \in 1 .. Len(list) : longer[i] = list[i]
  OBVIOUS
<1> HIDE DEF longer
<1>2. ASSUME NEW n \in NamesIn(longer) PROVE n \in NamesIn(list) \cup {e.name}
  <2>1. PICK i \in 1 .. Len(list) + 1 : n = longer[i].name
    BY <1>1, <1>2 DEF NamesIn
  <2>2. CASE i \in 1 .. Len(list)
    BY <1>1, <2>1, <2>2 DEF NamesIn
  <2>3. CASE i = Len(list) + 1
    BY <1>1, <2>1, <2>3
  <2> QED
    BY <1>1, <2>1, <2>2, <2>3
<1>3. ASSUME NEW n \in NamesIn(list) PROVE n \in NamesIn(longer)
  <2>1. PICK i \in 1 .. Len(list) : n = list[i].name
    BY <1>1, <1>3 DEF NamesIn
  <2>2. i \in DOMAIN longer /\ longer[i] = list[i]
    BY <1>1
  <2> QED
    BY <2>1, <2>2 DEF NamesIn
<1>4. e.name \in NamesIn(longer)
  <2>1. Len(list) + 1 \in DOMAIN longer
    BY <1>1
  <2> QED
    BY <1>1, <2>1 DEF NamesIn
<1>5. NamesIn(longer) = NamesIn(list) \cup {e.name}
  BY <1>2, <1>3, <1>4
<1> QED
  BY <1>5 DEF longer

\* ... and the names on a list are those of its first entry and of the rest, with or
\* without its "+".
LEMMA NamesOfParts ==
  ASSUME NEW text \in Lists
  PROVE  /\ NamesIn(text) = {text[1].name} \cup NamesIn(Tail(text))
         /\ NamesIn(WithoutPlus(text)) = NamesIn(text)
<1> DEFINE w == WithoutPlus(text)
<1> DEFINE rest == Tail(text)
<1>1. /\ DOMAIN text = 1 .. Len(text) /\ Len(text) \in Nat \ {0}
      /\ DOMAIN rest = 1 .. Len(text) - 1
      /\ \A i \in 1 .. Len(text) - 1 : rest[i] = text[i + 1]
  <2>1. text \in Seq(Entries) /\ Len(text) \in Nat \ {0}
    BY Stripped
  <2> QED
    BY <2>1
<1>2. /\ DOMAIN w = 1 .. Len(text) /\ w[1].name = text[1].name
      /\ \A i \in 2 .. Len(text) : w[i] = text[i]
  <2>1. w \in Lists /\ Len(w) = Len(text) /\ w[1] = Entry(FALSE, text[1].name)
        /\ \A i \in 2 .. Len(text) : w[i] = text[i]
    BY Stripped
  <2> HIDE DEF w
  <2>2. DOMAIN w = 1 .. Len(w)
    BY <2>1 DEF Lists
  <2> QED
    BY <2>1, <2>2 DEF Entry
<1> HIDE DEF w, rest
<1>3. \A i \in 1 .. Len(text) : w[i].name = text[i].name
  <2> TAKE i \in 1 .. Len(text)
  <2>1. i = 1 \/ i \in 2 .. Len(text)
    BY <1>1
  <2> QED
    BY <1>2, <2>1
<1>4. NamesIn(w) = NamesIn(text)
  BY <1>1, <1>2, <1>3 DEF NamesIn
<1>5. ASSUME NEW n \in NamesIn(text) PROVE n \in {text[1].name} \cup NamesIn(rest)
  <2>1. PICK i \in 1 .. Len(text) : n = text[i].name
    BY <1>1, <1>5 DEF NamesIn
  <2>2. CASE i = 1
    BY <2>1, <2>2
  <2>3. CASE i # 1
    <3>1. i - 1 \in 1 .. Len(text) - 1 /\ rest[i - 1] = text[(i - 1) + 1] /\ (i - 1) + 1 = i
      BY <1>1, <2>3
    <3> QED
      BY <1>1, <2>1, <3>1 DEF NamesIn
  <2> QED
    BY <2>2, <2>3
<1>6. ASSUME NEW n \in {text[1].name} \cup NamesIn(rest) PROVE n \in NamesIn(text)
  <2>1. CASE n = text[1].name
    <3>1. 1 \in DOMAIN text
      BY <1>1
    <3> QED
      BY <2>1, <3>1 DEF NamesIn
  <2>2. CASE n \in NamesIn(rest)
    <3>1. PICK i \in 1 .. Len(text) - 1 : n = rest[i].name
      BY <1>1, <2>2 DEF NamesIn
    <3>2. i + 1 \in DOMAIN text /\ n = text[i + 1].name
      BY <1>1, <3>1
    <3> QED
      BY <3>2 DEF NamesIn
  <2> QED
    BY <1>6, <2>1, <2>2
<1> QED
  BY <1>4, <1>5, <1>6 DEF w, rest

\* Entries that are not NONE add their names to what is allowed.
Naming == { e \in Entries : e.name # "NONE" }
LEMMA NamesAdded ==
  ASSUME NEW text \in Seq(Entries), NEW D, Same(Allows(text), D), NEW more \in Seq(Naming)
  PROVE  Same(Allows(text \o more), D \cup NamesIn(more))
<1> DEFINE Claim(l) == Same(Allows(text \o l), D \cup NamesIn(l))
<1> DEFINE T == { l \in Seq(Naming) : Claim(l) }
<1>1. <<>> \in T
  <2>1. text \o <<>> = text /\ NamesIn(<<>>) = {} /\ <<>> \in Seq(Naming)
    BY DEF NamesIn
  <2> QED
    BY <2>1
<1>2. ASSUME NEW l \in Seq(Naming), NEW e \in Naming, Claim(l) PROVE Claim(Append(l, e))
  <2>1. e \in Entries /\ e.name # "NONE" /\ l \in Seq(Entries)
    BY DEF Naming
  <2>2. text \o Append(l, e) = Append(text \o l, e) /\ text \o l \in Seq(Entries)
    BY <2>1, Allowing!ConcatAppend
  <2>3. Allows(Append(text \o l, e)) = AddImport(Allows(text \o l), e)
    BY <2>1, <2>2, Allowing!FoldAppend DEF Allows
  <2> DEFINE A == Allows(text \o l)
  <2> DEFINE E == D \cup NamesIn(l)
  <2>4. Same(A, E)
    BY <1>2
  <2>5. D \cup NamesIn(Append(l, e)) = E \cup {e.name}
    BY NamesGrow
  <2> HIDE DEF A, E
  <2>6. Same(AddImport(A, e), E \cup {e.name})
    BY <2>1, <2>4 DEF AddImport, Same
  <2> QED
    BY <2>2, <2>3, <2>5, <2>6 DEF A
<1>3. \A l \in Seq(Naming), e \in Naming : l \in T => Append(l, e) \in T
  <2> SUFFICES ASSUME NEW l \in Seq(Naming), NEW e \in Naming, l \in T
               PROVE  Append(l, e) \in T
    OBVIOUS
  <2>1. Append(l, e) \in Seq(Naming)
    OBVIOUS
  <2>2. Claim(Append(l, e))
    BY <1>2
  <2> HIDE DEF Claim
  <2> QED
    BY <2>1, <2>2
<1> HIDE DEF T
<1>4. more \in T
  BY <1>1, <1>3, Allowing!ListInduction
<1> QED
  BY <1>4 DEF T

\* A list that has NONE first or not at all allows the names on it.
LEMMA FirstList ==
  ASSUME NEW text \in ImportTexts, NoneComesFirst(text)
  PROVE  /\ text \in Lists /\ Tail(text) \in Seq(Naming)
         /\ text[1].plus => text[1].name # "NONE"
         /\ Same(Allows(text), NamesIn(text) \ {"NONE"})
<1>1. text \in Lists
  BY TextsAreLists
<1> DEFINE x == text[1]
<1> DEFINE rest == Tail(text)
<1>2. /\ text = <<x>> \o rest /\ x \in Entries /\ rest \in Seq(Entries)
      /\ NamesIn(text) = {x.name} \cup NamesIn(rest)
  BY <1>1, FirstAndRest, NamesOfParts
<1>3. /\ text[1].plus => text[1].name # "NONE"
      /\ \A i \in 1 .. Len(rest) : rest[i] \in Naming
  <2>1. /\ DOMAIN text = 1 .. Len(text) /\ Len(text) \in Nat \ {0}
        /\ Len(rest) = Len(text) - 1
        /\ \A i \in 1 .. Len(rest) : rest[i] = text[i + 1] /\ rest[i] \in Entries
    <3>1. text \in Seq(Entries) /\ Len(text) \in Nat \ {0}
      BY <1>1, Stripped
    <3> QED
      BY <3>1
  <2> HIDE DEF rest
  <2>2. ASSUME NEW i \in 1 .. Len(rest) PROVE rest[i] \in Naming
    <3>1. i + 1 \in DOMAIN text /\ i + 1 # 1
      BY <2>1
    <3>2. text[i + 1].name # "NONE"
      BY <3>1 DEF NoneComesFirst
    <3> QED
      BY <2>1, <3>2 DEF Naming
  <2>3. 1 \in DOMAIN text
    BY <2>1
  <2> QED
    BY <2>2, <2>3 DEF NoneComesFirst
<1>4. rest \in Seq(Naming)
  <2> HIDE DEF rest
  <2> QED
    BY <1>2, <1>3
<1>5. "NONE" \notin NamesIn(rest)
  <2>1. DOMAIN rest = 1 .. Len(rest)
    BY <1>2
  <2> HIDE DEF rest
  <2> QED
    BY <1>3, <2>1 DEF NamesIn, Naming
<1> HIDE DEF x, rest
<1>6. Same(Allows(<<x>>), {x.name} \ {"NONE"})
  <2>1. Allows(<<x>>) = AddImport({}, x)
    BY Allowing!FoldOne DEF Allows
  <2> QED
    BY <2>1 DEF AddImport, Same
<1>7. <<x>> \in Seq(Entries)
  BY <1>2
<1>8. Same(Allows(<<x>> \o rest), ({x.name} \ {"NONE"}) \cup NamesIn(rest))
  BY <1>4, <1>6, <1>7, NamesAdded
<1>9. ({x.name} \ {"NONE"}) \cup NamesIn(rest) = NamesIn(text) \ {"NONE"}
  BY <1>2, <1>5
<1> QED
  BY <1>1, <1>2, <1>3, <1>4, <1>8, <1>9 DEF rest

\* One directive more: gosp2go goes on allowing what the documentation promises.
LEMMA ImportAdded ==
  ASSUME NEW text \in Lists, NEW D, Same(Allows(text), D),
         NEW more \in ImportTexts, NoneComesFirst(more)
  PROVE  Same(Allows(MergeImports(text, more)), DocAllows(D, more))
<1>1. /\ more \in Lists /\ more # None /\ text # None /\ text \in Seq(Entries)
      /\ Tail(more) \in Seq(Naming)
      /\ Same(Allows(more), NamesIn(more) \ {"NONE"})
  BY FirstList, NoneAssumption DEF Lists
<1>2. DocAllows(D, more) = IF more[1].plus THEN D \cup (NamesIn(more) \ {"NONE"})
                                           ELSE NamesIn(more) \ {"NONE"}
  BY <1>1 DEF DocAllows, NamesIn
<1>3. CASE more[1].plus
  <2> DEFINE y == Entry(FALSE, more[1].name)
  <2> DEFINE w == WithoutPlus(more)
  <2>1. y \in Naming
    BY <1>1, <1>3, FirstList, Stripped DEF Naming, Entry, Entries
  <2>2. w = <<y>> \o Tail(more) /\ NamesIn(w) = NamesIn(more)
    BY <1>1, NamesOfParts DEF WithoutPlus
  <2>3. w \in Seq(Naming)
    <3> HIDE DEF y, w
    <3>1. <<y>> \in Seq(Naming)
      BY <2>1
    <3> QED
      BY <1>1, <2>2, <3>1, ConcatProperties
  <2>4. "NONE" \notin NamesIn(w)
    <3> HIDE DEF w
    <3>1. \A i \in DOMAIN w : w[i] \in Naming
      BY <2>3
    <3> QED
      BY <3>1 DEF NamesIn, Naming
  <2>5. MergeImports(text, more) = text \o w
    BY <1>1, <1>3 DEF MergeImports
  <2> HIDE DEF w
  <2>6. Same(Allows(text \o w), D \cup NamesIn(w))
    BY <1>1, <2>3, NamesAdded
  <2>7. D \cup NamesIn(w) = DocAllows(D, more)
    BY <1>2, <1>3, <2>2, <2>4
  <2> QED
    BY <2>5, <2>6, <2>7
<1>4. CASE ~more[1].plus
  <2>1. MergeImports(text, more) = more
    BY <1>1, <1>4 DEF MergeImports, ChildOverParent
  <2> QED
    BY <1>1, <1>2, <1>4, <2>1
<1> QED
  BY <1>3, <1>4

\* The lists of two records are merged, where both have one.
LEMMA MergedImports ==
  ASSUME NEW p \in OptionalOf(Records), NEW c \in OptionalOf(Records),
         p # None => ImportsOf(p) # None, c # None => ImportsOf(c) # None
  PROVE  /\ ImportsOf(MergeIfAny(p, c))
              = IF ImportsOf(p) = None THEN ImportsOf(c)
                ELSE MergeImports(ImportsOf(p), ImportsOf(c))
         /\ MergeIfAny(p, c) # None => ImportsOf(MergeIfAny(p, c)) # None
<1>1. CASE p = None \/ c = None
  BY <1>1 DEF MergeIfAny, ImportsOf, MergeImports, ChildOverParent
<1>2. CASE p # None /\ c # None
  <2>1. MergeIfAny(p, c) = Merge(p, c) /\ MergeIfAny(p, c) # None
    BY <1>2, MergeTypes, NoneAssumption DEF MergeIfAny
  <2>2. ImportsOf(p) \in Lists /\ ImportsOf(c) \in Lists
    BY <1>2 DEF ImportsOf, Records, OptionalOf
  <2>3. ImportsOf(MergeIfAny(p, c)) = MergeImports(ImportsOf(p), ImportsOf(c))
    BY <1>2, <2>1 DEF ImportsOf, Merge
  <2>4. MergeImports(ImportsOf(p), ImportsOf(c)) \in Lists
    BY <2>2, MergeImportsAssociates
  <2> QED
    BY <2>2, <2>3, <2>4, NoneAssumption
<1> QED
  BY <1>1, <1>2

\* What a context says of imports is in its record; where all is said plainly, there
\* is no record if it says nothing, and NONE comes first.
LEMMA SaidImportsHeld ==
  ASSUME CInv, NEW s \in Servers, SaidPlainly(s), NEW c \in Contexts
  PROVE  /\ conf[c] \in OptionalOf(Records)
         /\ SaidImports[c] \in OptionalOf(ImportTexts)
         /\ Held(c, s, SaidImports) \in OptionalOf(ImportTexts)
         /\ Held(c, s, conf) \in OptionalOf(Records)
         /\ Held(c, s, SaidImports) = ImportsOf(Held(c, s, conf))
         /\ Held(c, s, conf) # None => Held(c, s, SaidImports) # None
         /\ Held(c, s, SaidImports) # None => NoneComesFirst(Held(c, s, SaidImports))
<1>1. conf[c] \in OptionalOf(Records)
  BY DEF CInv, TypeOK
<1>2. SaidImports[c] = said[c].imports /\ said[c].imports \in OptionalOf(ImportTexts)
  BY DEF CInv, SaidImports, Sayings
<1>3. said[c].imports = ImportsOf(conf[c])
  BY DEF CInv, Recorded, Holds, NothingSaid, ImportsOf
<1>4. CASE c \in Around(s)
  <2>1. conf[c] = None => SaidImports[c] = None
    BY <1>2, <1>3 DEF ImportsOf
  <2>2. Held(c, s, SaidImports) = SaidImports[c] /\ Held(c, s, conf) = conf[c]
    BY <1>4 DEF Held
  <2> QED
    BY <1>1, <1>2, <1>3, <1>4, <2>1, <2>2 DEF SaidPlainly
<1>5. CASE c \notin Around(s)
  BY <1>1, <1>2, <1>5 DEF Held, ImportsOf, OptionalOf
<1> QED
  BY <1>4, <1>5, <1>1, <1>2

\* One more context adds what the documentation promises.
LEMMA OneMorePromised ==
  ASSUME CInv, NEW s \in Servers, SaidPlainly(s), NEW list \in Seq(Contexts), NEW c \in Contexts
  PROVE  Promised(Append(list, c), s) = DocAllows(Promised(list, s), Held(c, s, SaidImports))
<1> DEFINE R == OptionalOf(ImportTexts)
<1> DEFINE t == Held(c, s, SaidImports)
<1>1. None \in R /\ (\A d \in Contexts : SaidImports[d] \in R) /\ t \in R
  BY SaidImportsHeld DEF OptionalOf
<1> HIDE DEF R
<1>2. Along(list, s, SaidImports) \in Seq(R)
  BY <1>1, AlongType
<1>3. Along(Append(list, c), s, SaidImports) = Append(Along(list, s, SaidImports), t)
  BY AlongGrows
<1> HIDE DEF t
<1>4. Promising!Fold(Append(Along(list, s, SaidImports), t))
        = DocAllows(Promising!Fold(Along(list, s, SaidImports)), t)
  BY <1>1, <1>2, Promising!FoldAppend
<1> QED
  BY <1>3, <1>4 DEF Promised, t

\* A server's record allows what the documentation promises for it.
LEMMA ServersPromise ==
  ASSUME CInv, NEW s \in Servers, SaidPlainly(s)
  PROVE  /\ ServerLevel(s).imports \in Lists
         /\ Same(Allows(ServerLevel(s).imports), Promised(<<"main", "vhost">>, s))
<1> DEFINE m == SaidImports["main"]
<1> DEFINE v == IF s = "main" THEN None ELSE SaidImports["vhost"]
<1>1. /\ "main" \in Contexts /\ "vhost" \in Contexts /\ "main" \in Around(s)
      /\ s # "main" => "vhost" \in Around(s)
  BY DEF Contexts, Servers, Around
<1>2. /\ m = ImportsOf(conf["main"]) /\ m \in ImportTexts
      /\ conf["main"] \in Records /\ conf["main"] # None
  <2>1. conf["main"] \in Records /\ conf["main"] # None
    BY ServerLevelType, NoneAssumption DEF CInv
  <2>2. Held("main", s, conf) = conf["main"] /\ Held("main", s, SaidImports) = m
    BY <1>1 DEF Held
  <2> HIDE DEF m
  <2> QED
    BY <1>1, <2>1, <2>2, SaidImportsHeld DEF OptionalOf
<1>3. v \in OptionalOf(ImportTexts) /\ (v # None => NoneComesFirst(v))
  <2>1. CASE s = "main"
    BY <2>1 DEF OptionalOf
  <2>2. CASE s # "main"
    <3>1. Held("vhost", s, SaidImports) = v
      BY <1>1, <2>2 DEF Held
    <3> HIDE DEF v
    <3> QED
      BY <1>1, <3>1, SaidImportsHeld
  <2> QED
    BY <2>1, <2>2
<1>4. Promised(<<"main", "vhost">>, s) = DocAllows(DocAllows({}, m), v)
  <2>1. Along(<<"main", "vhost">>, s, SaidImports) = <<m, v>>
    BY AlongServers
  <2> HIDE DEF m, v
  <2> QED
    BY <2>1, Promising!FoldTwo DEF Promised
<1>5. ServerLevel(s).imports = MergeImports(m, v)
  <2>1. ServerLevel(s).imports = ImportsOf(ServerLevel(s))
    BY ServerLevelType, NoneAssumption DEF ImportsOf, CInv
  <2>2. CASE s = "main"
    BY <1>2, <2>1, <2>2 DEF ServerLevel, MergeImports, ChildOverParent
  <2>3. CASE s # "main"
    <3>1. Held("vhost", s, conf) = conf["vhost"] /\ Held("vhost", s, SaidImports) = v
      BY <1>1, <2>3 DEF Held
    <3>2. /\ conf["vhost"] \in OptionalOf(Records) /\ v = ImportsOf(conf["vhost"])
          /\ conf["vhost"] # None => v # None
      BY <1>1, <3>1, SaidImportsHeld
    <3> HIDE DEF m, v
    <3>3. ImportsOf(conf["main"]) # None /\ conf["main"] \in OptionalOf(Records)
      BY <1>2, TextsAreLists, NoneAssumption DEF OptionalOf
    <3>4. ImportsOf(MergeIfAny(conf["main"], conf["vhost"])) = MergeImports(m, v)
      BY <1>2, <3>2, <3>3, MergedImports
    <3> QED
      BY <2>1, <2>3, <3>4 DEF ServerLevel
  <2> QED
    BY <2>2, <2>3
<1> HIDE DEF m, v
<1>6. m \in Lists /\ NoneComesFirst(m) /\ Same(Allows(m), DocAllows({}, m))
  <2>1. NoneComesFirst(m) /\ m # None
    BY <1>1, <1>2, TextsAreLists, NoneAssumption DEF SaidPlainly, CInv, Recorded, Holds, ImportsOf
  <2>2. m \in Lists /\ Same(Allows(m), NamesIn(m) \ {"NONE"})
    BY <1>2, <2>1, FirstList
  <2>3. DocAllows({}, m) = NamesIn(m) \ {"NONE"}
    BY <2>1 DEF DocAllows, NamesIn
  <2> QED
    BY <2>1, <2>2, <2>3
<1>7. CASE v = None
  BY <1>4, <1>5, <1>6, <1>7 DEF MergeImports, ChildOverParent, DocAllows
<1>8. CASE v # None
  <2>1. v \in ImportTexts /\ v \in Lists
    BY <1>3, <1>8, TextsAreLists DEF OptionalOf
  <2>2. MergeImports(m, v) \in Lists
    BY <1>6, <2>1, MergeImportsAssociates
  <2>3. Same(Allows(MergeImports(m, v)), DocAllows(DocAllows({}, m), v))
    BY <1>3, <1>6, <1>8, <2>1, ImportAdded
  <2> QED
    BY <1>4, <1>5, <2>2, <2>3
<1> QED
  BY <1>7, <1>8

\* Merged into a server's list, what merging has made of some sections allows what
\* the documentation promises.
LEMMA SectionsPromise ==
  ASSUME CInv, NEW s \in Servers, SaidPlainly(s), NEW list \in Seq(Contexts),
         NEW own, own = ServerLevel(s).imports
  PROVE  LET merged == ImportsOf(SectionsMerged(list, s))
         IN  /\ SectionsMerged(list, s) # None => merged # None
             /\ merged \in OptionalOf(Lists)
             /\ Same(Allows(MergeImports(own, merged)),
                     Promised(<<"main", "vhost">> \o list, s))
<1> DEFINE servers == <<"main", "vhost">>
<1> DEFINE M(l) == SectionsMerged(l, s)
<1> DEFINE N(l) == Promised(servers \o l, s)
<1> DEFINE Claim(l) == /\ M(l) # None => ImportsOf(M(l)) # None
                       /\ ImportsOf(M(l)) \in OptionalOf(Lists)
                       /\ Same(Allows(MergeImports(own, ImportsOf(M(l)))), N(l))
<1> DEFINE T == {l \in Seq(Contexts) : Claim(l)}
<1>0. /\ servers \in Seq(Contexts) /\ own \in Lists
      /\ Same(Allows(own), Promised(servers, s))
  BY ServersPromise DEF Contexts, Servers
<1> HIDE DEF servers
<1>1. <<>> \in T
  <2>1. servers \o <<>> = servers /\ <<>> \in Seq(Contexts)
    BY <1>0
  <2>2. M(<<>>) = None
    <3>1. Along(<<>>, s, conf) = <<>>
      BY DEF Along
    <3> QED
      BY <3>1, Merging!FoldEmpty DEF SectionsMerged
  <2>3. N(<<>>) = Promised(servers, s)
    BY <2>1
  <2> HIDE DEF M, N
  <2>4. MergeImports(own, ImportsOf(M(<<>>))) = own
    BY <2>2 DEF ImportsOf, MergeImports, ChildOverParent
  <2> QED
    BY <1>0, <2>1, <2>2, <2>3, <2>4 DEF ImportsOf, OptionalOf
<1>2. ASSUME NEW l \in Seq(Contexts), NEW c \in Contexts, Claim(l)
      PROVE  Claim(Append(l, c))
  <2> DEFINE longer == Append(l, c)
  <2> DEFINE r == Held(c, s, conf)
  <2> DEFINE t == Held(c, s, SaidImports)
  <2> DEFINE g == ImportsOf(M(l))
  <2>1. /\ servers \o longer = Append(servers \o l, c) /\ servers \o l \in Seq(Contexts)
        /\ longer \in Seq(Contexts)
    BY <1>0, Merging!ConcatAppend
  <2>2. /\ t \in OptionalOf(ImportTexts) /\ r \in OptionalOf(Records)
        /\ t = ImportsOf(r) /\ (r # None => t # None)
        /\ t # None => NoneComesFirst(t)
    BY SaidImportsHeld
  <2>3. N(longer) = DocAllows(N(l), t)
    BY <2>1, OneMorePromised
  <2>4. TypeOK
    BY DEF CInv
  <2>5. M(longer) = MergeIfAny(M(l), r) /\ M(l) \in OptionalOf(Records)
    BY <2>4, OneMoreSection, SectionsMergedType
  <2> HIDE DEF longer, r, t, M, N
  <2>6. /\ ImportsOf(M(longer)) = IF g = None THEN t ELSE MergeImports(g, t)
        /\ M(longer) # None => ImportsOf(M(longer)) # None
    BY <1>2, <2>2, <2>5, MergedImports
  <2>7. g \in OptionalOf(Lists) /\ Same(Allows(MergeImports(own, g)), N(l))
    BY <1>2
  <2> HIDE DEF g
  <2>8. CASE t = None
    <3>1. ImportsOf(M(longer)) = g
      BY <2>6, <2>8 DEF MergeImports, ChildOverParent
    <3>2. N(longer) = N(l)
      BY <2>3, <2>8 DEF DocAllows
    <3> QED
      BY <2>6, <2>7, <3>1, <3>2 DEF longer
  <2>9. CASE t # None
    <3>1. t \in ImportTexts /\ t \in Lists
      BY <2>2, <2>9, TextsAreLists DEF OptionalOf
    <3>2. MergeImports(own, g) \in Lists
      BY <1>0, <2>7, MergeImportsAssociates DEF MergeImports, ChildOverParent, OptionalOf
    <3>3. Same(Allows(MergeImports(MergeImports(own, g), t)), N(longer))
      BY <2>2, <2>3, <2>7, <2>9, <3>1, <3>2, ImportAdded
    <3>4. /\ ImportsOf(M(longer)) \in Lists
          /\ MergeImports(own, ImportsOf(M(longer))) = MergeImports(MergeImports(own, g), t)
      <4>1. CASE g = None
        BY <2>6, <3>1, <4>1 DEF MergeImports, ChildOverParent
      <4>2. CASE g # None
        <5>1. g \in Lists /\ own \in Lists /\ t \in Lists
          BY <1>0, <2>7, <3>1, <4>2 DEF OptionalOf
        <5>2. MergeImports(g, t) \in Lists
          BY <5>1, MergeImportsAssociates
        <5>3. MergeImports(own, MergeImports(g, t)) = MergeImports(MergeImports(own, g), t)
          BY <5>1, MergeImportsAssociates, ZenonT(60)
        <5> QED
          BY <2>6, <4>2, <5>2, <5>3
      <4> QED
        BY <4>1, <4>2
    <3> QED
      BY <2>6, <3>3, <3>4 DEF longer, OptionalOf
  <2> QED
    BY <2>8, <2>9
<1>3. \A l \in Seq(Contexts), c \in Contexts : l \in T => Append(l, c) \in T
  <2> SUFFICES ASSUME NEW l \in Seq(Contexts), NEW c \in Contexts, l \in T
               PROVE  Append(l, c) \in T
    OBVIOUS
  <2>1. Append(l, c) \in Seq(Contexts)
    OBVIOUS
  <2>2. Claim(Append(l, c))
    BY <1>2
  <2> HIDE DEF Claim
  <2> QED
    BY <2>1, <2>2
<1> HIDE DEF T
<1>4. list \in T
  BY <1>1, <1>3, Merging!ListInduction
<1>5. Claim(list)
  BY <1>4 DEF T
<1> QED
  BY <1>5 DEF servers

\* gosp2go allows a page what the documentation says, where every context that has
\* a directive of ours has one about imports, and NONE comes first in a list that
\* has it and is not added to a parent's (mod_gosp.c:236-243, params.go:63).
THEOREM ImportsReachPages == Spec => []ImportsWithoutGap
<1>1. ASSUME CInv, NEW s \in Servers, SaidPlainly(s)
      PROVE  Same(Allowed(s), DocAllowed(s))
  <2> DEFINE servers == <<"main", "vhost">>
  <2> DEFINE own == ServerLevel(s).imports
  <2> DEFINE M == SectionsMerged(Sections, s)
  <2> DEFINE g == ImportsOf(M)
  <2>1. Sections \in Seq(Contexts) /\ TypeOK
    BY <1>1, SectionsAssumption DEF Contexts, CInv
  <2>2. own \in Lists
    BY <1>1, ServersPromise
  <2>3. /\ M # None => g # None
        /\ g \in OptionalOf(Lists)
        /\ Same(Allows(MergeImports(own, g)), Promised(servers \o Sections, s))
    BY <1>1, <2>1, SectionsPromise
  <2>4. /\ ServerLevel(s) \in OptionalOf(Records) /\ ServerLevel(s) # None
        /\ M \in OptionalOf(Records)
        /\ ImportsOf(ServerLevel(s)) = own
        /\ Effective(s) # None
    <3>1. ServerLevel(s) \in Records /\ Effective(s) \in Records
      BY <2>1, ServerLevelType, EffectiveType
    <3> QED
      BY <2>1, <3>1, SectionsMergedType, NoneAssumption DEF OptionalOf, ImportsOf
  <2>5. Effective(s) = MergeIfAny(ServerLevel(s), M)
    BY LinkedFolds DEF Effective
  <2>6. DocAllowed(s) = Promised(servers \o Sections, s)
    <3>1. \A list : FoldLeft(DocAllows, {}, list) = Promising!Fold(list)
      BY DEF Promising!Fold, FoldLeft, MapThenFoldSet, Max,
             Promising!FoldLeft, Promising!MapThenFoldSet, Promising!Max
    <3> QED
      BY <3>1 DEF DocAllowed, Promised, Chain, SaidImports
  <2>7. \A list : FoldLeft(AddImport, {}, list) = Allows(list)
    BY DEF Allows, Allowing!Fold, FoldLeft, MapThenFoldSet, Max,
           Allowing!FoldLeft, Allowing!MapThenFoldSet, Allowing!Max
  <2> HIDE DEF own, M, servers
  <2>8. Effective(s).imports = MergeImports(own, g) /\ MergeImports(own, g) \in Lists
    <3>1. ImportsOf(Effective(s)) = MergeImports(own, g)
      BY <2>2, <2>3, <2>4, <2>5, MergedImports, NoneAssumption
    <3>2. MergeImports(own, g) \in Lists
      BY <2>2, <2>3, MergeImportsAssociates DEF MergeImports, ChildOverParent, OptionalOf
    <3> QED
      BY <2>4, <3>1, <3>2 DEF ImportsOf
  <2>9. Allowed(s) = Allows(MergeImports(own, g))
    <3>1. Effective(s).imports # None
      BY <2>8, NoneAssumption
    <3> QED
      BY <2>7, <2>8, <3>1, PlusIsIgnored DEF Allowed
  <2> QED
    BY <2>3, <2>6, <2>9
<1>2. CInv => ImportsWithoutGap
  BY <1>1 DEF ImportsWithoutGap
<1> QED
  BY <1>2, Configuring, PTL
=============================================================================
