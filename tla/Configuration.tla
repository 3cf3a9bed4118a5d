---------------------------- MODULE Configuration ----------------------------
(***************************************************************************)
(* From the configuration file to the command lines of gosp2go and         *)
(* gosp-server: the directives of the module, the configuration records    *)
(* they fill, and the way Apache merges the records of nested contexts for *)
(* one page (src/src/module/mod_gosp.c and launch.c, with the lists of     *)
(* gosp2go/params.go).                                                     *)
(*                                                                         *)
(* A page lies in the main server, perhaps in a virtual host, and in       *)
(* nested sections such as <Directory>.  Apache creates the record of a    *)
(* context when it meets the first of our directives there.  It merges a   *)
(* virtual host into the main server when it starts, the sections with one *)
(* another when a request arrives, and the outcome into the server's       *)
(* record last.                                                            *)
(***************************************************************************)
EXTENDS Naturals, Sequences, SequencesExt

CONSTANTS
    Sections,       \* the names of the sections around the page, outermost first
    Plain,          \* the directives with one value that are in use
    Values,         \* their values
    Packages,       \* Go packages a page may import
    ImportTexts,    \* the arguments of GospAllowedImports in use
    Dirs,           \* directories for GOPATH
    Modules,        \* modules that may be replaced
    Paths,          \* replacements for them
    MaxDirectives,  \* bound: how many directives the configuration holds
    None            \* NULL

Servers    == {"main", "vhost"}
Contexts   == Servers \cup ToSet(Sections)
\* Fields that gosp_allocate_context_config fills, and fields it leaves NULL.
Defaulted  == {"go_cmd", "gosp_server"}
Nullable   == {"max_idle", "max_top", "go_mod_cache"}
AllPlain   == Defaulted \cup Nullable
BuiltIn    == "built-in default"

ASSUME PlainAssumption == Plain \subseteq AllPlain
ASSUME BoundAssumption == MaxDirectives \in Nat
ASSUME SectionsAssumption == /\ Sections \in Seq(ToSet(Sections))
                             /\ ToSet(Sections) \cap Servers = {}

VARIABLES
    phase,      \* "reading" the file, "ready" for requests, "refused" to
                \* start, or "crashed": a worker that handled a request
    place,      \* place[c]: the server whose text section c is part of
    conf,       \* conf[c]: the per-context configuration of c, or None
    sconf,      \* sconf[s]: the per-server configuration of s, or None
    count,      \* how many directives have been read
    said        \* history: what the directives of each context say, taken alone

vars == <<phase, place, conf, sconf, count, said>>

-----------------------------------------------------------------------------
\* A list, for GospAllowedImports or GospGoPath: its entries in order, each
\* with or without a leading "+".
Entry(plus, name) == [plus |-> plus, name |-> name]
WithoutPlus(text) == <<Entry(FALSE, text[1].name)>> \o Tail(text)

\* The lists that GospGoPath gives, one entry each.
PathTexts   == { <<entry>> : entry \in [plus : BOOLEAN, name : Dirs] }
\* Lists of both kinds, as directives give them and as merging joins them.
Entries == [plus : BOOLEAN, name : Dirs \cup Packages \cup {"ALL", "NONE"}]
Lists   == { text \in Seq(Entries) : text # <<>> }

\* Any names may be listed, ALL and NONE among them; a "+" comes first.  (An
\* empty element, which gosp2go rejects, is left out.)
ASSUME ImportAssumption ==
    /\ ImportTexts \subseteq Lists
    /\ \A text \in ImportTexts : \A i \in 2 .. Len(text) : ~text[i].plus

\* Tables of replacements.
Tables  == UNION { [S -> Paths] : S \in SUBSET Modules }

OptionalOf(S) == S \cup {None}
Records == [plain     : [AllPlain -> Values \cup {BuiltIn, None}],
            imports   : OptionalOf(Lists),
            go_path   : OptionalOf(Lists),
            mod_repls : OptionalOf(Tables)]
ServerRecords == [work_dir : Dirs \cup {BuiltIn}, user : Values \cup {BuiltIn},
                  mutex : OptionalOf(Dirs \cup {BuiltIn})]

ASSUME NoneAssumption ==
    /\ None \notin Values \cup Paths \cup Dirs \cup {BuiltIn, "cancelled"}
    /\ None \notin Lists /\ None \notin Tables
    /\ None \notin Records /\ None \notin ServerRecords
ASSUME NamesAssumption == "cancelled" \notin Paths

Fresh == [plain |-> [f \in AllPlain |-> IF f \in Defaulted THEN BuiltIn ELSE None],
          imports |-> None, go_path |-> None, mod_repls |-> None]

FreshServer == [work_dir |-> BuiltIn, user |-> BuiltIn, mutex |-> None]

NothingSaid == [plain |-> [f \in AllPlain |-> None],
                imports |-> None, go_path |-> None,
                repl |-> [m \in Modules |-> None]]

-----------------------------------------------------------------------------
(***************************************************************************)
(* gosp_merge_context_config.                                              *)
(***************************************************************************)
ChildOverParent(parent, child) == IF child = None THEN parent ELSE child

\* Mutant of MergePlain: the parent's values hide the child's.
MergePlainReversed(parent, child) ==
    [f \in AllPlain |-> ChildOverParent(child[f], parent[f])]

MergePlain(parent, child) ==
    [f \in AllPlain |-> ChildOverParent(parent[f], child[f])]

\* Mutants of MergeRepls: no overlay, and no test for a missing table.
DropParentsRepls(parent, child) == child
ReplaceAllRepls(parent, child) == IF child = None THEN parent ELSE child

\* Tables are overlaid, the child's entries on the parent's.
MergeRepls(parent, child) ==
    IF parent = None \/ child = None
    THEN ChildOverParent(parent, child)
    ELSE [m \in DOMAIN parent \cup DOMAIN child |->
             IF m \in DOMAIN child THEN child[m] ELSE parent[m]]

\* Mutant of MergeImports: "+" is stripped but adds to nothing.
DropParentsImports(parent, child) ==
    IF child = None THEN parent ELSE WithoutPlus(child)

\* "+" appends to the parent's list, and to ALL where the parent has none.
MergeImports(parent, child) ==
    IF child = None \/ ~child[1].plus
    THEN ChildOverParent(parent, child)
    ELSE (IF parent = None THEN <<Entry(FALSE, "ALL")>> ELSE parent)
           \o WithoutPlus(child)

\* Mutant of MergeGoPath: the parent's list comes first.
AppendGoPath(parent, child) ==
    IF child = None \/ parent = None \/ ~child[1].plus
    THEN ChildOverParent(parent, child)
    ELSE parent \o WithoutPlus(child)

\* "+" prepends to the parent's list, where the parent has one.
MergeGoPath(parent, child) ==
    IF child = None \/ parent = None \/ ~child[1].plus
    THEN ChildOverParent(parent, child)
    ELSE WithoutPlus(child) \o parent

Merge(parent, child) ==
    [plain     |-> MergePlain(parent.plain, child.plain),
     imports   |-> MergeImports(parent.imports, child.imports),
     go_path   |-> MergeGoPath(parent.go_path, child.go_path),
     mod_repls |-> MergeRepls(parent.mod_repls, child.mod_repls)]

\* ap_merge_per_dir_configs: a context without a record of ours is passed over.
MergeIfAny(parent, child) ==
    IF parent = None THEN child
    ELSE IF child = None THEN parent ELSE Merge(parent, child)

\* The contexts around a page of server s: among the sections, those of the main
\* server and those of its own.
Around(s) == {"main", s} \cup { c \in ToSet(Sections) : place[c] \in {"main", s} }

\* What a context holds for a page of s, and those of a list, in order.
Held(c, s, held)     == IF c \in Around(s) THEN held[c] ELSE None
Along(list, s, held) == [i \in DOMAIN list |-> Held(list[i], s, held)]

ServerLevel(s) == IF s = "main" THEN conf["main"]
                                ELSE MergeIfAny(conf["main"], conf["vhost"])
SectionLevel(s) == FoldLeft(MergeIfAny, None, Along(Sections, s, conf))

\* r->per_dir_config of a request to s.
Effective(s) == MergeIfAny(ServerLevel(s), SectionLevel(s))

\* What r->server's configuration is: Apache lets a virtual host share the
\* record of the main server unless it has one of its own.
ServerConf(s) == IF sconf[s] = None THEN sconf["main"] ELSE sconf[s]

-----------------------------------------------------------------------------
(***************************************************************************)
(* compile_gosp_server and launch_gosp_server.                             *)
(***************************************************************************)

\* One entry of ImportSet.Set (params.go).
AddImport(allowed, entry) ==
    CASE entry.name = "NONE" -> {}
      [] entry.name = "ALL"  -> {"ALL"}
      [] OTHER -> IF "ALL" \in allowed THEN allowed ELSE allowed \cup {entry.name}

\* The packages gosp2go lets a page of s import: --allowed.
Allowed(s) ==
    LET text == Effective(s).imports
    IN  FoldLeft(AddImport, {},
                 IF text = None THEN <<Entry(FALSE, "NONE")>> ELSE WithoutPlus(text))

\* --replace, where there are any replacements: see NullFollowed.
Replaced(s) == Effective(s).mod_repls

\* GOPATH
GoPath(s) == LET text == Effective(s).go_path
             IN  IF text = None THEN <<Entry(FALSE, BuiltIn)>> ELSE text

-----------------------------------------------------------------------------
Init ==
    /\ phase = "reading"
    /\ place \in [ToSet(Sections) -> Servers]
    /\ conf  = [c \in Contexts |-> IF c = "main" THEN Fresh ELSE None]
    /\ sconf = [s \in Servers |-> IF s = "main" THEN FreshServer ELSE None]
    /\ count = 0
    /\ said  = [c \in Contexts |-> NothingSaid]

\* The server a directive in context c belongs to: cmd->server.
ServerOf(c) == IF c \in Servers THEN c ELSE place[c]

\* ap_set_config_vectors: before it runs the handler of one of our
\* directives, Apache allocates what is missing.
ConfOf(c)  == IF conf[c] = None THEN Fresh ELSE conf[c]
SconfOf(s) == IF sconf[s] = None THEN FreshServer ELSE sconf[s]

\* A directive in context c changes the two records to new and snew.
Directive(c, new, snew) ==
    /\ phase = "reading"
    /\ count < MaxDirectives
    /\ count' = count + 1
    /\ conf'  = [conf EXCEPT ![c] = new]
    /\ sconf' = [sconf EXCEPT ![ServerOf(c)] = snew]
    /\ UNCHANGED <<phase, place>>
ContextDirective(c, new) == Directive(c, new, SconfOf(ServerOf(c)))

\* gosp_set_go_compiler, ..._gosp_server, ..._max_idle, ..._max_top,
\* ..._go_mod_cache
SetPlain(c, f, v) ==
    /\ ContextDirective(c, [ConfOf(c) EXCEPT !.plain[f] = v])
    /\ said' = [said EXCEPT ![c].plain[f] = v]

\* gosp_set_go_path
SetGoPath(c, text) ==
    /\ ContextDirective(c, [ConfOf(c) EXCEPT !.go_path = text])
    /\ said' = [said EXCEPT ![c].go_path = text]

\* gosp_set_allowed_imports
SetAllowedImports(c, text) ==
    /\ ContextDirective(c, [ConfOf(c) EXCEPT !.imports = text])
    /\ said' = [said EXCEPT ![c].imports = text]

\* Mutant of HashSet: NULL is stored.
HashSetNull(table, m, value) ==
    [x \in DOMAIN table \cup {m} |-> IF x = m THEN value ELSE table[x]]

\* apr_hash_set: NULL deletes.
HashSet(table, m, value) ==
    [x \in (DOMAIN table \ {m}) \cup (IF value = None THEN {} ELSE {m}) |->
       IF x = m THEN value ELSE table[x]]

\* gosp_add_mod_repl: with a module alone the entry is deleted, from the table
\* of this context.
AddModRepl(c, m, p) ==
    LET old == ConfOf(c).mod_repls
        tbl == IF old = None THEN << >> ELSE old
    IN  /\ ContextDirective(c, [ConfOf(c) EXCEPT !.mod_repls = HashSet(tbl, m, p)])
        /\ said' = [said EXCEPT ![c].repl[m] = IF p = None THEN "cancelled" ELSE p]

\* gosp_set_work_dir
SetWorkDir(c, d) ==
    /\ Directive(c, ConfOf(c), [SconfOf(ServerOf(c)) EXCEPT !.work_dir = d])
    /\ UNCHANGED said

\* gosp_set_user_id: an ID, or a name that the system knows.
SetUserId(c, u) ==
    /\ Directive(c, ConfOf(c), [SconfOf(ServerOf(c)) EXCEPT !.user = u])
    /\ UNCHANGED said

\* A name it does not know is an error in the configuration file.
UnknownUser ==
    /\ phase = "reading"
    /\ phase' = "refused"
    /\ UNCHANGED <<place, conf, sconf, count, said>>

\* create_directories_for, given what the path leads to: "absent", "directory",
\* "file", or "denied" where making the directory or giving it away fails.
DirectoryMade(found) == found \in {"absent", "directory"}

\* gosp_post_config, which Apache calls for the main server only: make the work
\* directory and create the mutex in it, which may fail or be refused its
\* permissions.  (gosp_child_init reopens that mutex.)
PostConfig(found, lockable) ==
    /\ phase = "reading"
    /\ IF DirectoryMade(found) /\ lockable
       THEN /\ phase' = "ready"
            /\ sconf' = [sconf EXCEPT !["main"].mutex = sconf["main"].work_dir]
       ELSE /\ phase' = "refused"
            /\ UNCHANGED sconf
    /\ UNCHANGED <<place, conf, count, said>>

\* rebuild_relaunch_retry takes the mutex of the server (acquire_global_lock),
\* and compile_gosp_server counts the replacements (apr_hash_count).  Both
\* follow the pointer they are given.
NullFollowed(s) == ServerConf(s).mutex = None \/ Effective(s).mod_repls = None
Rebuild(s) ==
    /\ phase = "ready"
    /\ NullFollowed(s)
    /\ phase' = "crashed"
    /\ UNCHANGED <<place, conf, sconf, count, said>>

Read(c) == \/ \E f \in Plain, v \in Values : SetPlain(c, f, v)
           \/ \E text \in PathTexts : SetGoPath(c, text)
           \/ \E text \in ImportTexts : SetAllowedImports(c, text)
           \/ \E m \in Modules, p \in Paths \cup {None} : AddModRepl(c, m, p)
           \/ \E d \in Dirs : SetWorkDir(c, d)
           \/ \E u \in Values : SetUserId(c, u)

Next == \/ \E c \in Contexts : Read(c)
        \/ UnknownUser
        \/ \E found \in {"absent", "directory", "file", "denied"},
              lockable \in BOOLEAN : PostConfig(found, lockable)
        \/ \E s \in Servers : Rebuild(s)

Spec == Init /\ [][Next]_vars

-----------------------------------------------------------------------------
(***************************************************************************)
(* What docs/configure.md promises, read off the directives themselves.    *)
(***************************************************************************)

\* All contexts, outermost first.
Chain == <<"main", "vhost">> \o Sections

\* What a setting is for a page of s, where the innermost context decides.
Override(outer, inner) == IF inner = None THEN outer ELSE inner
Innermost(s, setting) == FoldLeft(Override, None, Along(Chain, s, setting))

DocPlain(s, f) == Innermost(s, [c \in Contexts |-> said[c].plain[f]])

\* A "+" adds to what the parent allows, which is nothing by default.
DocAllows(outer, text) ==
    LET named == { text[i].name : i \in DOMAIN text } \ {"NONE"}
    IN  IF text = None THEN outer
        ELSE IF text[1].plus THEN outer \cup named ELSE named
DocAllowed(s) ==
    FoldLeft(DocAllows, {}, Along(Chain, s, [c \in Contexts |-> said[c].imports]))

DocReplaced(s, m) == Innermost(s, [c \in Contexts |-> said[c].repl[m]])

DocExtends(outer, text) ==
    LET names == [i \in DOMAIN text |-> text[i].name]
    IN  IF text = None THEN outer ELSE IF text[1].plus THEN names \o outer ELSE names
DocGoPath(s) ==
    FoldLeft(DocExtends, <<BuiltIn>>, Along(Chain, s, [c \in Contexts |-> said[c].go_path]))

-----------------------------------------------------------------------------
\* Every variable has its type, and no table holds NULL (AddModRepl deletes).
TypeOK ==
    /\ phase \in {"reading", "ready", "refused", "crashed"}
    /\ place \in [ToSet(Sections) -> Servers]
    /\ count \in 0 .. MaxDirectives
    /\ conf \in [Contexts -> OptionalOf(Records)]
    /\ sconf \in [Servers -> OptionalOf(ServerRecords)]
    /\ conf["main"] # None /\ sconf["main"] # None

\* Wherever a setting without a built-in value is made, the innermost context
\* that makes it decides, however Apache groups the merges
\* (MERGE_CHILD_OVER_PARENT, mod_gosp.c:197).
InnermostDecides == phase = "ready" =>
    \A s \in Servers : LET plain == Effective(s).plain
                       IN  \A f \in Nullable : plain[f] = DocPlain(s, f)

\* A replacement that no context cancels reaches gosp2go as the innermost
\* context gives it, beside those of the other contexts, and nothing else
\* does (mod_gosp.c:218-233, launch.c:155-163).
ReplacementsAccumulate == phase = "ready" =>
    \A s \in Servers :
      LET table == Replaced(s)
          given == IF table = None THEN {} ELSE DOMAIN table
      IN  \A m \in Modules :
            (\A c \in Around(s) : said[c].repl[m] # "cancelled") =>
              IF DocReplaced(s, m) = None
              THEN m \notin given
              ELSE m \in given /\ table[m] = DocReplaced(s, m)

\* gosp2go allows a page what docs/configure.md says, if no context has a
\* directive of ours but none about imports, and none has a list in which NONE
\* comes after something else or is added to a parent's (mod_gosp.c:236-243):
\* merging appends texts, and to ImportSet.Set a NONE undoes all that is before
\* it (params.go:63), what the parent allows included.
NoneComesFirst(text) ==
    \A i \in DOMAIN text : text[i].name = "NONE" => i = 1 /\ ~text[i].plus
SaidPlainly(s) ==
    \A c \in Around(s) : conf[c] # None => /\ said[c].imports # None
                                          /\ NoneComesFirst(said[c].imports)
Same(allowed, documented) ==
    IF "ALL" \in documented THEN "ALL" \in allowed ELSE allowed = documented
ImportsWithoutGap == phase = "ready" =>
    \A s \in Servers : SaidPlainly(s) => Same(Allowed(s), DocAllowed(s))

\* GOPATH lists the directories from the innermost context to the outermost,
\* as long as no section adds to a list that an inner one adds to or replaces,
\* and the server has one (mod_gosp.c:246-257).
SectionSays(s, i) == Sections[i] \in Around(s) /\ said[Sections[i]].go_path # None
OneAdds(s) ==
    /\ said["main"].go_path # None /\ ~said["main"].go_path[1].plus
    /\ \A i, j \in DOMAIN Sections :
         i < j /\ SectionSays(s, i) /\ SectionSays(s, j) =>
           ~said[Sections[i]].go_path[1].plus
GoPathNests == phase = "ready" =>
    \A s \in Servers : OneAdds(s) =>
      GoPath(s) = [i \in DOMAIN DocGoPath(s) |-> Entry(FALSE, DocGoPath(s)[i])]

\* A worker can rebuild a page where some context around it has replaced a
\* module and its server has no record of its own: whatever the contexts
\* between say, no merge loses the table and the mutex is there
\* (mod_gosp.c:218-233, launch.c:140, mod_gosp.c:329).
RebuildSurvivesWhereSet == phase = "ready" =>
    \A s \in Servers :
      /\ sconf[s] = None \/ s = "main"
      /\ \E c \in Around(s), m \in Modules : said[c].repl[m] # None
      => ~NullFollowed(s)

\* "If the argument to GospAllowedImports begins with a +, the set of allowed
\* packages is appended to its parent's set" (docs/configure.md:59), whose
\* default is NONE (docs/configure.md:44).
ImportsAsDocumented == phase = "ready" =>
    \A s \in Servers : Same(Allowed(s), DocAllowed(s))

=============================================================================
