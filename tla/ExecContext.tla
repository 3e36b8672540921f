------------------------------ MODULE ExecContext ------------------------------
(***************************************************************************)
(* What the model is told about how a release's files run (execctx.py:     *)
(* build).  Its fields are read from files that may be absent, too large,  *)
(* unparseable, or computed by arbitrary code; each lists only a few       *)
(* items, several share a line, and a line is cut at _MAX_LINE.            *)
(*                                                                         *)
(* The metadata of a release is a record: state, of each file in Files;    *)
(* calls and routes, how setup.py comes to setup(), and splat, whether     *)
(* with **; backend and path; py, toml and cfg, what each declares;        *)
(* found, what is lying there; eps, the entry points the three files       *)
(* declare, in the order they are read; eggs, those of the egg-infos, and  *)
(* tops, their top-level names; flit, flit's own file; directive and       *)
(* dynamic, entry points kept elsewhere. What is declared is a list of     *)
(* items, each a name or "computed".                                       *)
(***************************************************************************)
EXTENDS Integers, Sequences, FiniteSets, SequencesExt, Functions

CONSTANTS
    MaxItems,           \* _MAX_ITEMS
    MaxEggEps,          \* _MAX_EGG_EPS
    MaxLine,            \* _MAX_LINE, what a line holds beside its labels
    Widths              \* of the items that are wider than 1

\* An item is clipped (_clip), and so one of them always fits into a line.
ASSUME ItemsAssumption == MaxItems \in Nat \ {0} /\ MaxEggEps \in Nat
ASSUME LineAssumption ==
    MaxLine \in Nat \ {0} /\ \A item \in DOMAIN Widths : Widths[item] \in 1..MaxLine

Files == {"setup.py", "pyproject.toml", "setup.cfg"}
Undeclared == <<"absent">>
Computed == <<"computed">>
Directive == <<"directive">>            \* file: or attr:, kept elsewhere
Find == <<"find">>                      \* packages.find, find:
Reasons == {"too large", "unparseable", "malformed"}
UnknownItems == Reasons \cup {"directive", "not read", "flit file", "dynamic"}

\* The first n places of some.
FirstPlaces(places, n) == {i \in places : Cardinality({j \in places : j < i}) < n}

\* _join: the first few distinct items, the number of the others, or why none.
Join(items, empty, extra) ==
    LET distinct == {i \in DOMAIN items : \A j \in 1..i - 1 : items[j] # items[i]}
        first == FirstPlaces(distinct, MaxItems)
    IN  [listed |-> [i \in first |-> items[i]],
         more |-> Cardinality(distinct \ first) + extra,
         says |-> IF items = <<>> THEN empty ELSE "items"]
ListedItems(field) == {field.listed[i] : i \in DOMAIN field.listed}
One(text) == [listed |-> <<text>>, more |-> 0, says |-> "items"]

Width(item) == IF item \in DOMAIN Widths THEN Widths[item] ELSE 1

\* How far a field's n-th item reaches, and all of it: its items, and the number of
\* the others or why there are none.
WidthTo(field, n) ==
    SumFunction([i \in {k \in DOMAIN field.listed : k <= n} |-> Width(field.listed[i])])
FieldWidth(field) ==
    SumFunction([i \in DOMAIN field.listed |-> Width(field.listed[i])])
        + (IF field.more > 0 \/ field.says # "items" THEN 1 ELSE 0)

\* Mutation: the cut of a line leaves no mark.
InSightUnmarked(field, before) ==
    LET fits == {n \in DOMAIN field.listed : before + WidthTo(field, n) <= MaxLine}
        whole == before + FieldWidth(field) <= MaxLine
    IN  [shown |-> {field.listed[n] : n \in fits}, cut |-> FALSE,
         more |-> IF whole THEN field.more ELSE 0, says |-> IF whole THEN field.says ELSE "cut"]

\* What the model sees of a field that comes after `before` in its line: the items that
\* fit whole, and of the rest only that the line is cut (an ellipsis at its end).
InSight(field, before) ==
    LET fits == {n \in DOMAIN field.listed : before + WidthTo(field, n) <= MaxLine}
        whole == before + FieldWidth(field) <= MaxLine
    IN  [shown |-> {field.listed[n] : n \in fits}, cut |-> ~whole,
         more |-> IF whole THEN field.more ELSE 0, says |-> IF whole THEN field.says ELSE "cut"]
Line(fields) ==
    [k \in DOMAIN fields |->
        InSight(fields[k], SumFunction([j \in 1..k - 1 |-> FieldWidth(fields[j])]))]

Says(yes, what) == IF yes THEN <<what>> ELSE <<>>

IsRead(r, f) == r.state[f] \in {"read", "malformed"}
Present(r) == r.state["setup.py"] \in {"read", "unparseable"}
WhyUnread(r, files) == {r.state[f] : f \in files} \cap Reasons
UnreadList(reasons) ==
    Says("too large" \in reasons, "too large") \o Says("unparseable" \in reasons, "unparseable")
        \o Says("malformed" \in reasons, "malformed")

\* _indirect_setup: the ways round a literal setup() call it looks for.
Indirect == {"called result", "getattr", "dynamic import", "rebound", "value", "star import"}

\* _setup_kwargs and kw: one direct call is believed, nothing else is.
Kw(r, name) ==
    IF r.state["setup.py"] # "read" THEN Undeclared
    ELSE IF r.calls # 1 \/ r.routes \cap Indirect # {} THEN Computed
    ELSE IF r.py[name] = Undeclared /\ r.splat THEN Computed ELSE r.py[name]
Toml(r, name) == IF IsRead(r, "pyproject.toml") THEN r.toml[name] ELSE Undeclared
Cfg(r, name) == IF IsRead(r, "setup.cfg") THEN r.cfg[name] ELSE Undeclared
Items(v) == IF v = Undeclared THEN <<>> ELSE v

\* The backend, "unknown" when what would name it is not read.
Backend(r) ==
    IF WhyUnread(r, {"pyproject.toml"}) # {} \/ r.backend = "odd" THEN "unknown" ELSE r.backend
Path(r) == IF IsRead(r, "pyproject.toml") THEN r.path ELSE <<>>
Setuptools(r) == Backend(r) = "setuptools" /\ Path(r) = <<>>
OwnTables(r) == Path(r) # <<>> \/ Backend(r) \notin {"setuptools", "poetry", "flit"}

\* What an empty field says: "none" only where no code could have declared it.
NoneSaid(r) == IF Present(r) THEN "none literally" ELSE "none"
OwnNone(r) == IF OwnTables(r) THEN "none of ours" ELSE NoneSaid(r)
ImportNone(r) ==
    IF ~Setuptools(r) THEN "none of ours"
    ELSE IF Present(r) THEN "none literally" ELSE "none found"

\* Does setup.py run at build?
SetupPy(r) ==
    IF r.state["setup.py"] = "too large" THEN "unknown"
    ELSE IF r.state["setup.py"] = "absent" THEN "absent"
    ELSE IF Backend(r) = "unknown" THEN "may run"
    ELSE IF Backend(r) = "setuptools" THEN "runs" ELSE "not run"

BackendPath(r) == Join(Path(r) \o UnreadList(WhyUnread(r, {"pyproject.toml"})), "none", 0)
Cmdclass(r) ==
    Join(Items(Kw(r, "cmdclass")) \o Items(Toml(r, "cmdclass")) \o Items(Cfg(r, "cmdclass"))
            \o UnreadList(WhyUnread(r, Files)), NoneSaid(r), 0)
SetupRequires(r) ==
    Join(Items(Kw(r, "setup_requires")) \o Items(Cfg(r, "setup_requires"))
            \o UnreadList(WhyUnread(r, {"setup.py", "setup.cfg"})), NoneSaid(r), 0)
Startup(r) == Join(r.found.pth, OwnNone(r), 0)

\* declared: the packages or modules told to setuptools, by the first that tells.
Declared(r, name) ==
    IF ~Setuptools(r) THEN Undeclared
    ELSE IF Kw(r, name) # Undeclared THEN Kw(r, name)
    ELSE IF Toml(r, name) = Find THEN Undeclared
    ELSE IF Toml(r, name) # Undeclared THEN Toml(r, name)
    ELSE IF Cfg(r, name) = Find THEN Undeclared ELSE Cfg(r, name)
FindsPackages(r) == Find \in {Toml(r, "packages"), Cfg(r, "packages")}

\* One list after another: its places come after those of the first.
PutAfter(list, listed) ==
    [i \in DOMAIN list \cup {Len(list) + j : j \in DOMAIN listed} |->
        IF i \in DOMAIN list THEN list[i] ELSE listed[i - Len(list)]]
Discovered(r, names) ==
    [Join(names, ImportNone(r), 0) EXCEPT !.listed = PutAfter(UnreadList(WhyUnread(r, Files)), @)]
Packages(r) ==
    LET d == Declared(r, "packages")
    IN  IF d = Undeclared THEN Discovered(r, r.found.packages) ELSE Join(d, NoneSaid(r), 0)
Modules(r) ==
    LET d == Declared(r, "modules")
    IN  IF d # Undeclared THEN Join(d, NoneSaid(r), 0)
        ELSE IF Setuptools(r) /\ Declared(r, "packages") = Undeclared /\ ~FindsPackages(r)
        THEN Discovered(r, r.found.modules)
        ELSE Join(UnreadList(WhyUnread(r, Files)), ImportNone(r), 0)

\* pkgs_known: may the block say that tests/ is not imported?
PackagesKnown(r) ==
    LET d == Declared(r, "packages")
    IN  /\ Setuptools(r) /\ WhyUnread(r, Files) = {}
        /\ IF d = Undeclared THEN ~FindsPackages(r)
           ELSE {"computed", "directive"} \cap ListedItems(Packages(r)) = {}

-----------------------------------------------------------------------------
(* Entry points.  One table is Undeclared, Computed, or two lists: commands    *)
(* and plugins.                                                            *)

NoTable == [kind |-> "absent", commands |-> <<>>, plugins |-> <<>>]
NothingYet == [commands |-> [kept |-> <<>>, more |-> 0],
               plugins |-> [kept |-> <<>>, more |-> 0], computed |-> FALSE]

\* Mutation: "computed" counts like any other item.
CollectOneCounting(slot, e) ==
    IF e \in ToSet(slot.kept) THEN slot
    ELSE IF Len(slot.kept) <= MaxItems THEN [slot EXCEPT !.kept = Append(@, e)]
    ELSE [slot EXCEPT !.more = @ + 1]

\* _collect: the first items are kept, the others counted, "computed" always kept.
CollectOne(slot, e) ==
    IF e \in ToSet(slot.kept) THEN slot
    ELSE IF Len(slot.kept) <= MaxItems \/ e = "computed"
    THEN [slot EXCEPT !.kept = Append(@, e)] ELSE [slot EXCEPT !.more = @ + 1]

\* _ep_lines: only comments and blank lines are skipped.
Collect(slot, lines) ==
    LET after[i \in 0..Len(lines)] ==
            IF i = 0 THEN slot
            ELSE IF lines[i] = "comment" THEN after[i - 1] ELSE CollectOne(after[i - 1], lines[i])
    IN  after[Len(lines)]

\* _add_groups
AddGroups(eps, table) ==
    IF table.kind = "absent" THEN eps
    ELSE IF table.kind = "computed" THEN [eps EXCEPT !.computed = TRUE]
    ELSE [eps EXCEPT !.commands = Collect(@, table.commands), !.plugins = Collect(@, table.plugins)]

KwTable(r) ==
    IF Kw(r, "entry_points") = Computed THEN [NoTable EXCEPT !.kind = "computed"]
    ELSE IF Kw(r, "entry_points") = Undeclared THEN NoTable ELSE r.eps["setup.py"]
FileTable(r, f) == IF IsRead(r, f) THEN r.eps[f] ELSE NoTable

\* The egg-info files, by their place: those that could be read, and that are.
EggsFound(r) == {i \in DOMAIN r.eggs : r.eggs[i].state # "too large"}
EggsRead(r) == FirstPlaces(EggsFound(r), MaxEggEps)
EggTable(r, i) ==
    IF i \in EggsRead(r) /\ r.eggs[i].state = "read" THEN r.eggs[i].table ELSE NoTable

\* flit's own file
FlitState(r) == IF Backend(r) = "flit" THEN r.flit.state ELSE "absent"
FlitTable(r) == IF FlitState(r) = "read" THEN r.flit.table ELSE NoTable

FileTables(r) == <<FileTable(r, "pyproject.toml"), KwTable(r), FileTable(r, "setup.cfg")>>
EntryPoints(r) ==
    LET files == FileTables(r)
        eps[k \in 0..Len(r.eggs)] ==
            IF k = 0 THEN AddGroups(AddGroups(AddGroups(NothingYet, files[1]), files[2]), files[3])
            ELSE AddGroups(eps[k - 1], EggTable(r, k))
    IN  AddGroups(eps[Len(r.eggs)], FlitTable(r))

\* ep_unknown: what could not be read, and why.
EggReasons(r) == {r.eggs[i].state : i \in EggsRead(r) \cup (DOMAIN r.eggs \ EggsFound(r))}
EpUnknown(r) ==
    UnreadList(WhyUnread(r, Files) \cup {FlitState(r)} \cup EggReasons(r))
        \o Says(IsRead(r, "setup.cfg") /\ r.directive, "directive")
        \o Says(Cardinality(EggsFound(r)) > MaxEggEps, "not read")
        \o Says(FlitState(r) \in {"computed", "not one", "missing"}, "flit file")
        \o Says(IsRead(r, "pyproject.toml") /\ r.dynamic, "dynamic")

\* Mutation: what is known first.
KnownFirstLine(r, group) ==
    LET eps == EntryPoints(r)
        computed == Says(eps.computed, "computed")
    IN  Join(eps[group].kept \o computed \o EpUnknown(r), OwnNone(r), eps[group].more)

\* _entry_points_lines: unknown and computed come first, where the cap keeps them.
EntryLine(r, group) ==
    LET eps == EntryPoints(r)
        kept == eps[group].kept
        computed == Says(eps.computed \/ "computed" \in ToSet(kept), "computed")
    IN  Join(EpUnknown(r) \o computed \o kept, OwnNone(r), eps[group].more)

\* top_level.txt: names from the first egg-infos; what was not read comes first.
TopsFound(r) == {i \in DOMAIN r.tops : r.tops[i].state = "read"}
TopsRead(r) == FirstPlaces(TopsFound(r), MaxEggEps)
TopsUnread(r) ==
    Says(TopsFound(r) # DOMAIN r.tops, "too large")
        \o Says(Cardinality(TopsFound(r)) > MaxEggEps, "not read")
TopNames(r) ==
    LET names[k \in 0..Len(r.tops)] ==
            IF k = 0 THEN NothingYet.commands
            ELSE IF k \in TopsRead(r) THEN Collect(names[k - 1], r.tops[k].names)
            ELSE names[k - 1]
    IN  names[Len(r.tops)]
TopLevel(r) == Join(TopsUnread(r) \o TopNames(r).kept, "not found", TopNames(r).more)

\* The fields as they follow one another in their lines.
BuildLine(r) ==
    Line(<<One(Backend(r)), BackendPath(r), One(SetupPy(r)), Cmdclass(r), SetupRequires(r)>>)
ImportLine(r) == Line(<<Packages(r), Modules(r), TopLevel(r)>>)
Context(r) ==
    [setup_py |-> BuildLine(r)[3], cmdclass |-> BuildLine(r)[4],
     setup_requires |-> BuildLine(r)[5], startup |-> InSight(Startup(r), 0),
     packages |-> ImportLine(r)[1], modules |-> ImportLine(r)[2],
     top_level |-> ImportLine(r)[3], commands |-> InSight(EntryLine(r, "commands"), 0),
     plugins |-> InSight(EntryLine(r, "plugins"), 0), known |-> PackagesKnown(r)]

-----------------------------------------------------------------------------
(* What the block promises, for a release r and its context c.             *)

\* Metadata as it is read: each list is a list of strings, in each table a line is an
\* entry, "computed" or "comment", and a name is neither blank nor a comment.
Fields == {"cmdclass", "setup_requires", "packages", "modules", "entry_points"}
TableRead == [kind : {"absent", "computed", "table"}, commands : Seq(STRING), plugins : Seq(STRING)]
MetadataRead(r) ==
    /\ r.state \in [Files -> {"absent", "read"} \cup Reasons]
    /\ {r.py, r.toml, r.cfg} \subseteq [Fields -> Seq(STRING)]
    /\ {r.path, r.found.packages, r.found.modules, r.found.pth} \subseteq Seq(STRING)
    /\ r.eps \in [Files -> TableRead]
    /\ r.eggs \in Seq([state : {"read"} \cup Reasons, table : TableRead])
    /\ r.tops \in Seq([state : {"read", "too large"}, names : Seq(STRING \ {"comment"})])
    /\ r.flit.table \in TableRead
    /\ r.flit.state \in {"absent", "read", "computed", "not one", "missing"} \cup Reasons
    /\ {r.splat, r.directive, r.dynamic} \subseteq BOOLEAN

\* Entry points of r may be declared where they were not read.
EpsUnread(r) ==
    \/ WhyUnread(r, Files) # {} \/ Len(r.eggs) > MaxEggEps
    \/ \E e \in ToSet(r.eggs) : e.state # "read"
    \/ Backend(r) = "flit" /\ r.flit.state \notin {"absent", "read"}
    \/ r.directive /\ IsRead(r, "setup.cfg")
    \/ r.dynamic /\ IsRead(r, "pyproject.toml")

\* Entry points that could be read: those of every table, once.
Tables(r) ==
    {FileTable(r, "pyproject.toml"), KwTable(r), FileTable(r, "setup.cfg"), FlitTable(r)}
        \cup {EggTable(r, i) : i \in DOMAIN r.eggs}
Readable(r, group) ==
    (UNION {ToSet(t[group]) : t \in {t \in Tables(r) : t.kind = "table"}}) \ {"comment"}

\* A bare "none" means that no file exists that could say otherwise.
NoneIsNone(r, c) ==
    /\ "absent" \in c.setup_py.shown => r.state["setup.py"] = "absent"
    /\ "not run" \in c.setup_py.shown =>
           r.state["setup.py"] # "too large" /\ WhyUnread(r, {"pyproject.toml"}) = {}
    /\ c.cmdclass.says = "none" => r.state["setup.py"] = "absent" /\ WhyUnread(r, Files) = {}
    /\ c.setup_requires.says = "none" =>
           r.state["setup.py"] = "absent" /\ WhyUnread(r, {"setup.cfg"}) = {}
    /\ \A g \in {"commands", "plugins"} :
           c[g].says = "none" =>
               r.state["setup.py"] = "absent" /\ ~EpsUnread(r) /\ Readable(r, g) = {}

\* Entry points that were not read, or are computed, are in sight whatever the caps
\* hide; every other one that was read is shown or counted, or the line ends cut.
EntryPointsHonest(r, c) ==
    \A g \in {"commands", "plugins"} :
        LET shown == c[g].shown
            computed == \/ \E t \in Tables(r) : t.kind = "computed"
                        \/ "computed" \in Readable(r, g)
        IN  /\ EpsUnread(r) => shown \cap UnknownItems # {}
            /\ computed => shown \cap (UnknownItems \cup {"computed"}) # {}
            /\ \/ Cardinality(Readable(r, g) \ (shown \cup {"computed"})) <= c[g].more
               \/ c[g].cut

\* The top-level names, the last in their line, likewise; but the cut may hide that
\* some were not read.
NamesRead(r) == UNION {ToSet(r.tops[i].names) : i \in TopsRead(r)}
TopLevelHonest(r, c) ==
    LET shown == c.top_level.shown
    IN  /\ (\E t \in ToSet(r.tops) : t.state # "read") \/ Len(r.tops) > MaxEggEps =>
               shown \cap UnknownItems # {} \/ c.top_level.cut
        /\ Cardinality(NamesRead(r) \ shown) <= c.top_level.more \/ c.top_level.cut

\* The block says that tests are not imported only if it knows all packages; what the
\* caps hide of a list it takes for names.
KnowsPackages(r, c) ==
    c.known => /\ WhyUnread(r, Files) = {}
               /\ c.packages.more = 0 /\ ~c.packages.cut =>
                      "computed" \notin ToSet(Declared(r, "packages"))

=============================================================================
