----------------------------- MODULE MCDecisions -----------------------------
(* The bounded cases of Decisions.                                         *)
EXTENDS Decisions

\* Files of a release: a build file, two that import and run code, an inert one,
\* one that fits whole only, one removed; two have long paths.
AFile(path, change, weight, cls, build, names, hunks, whole) ==
    [path |-> path, change |-> change, weight |-> weight, cls |-> cls, build |-> build,
     names |-> names, hunks |-> hunks, whole |-> whole,
     line |-> IF path \in {4, 5} THEN 300 ELSE 20 + path]
InputFiles == {
    AFile(1, "modified", 0, "build", 1, FALSE, 700, 3900),
    AFile(2, "modified", 30, "import", 0, TRUE, 1500, 5000),
    AFile(3, "added", 10, "runtime-call", 0, FALSE, 9000, 0),
    AFile(4, "modified", 10, "inert", 0, TRUE, 300, 0),
    AFile(5, "modified", 0, "runtime-call", 0, FALSE, 500, 0),
    AFile(6, "removed", 0, "runtime-call", 0, FALSE, 200, 0)}
SmallHook == AFile(8, "unchanged", 0, "import", 0, FALSE, 60, 1800)
BigHook == AFile(9, "unchanged", 0, "not-shipped", 0, FALSE, 60, 7000)

\* A first release adds every file, and only a changed build file names others.
Around(files, first, hooks) ==
    [files : {files}, first : {first}, hooks : hooks, header : {300}, notes : {0, 400},
     exec : {0, 6000}, signals : {0, 2500}, unreadable : {0}]
Updates == UNION {Around(files, FALSE,
                         IF \E f \in files : f.build > 0
                         THEN {<<>>, <<SmallHook, BigHook>>, <<BigHook, SmallHook>>}
                         ELSE {<<>>}) :
                  files \in SUBSET InputFiles \ {{}}}
FirstReleases == UNION {Around({[f EXCEPT !.change = "added", !.whole = 0] : f \in files},
                               TRUE, {<<>>}) :
                        files \in SUBSET InputFiles \ {{}}}
InputSet == [diff : Updates \cup FirstReleases, cap : {2000, 5000, 12000}]

\* Lines of code: a payload, a name passed on, an open call and its end, an
\* execution of its own, a comment, a blank line, a payload inside a string.
ALine == [text |-> "# x", blank |-> TRUE, live |-> FALSE, import |-> FALSE, names |-> {},
          bound |-> {}, reads |-> {}, net |-> 0, low |-> 0, shows |-> {},
          string |-> FALSE, hidden |-> FALSE]
Code == [ALine EXCEPT !.blank = FALSE, !.live = TRUE]
Decoded == [Code EXCEPT !.text = "x = b64decode(k)", !.names = {"x", "k"},
                        !.bound = {"x"}, !.reads = {"k"}, !.shows = {"payload"}]
ChainLines == {
    Decoded, [Decoded EXCEPT !.string = TRUE, !.hidden = TRUE],
    [Code EXCEPT !.text = "y = f(x)", !.names = {"y", "f", "x"}, !.bound = {"y"},
                 !.reads = {"f", "x"}],
    [Code EXCEPT !.text = "run(", !.names = {"run"}, !.net = 1, !.reads = {"run"}],
    [Code EXCEPT !.text = "getattr(m, y))", !.names = {"m", "y"}, !.net = -1,
                 !.low = -1, !.reads = {"m", "y"}, !.shows = {"exec"}],
    [Code EXCEPT !.text = "z = exec(blob)", !.shows = {"exec", "payload"}],
    ALine}
Layouts == {<<"module", "module", "module", "module">>, <<"f", "f", "module", "module">>,
            <<"none", "none", "none", "none">>}
Whole(texts) == {[texts |-> {t}, cut |-> FALSE] : t \in texts}
Scoped(lines, layout) == [n \in 1..4 |-> lines[n] @@ [scope |-> layout[n]]]
NotCode == [cls |-> "data", lines |-> <<Decoded @@ [scope |-> "module"]>>]

ChainVerdicts ==
    {[source |-> source, sink |-> end[1], sourceKind |-> "payload", sinkKind |-> end[2]] :
        source \in {Whole({"x = b64decode(k)"}), Whole({"x = b64decode(k)", "y = f(x)"}),
                    Whole({"z = exec(blob)"})},
        end \in {<<Whole({"getattr(m, y))"}), "exec">>, <<Whole({"z = exec(blob)"}), "payload">>,
                 <<Whole({"run(", "getattr(m, y))"}), "exec">>,
                 <<{[texts |-> {"getattr(m, y))", "z = exec(blob)"}, cut |-> TRUE]}, "exec">>}}
ChainSet ==
    [verdict : ChainVerdicts,
     shown : {<<NotCode, [cls |-> "import", lines |-> Scoped(lines, layout)]>> :
                 lines \in [1..4 -> ChainLines], layout \in Layouts}]

\* Names 1 to 4, of which 4 is popular and 1 and 3 look like it.
Answers == {NotFound, NoData} \cup
    [answer : {"json"}, owners : {{}, {"a"}}, popularOrg : BOOLEAN, emails : BOOLEAN,
     age : {NoDate, 1, 500}, releases : {1, 9}]
DepSet == {
    [deps |-> [declared |-> declared, prior |-> prior, corpus |-> {4},
               near |-> <<4, 0, 4, 0>>, own |-> {"a"},
               index |-> <<first, second, first, NoData>>],
     really |-> [declared |-> {1, 2, 3, 4}, prior |-> IF prior = Unknown THEN {2} ELSE prior]] :
        declared \in {{1, 2, 3, 4}, Unknown}, prior \in {{}, {1}, {2, 3}, Unknown},
        first \in Answers, second \in Answers}

\* Version 2 is scanned at time 2 and again later.
Releases == {r \in [first : 1..2, sdist : 0..2, yanked : BOOLEAN] :
                r.sdist = 0 \/ r.sdist >= r.first}
NewReleases == {[first |-> 3, sdist |-> s, yanked |-> FALSE] : s \in {0, 3}}
Histories == UNION {[vs -> Releases] : vs \in {v \in SUBSET (1..3) : 2 \in v}}

\* What is there when version 2 is scanned again: newer releases, and an sdist
\* that was uploaded late; nothing that was there has changed.
LaterSdist(h, v, late) ==
    IF v \in late /\ h[v].sdist = 0 THEN [h[v] EXCEPT !.sdist = 3] ELSE h[v]
After(h) ==
    {[v \in vs |-> IF v \in DOMAIN h THEN LaterSdist(h, v, late) ELSE new[v]] :
        vs \in {u \in SUBSET (1..3) : DOMAIN h \subseteq u},
        late \in SUBSET {1, 3}, new \in [{1, 3} -> NewReleases]}
BaselineSet == UNION {[history : {h}, after : After(h), version : {2}] : h \in Histories}

\* Archives of up to four members: source, two foreign files, and one other.  Of the
\* source, one is the same text in other bytes, and one is empty.
Member(path, sort, size, content) ==
    [path |-> path, sort |-> sort, size |-> size, content |-> content,
     lines |-> CASE size = 0 -> NoLines [] content = 5 -> 1 [] OTHER -> content,
     surface |-> path = 2]
Archives == {SelectSeq(<<a, b, c, d>>, LAMBDA m : m.path # None) :
    a \in {Member(None, "skipped", 0, 0), Member(1, "foreign", 1, 1), Member(1, "foreign", 1, 2)},
    b \in {Member(None, "skipped", 0, 0), Member(2, "source", 1, 1), Member(2, "source", 1, 2),
           Member(2, "source", 4, 3), Member(2, "source", 2, 5)},
    c \in {Member(None, "skipped", 0, 0), Member(3, "foreign", 1, 1), Member(3, "foreign", 1, 2)},
    d \in {Member(None, "skipped", 0, 0), Member(4, "other", 1, 1), Member(4, "other", 4, 2),
           Member(4, "binary", 1, 3), Member(4, "source", 1, 4), Member(4, "source", 0, 6),
           Member(4, "skipped", 9, 7)}}
ASdist(kind, members, broken, policy) ==
    [kind |-> kind, members |-> members, broken |-> broken, policy |-> policy]
Read == {ASdist("sdist", a, FALSE, "surface") : a \in Archives}
Unread == {ASdist("sdist", <<>>, TRUE, "surface"), ASdist("gone", <<>>, FALSE, "surface")}
FirstOf == {ASdist("first", <<>>, FALSE, p) : p \in {"skip", "surface", "full"}}
DiffSet ==
    [sdist : Read, prior : Read \cup Unread \cup FirstOf]
    \cup [sdist : {ASdist("sdist", a, TRUE, "surface") : a \in Archives}, prior : Unread]

Facts == {[scope |-> "code", name |-> 1, location |-> 3],
          [scope |-> "code", name |-> 2, location |-> 1],
          [scope |-> "dep", name |-> 3, location |-> 1]}
RawRules ==
    [id : {1}, scope : {"code"}, weight : {NotANumber, -1, 0, 2},
     maxTotal : {NoMax, 0, 3}, scaled : BOOLEAN, matches : {Facts, Malformed}]
SecondRules ==
    [id : {1, 2}, scope : {"code", "dep"}, weight : {-1, 2}, maxTotal : {NoMax, 3},
     scaled : {TRUE}, matches : {Facts}]
TriageSet ==
    [files : {<<r, s>> : r \in RawRules, s \in SecondRules}
                \cup {<<s, r>> : r \in RawRules, s \in SecondRules},
     facts : SUBSET Facts]

\* Rules of every scope, one with a negative match on the owners, and true or false
\* replies: other sums, a rule left out, a negative weight, an unknown rule.
OwnersChanged == [scope |-> "maintainer", name |-> 1, location |-> 1]
MergeRules ==
    [1..3 -> [scope : {"code"}, maxTotal : {NoMax, 3}, matches : {Facts}]
             \cup [scope : {"dep"}, maxTotal : {NoMax}, matches : {Facts}]
             \cup [scope : {"maintainer"}, maxTotal : {NoMax, 3},
                   matches : {{OwnersChanged}, {SameOwners}}]]
ARule(id, r) == r @@ [id |-> id, weight |-> 2, scaled |-> TRUE]
MergeSet ==
    UNION {LET rules == {ARule(id, r[id]) : id \in 1..3}
               facts == fs \cup {owners}
           IN  [rules : {rules}, facts : {facts},
                claims : {Genuine(rules, facts), <<0, 4, -1>>, <<2, 0, 2>>, <<4, 4>>, <<>>,
                          <<0, 0, 0, 2>>, <<9, 9, 9>>}] :
               r \in MergeRules, fs \in SUBSET Facts, owners \in {SameOwners, OwnersChanged}}

\* Endpoints: windows from none known to large ones, dense and thin text.
EndpointSet ==
    [measured : BOOLEAN, speed : {0, 1, 30, 900}, cpt : {20, 34, 35, 60},
     window : {0, 1000, 2784, 4096, 5568, 8192, 32768, 131072},
     maxOut : {100, 256, 1000, 32000}]

\* Replies: cut short, out of the schema, unsure, sure.
Replies == {NoReply} \cup
    [class : {Absent, Odd, "malicious", "suspicious", "benign"},
     confidence : {NoNumber, 0, 59, 60, 79, 80, 250}, runs : {Absent, Odd, "user-command", "import"},
     action : {Odd, "dismiss"}, cites : BOOLEAN]
Seconds == {r \in Replies : r.confidence \in {NoNumber, 80} /\ r.runs # Odd /\ r.action # Odd}
ReviewSet ==
    [content : BOOLEAN, primary : Replies, second : {NoReply}, escalates : {FALSE},
     unseen : BOOLEAN, gate : {"stands", "falls", "raises"}]
    \cup [content : {TRUE}, primary : {r \in Replies : r.action # Odd /\ r.cites},
          second : Seconds, escalates : {TRUE}, unseen : BOOLEAN, gate : {"stands", "falls"}]

\* Metadata: the three files in every state, a few ways to declare, lists around the
\* cap of two items.
Nothing == [cmdclass |-> Undeclared, setup_requires |-> Undeclared, packages |-> Undeclared,
            modules |-> Undeclared, entry_points |-> Undeclared]
Declares(items) == [Nothing EXCEPT !.cmdclass = items, !.setup_requires = items,
                                   !.packages = items, !.entry_points = items]
Table(commands, plugins) == [kind |-> "table", commands |-> commands, plugins |-> plugins]
NothingFound == [packages |-> <<>>, modules |-> <<>>, pth |-> <<>>]
APlain == [state |-> [f \in Files |-> "absent"], calls |-> 1, routes |-> {}, splat |-> FALSE,
           backend |-> "setuptools", path |-> <<>>, py |-> Nothing, toml |-> Nothing,
           cfg |-> Nothing, found |-> NothingFound, eps |-> [f \in Files |-> NoTable],
           eggs |-> <<>>, tops |-> <<>>, flit |-> [state |-> "absent", table |-> NoTable],
           directive |-> FALSE, dynamic |-> FALSE]
FileStates == {s \in [Files -> {"absent", "read"} \cup Reasons] :
                   s["setup.py"] # "malformed" /\ s["setup.cfg"] # "malformed"}
SomeLists == {Undeclared, <<>>, <<"a">>, <<"a", "b", "c">>, <<"a", "b", "computed">>, Computed}
ByFile(py, toml, cfg) ==
    [f \in Files |-> CASE f = "setup.py" -> py [] f = "pyproject.toml" -> toml [] OTHER -> cfg]

\* Which file says what.
Told == {[[APlain EXCEPT !.state = s, !.backend = b[1], !.path = b[2], !.py = Declares(v),
                         !.eps = ByFile(Table(<<"a">>, <<>>), NoTable, NoTable)]
             EXCEPT !.toml = Declares(w), !.cfg = [Declares(x) EXCEPT !.cmdclass = Undeclared]] :
            s \in FileStates,
            b \in {<<"setuptools", <<>>>>, <<"setuptools", <<"p">>>>, <<"other", <<>>>>, <<"odd", <<>>>>},
            v \in {Undeclared, <<"a">>}, w \in {Undeclared, <<>>, Find},
            x \in {Undeclared, Directive, <<"b">>}}
\* How setup.py says it.
Called == {[APlain EXCEPT !.state = s, !.calls = n, !.routes = routes, !.splat = splat,
                          !.py = Declares(v), !.toml = Declares(w),
                          !.eps = ByFile(Table(v, v), NoTable, NoTable)] :
              s \in {ByFile("read", t, u) : t \in {"absent", "read"}, u \in {"absent", "unparseable"}},
              n \in {0, 1, 2},
              routes \in {{}, {"exec"}, {"rebound"}}, splat \in BOOLEAN,
              v \in SomeLists \ {Undeclared, Computed}, w \in {Undeclared, <<"b">>}}
\* Entry points from several files.
EpLists == {<<"a", "comment">>, <<"a", "b", "c">>, <<"b", "c", "d", "computed">>}
AnEgg(state, v) == [state |-> state, table |-> Table(v, <<"p">>)]
TopsBeside(eggs) ==
    [i \in DOMAIN eggs |-> [state |-> IF eggs[i].state = "too large" THEN "too large" ELSE "read",
                            names |-> <<"a", "b", "c", "d">>]]
Pointed == {[APlain EXCEPT !.state = s, !.backend = b, !.py = Declares(<<"x">>),
                           !.eps = ByFile(Table(u, <<>>), Table(v, <<"p", "q">>), NoTable),
                           !.eggs = eggs, !.tops = TopsBeside(eggs), !.flit = [state |-> fs, table |-> Table(<<"e">>, <<>>)],
                           !.directive = (fs = "missing"), !.dynamic = dyn] :
              s \in {ByFile("read", "read", "read"), ByFile("read", "unparseable", "absent"),
                     ByFile("too large", "read", "absent"), ByFile("absent", "read", "unparseable")},
              b \in {"setuptools", "flit"}, u \in EpLists, v \in EpLists, dyn \in BOOLEAN,
              eggs \in {<<>>, <<AnEgg("read", <<"d">>)>>, <<AnEgg("unparseable", <<>>)>>,
                        <<AnEgg("too large", <<>>), AnEgg("read", <<"d">>)>>,
                        <<AnEgg("read", <<"d">>), AnEgg("read", <<"e">>)>>},
              fs \in {"absent", "computed", "read", "too large", "missing"}}
\* Names so long that a line is cut in the middle of its fields.
WidthSet == [item \in {"wide", "flit file"} |-> 8]
Long == {[APlain EXCEPT !.state = s, !.path = path, !.backend = b, !.py = Declares(v),
                        !.eps = ByFile(Table(u, u), NoTable, NoTable), !.eggs = eggs,
                        !.tops = TopsBeside(eggs), !.flit = [state |-> "computed", table |-> NoTable]] :
            s \in {ByFile("read", t, "absent") : t \in {"read", "absent", "too large"}},
            path \in {<<>>, <<"wide">>, <<"a", "wide">>}, b \in {"setuptools", "flit"},
            v \in {<<"wide">>, <<"a", "wide">>, <<"wide", "b", "computed">>},
            u \in {<<"wide", "a">>, <<"a", "wide", "b">>, <<"wide", "computed">>},
            eggs \in {<<>>, <<AnEgg("read", <<"d">>)>>, <<AnEgg("too large", <<>>)>>,
                      <<AnEgg("read", <<"d">>), AnEgg("read", <<"e">>)>>}}
ContextSet == Told \cup Called \cup Pointed \cup Long

\* Up to four files in any order: an __init__.py under tests, one that metadata
\* names, one that its path names, a plain module, setup.py.
AFileAt(top, name, named, imports) ==
    [top |-> top, name |-> name, named |-> named, imports |-> imports]
FileSet == [1..4 ->
    {AFileAt("", "setup.py", {}, {2, 3}), AFileAt("docs", "notes.md", {}, {}),
     AFileAt("tests", "__init__.py", {}, {1}), AFileAt("tests", "__init__.py", {"import"}, {4}),
     AFileAt("pkg", "__init__.py", {}, {1, 2}), AFileAt("pkg", "__init__.py", {}, {3}),
     AFileAt("tests", "mod.py", {}, {}), AFileAt("tests", "mod.py", {"plugin-host", "build"}, {}),
     AFileAt("", "mod.py", {"plugin-host"}, {1})}]

=============================================================================
