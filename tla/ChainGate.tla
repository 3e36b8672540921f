------------------------------ MODULE ChainGate ------------------------------
(***************************************************************************)
(* When the chain that a malicious verdict quotes stands (chain.py, gate): *)
(* the model quotes source lines and sink lines, and the gate looks for    *)
(* both in the code it was shown.                                          *)
(*                                                                         *)
(* A line of text is abstracted to what the gate asks of it, a record:     *)
(* text, blank (or comment-only), live, import, names, bound, reads, net   *)
(* and low (its bracket balance and that balance's lowest point), shows    *)
(* (the evidence its code shows), string (inside a string constant),       *)
(* hidden (inside one, and no code of an f-string field), and scope (the   *)
(* function it is in, "module", or "none" when the file has no scopes).    *)
(* A file is [cls, lines], lines a function over the line numbers shown;   *)
(* a quoted line is [texts, cut]: its text, or, cut short, the texts it    *)
(* begins; a verdict is [source, sink, sourceKind, sinkKind].              *)
(***************************************************************************)
EXTENDS Integers, Sequences, FiniteSets, SequencesExt

CONSTANTS
    Bridge,         \* _BRIDGE: blank lines a group may bridge
    ModuleSpan      \* _MODULE_SPAN: how far apart near module lines are

PAIRS == {<<"secret-read", "send">>, <<"payload", "exec">>, <<"fetch", "exec">>,
          <<"fetch", "write-and-run">>, <<"payload", "write-and-run">>}

-----------------------------------------------------------------------------
(* Where the quoted lines are: cited, _hits.                               *)

Cited(v) == /\ v.sourceKind # "none" /\ v.sinkKind # "none"
            /\ v.source # {} /\ v.sink # {}

\* Lines in a string constant do not count; a line cut short names one line.
HitsOf(q, f) ==
    LET at == {n \in DOMAIN f.lines : f.lines[n].text \in q.texts /\ ~f.lines[n].string}
    IN  IF q.cut /\ Cardinality(at) # 1 THEN {} ELSE at

Found(quote, f) == \A q \in quote : HitsOf(q, f) # {}
Hits(quote, f) == UNION {HitsOf(q, f) : q \in quote}

-----------------------------------------------------------------------------
(* One end's matched lines as groups: _groups, _merged.                    *)

\* Consecutive hits, with at most Bridge lines between them, shown and blank.
Bridged(f, m, n) ==
    /\ n - m - 1 <= Bridge
    /\ \A k \in m + 1..n - 1 : k \in DOMAIN f.lines /\ f.lines[k].blank

\* The hit before line n, 0 for the first.
HitBefore(hits, n) == Max({0} \cup {m \in hits : m < n})

\* The brackets open after lines m + 1 to n - 1 when b were open after m: 0 when
\* one of them is not shown or closes the last.
OpenAcross(f, b, m, n) ==
    LET open[k \in m..n - 1] ==
            IF k = m THEN b
            ELSE IF /\ open[k - 1] > 0
                    /\ k \in DOMAIN f.lines /\ open[k - 1] + f.lines[k].low > 0
            THEN open[k - 1] + f.lines[k].net
            ELSE 0
    IN  open[n - 1]

\* The brackets open after each hit; closers that match nothing are ignored.
OpenAfter(f, hits) ==
    LET open[n \in hits] ==
            LET m == HitBefore(hits, n)
                b == IF m = 0 THEN 0
                     ELSE IF Bridged(f, m, n) THEN open[m] ELSE OpenAcross(f, open[m], m, n)
            IN  Max({b + f.lines[n].net, f.lines[n].net - f.lines[n].low})
    IN  open

\* A run is a group, and (a) while its brackets are open it takes in the next one of
\* the same statement: the hits that start one, and the hits of the one s starts.
Starts(f, hits) ==
    LET open == OpenAfter(f, hits)
    IN  {n \in hits :
            LET m == HitBefore(hits, n)
            IN  m = 0 \/ (~Bridged(f, m, n) /\ OpenAcross(f, open[m], m, n) = 0)}
RunFrom(hits, starts, s) == {n \in hits : s <= n /\ \A t \in starts : t <= s \/ n < t}

\* _File.binds and the names line n may take from a binder (_File.reaches).
Binds(f, lines) ==
    UNION {f.lines[n].bound \X {f.lines[n].scope} :
              n \in {m \in lines : f.lines[m].scope # "none"}}
Wants(f, n) ==
    IF f.lines[n].scope = "none" THEN {}
    ELSE f.lines[n].reads \X {"module", f.lines[n].scope}

\* (b) A run joins, for each name it reads, the last earlier run that binds it.
Joins(f, runs, i, j) ==
    /\ j < i
    /\ \E n \in runs[i] : \E key \in Wants(f, n) :
           /\ key \in Binds(f, runs[j])
           /\ \A k \in DOMAIN runs : j < k /\ k < i => key \notin Binds(f, runs[k])

\* The sets of lines that one piece of evidence may be read from: the lines of runs
\* that no join leads into or out of.
Merged(f, hits) ==
    LET starts == Starts(f, hits)
        runs == [s \in starts |-> RunFrom(hits, starts, s)]
        joined == {e \in starts \X starts : Joins(f, runs, e[1], e[2])}
        closed == {p \in SUBSET starts : \A e \in joined : e[1] \in p <=> e[2] \in p} \ {{}}
        smallest == {p \in closed : \A q \in closed : q \subseteq p => q = p}
    IN  {UNION {runs[s] : s \in p} : p \in smallest}

-----------------------------------------------------------------------------
(* Kind and Connected: _evidence, _connected.                              *)

Evidence(kind, f, group) ==
    LET shown == UNION {f.lines[n].shows : n \in group}
    IN  IF kind = "write-and-run"
        THEN "write" \in shown /\ shown \cap {"exec", "chmod", "persist"} # {}
        ELSE kind \in shown

Kept(f, hits, kind) == {g \in Merged(f, hits) : Evidence(kind, f, g)}

\* A line that can support a connection, with its names and its position.
Anchor(f, n) ==
    /\ f.lines[n].live /\ ~f.lines[n].import
    /\ f.lines[n].names # {}

Near(f, m, n) ==
    /\ f.lines[m].scope = f.lines[n].scope
    /\ f.lines[n].scope # "none"
    /\ f.lines[n].scope = "module" => m - n <= ModuleSpan /\ n - m <= ModuleSpan

\* One hop: a live line that reads what the source binds is near the sink.
Hop(f, src, snk) ==
    \E r \in DOMAIN f.lines \ src :
        /\ ~f.lines[r].hidden /\ f.lines[r].live
        /\ Wants(f, r) \cap Binds(f, src) # {}
        /\ r \in snk \/ \E n \in snk : Near(f, r, n)

\* Mutation: only the first sink line is looked at for nearness.
ConnectedToFirst(f, source, sink) ==
    LET src == {n \in source : Anchor(f, n)}
        snk == {n \in sink : Anchor(f, n)}
        first == {n \in snk : \A m \in snk : n <= m}
    IN  \/ \E n \in source \cap sink : f.lines[n].live /\ ~f.lines[n].import
        \/ \E m \in src, n \in snk : f.lines[m].names \cap f.lines[n].names # {}
        \/ \E m \in src, n \in first : Near(f, m, n)
        \/ snk # {} /\ Hop(f, src, first)

Connected(f, source, sink) ==
    LET src == {n \in source : Anchor(f, n)}
        snk == {n \in sink : Anchor(f, n)}
    IN  \/ \E n \in source \cap sink : f.lines[n].live /\ ~f.lines[n].import
        \/ \E m \in src, n \in snk : f.lines[m].names \cap f.lines[n].names # {}
        \/ \E m \in src, n \in snk : Near(f, m, n)
        \/ snk # {} /\ Hop(f, src, snk)

-----------------------------------------------------------------------------
(* The verdict: _gate_file, gate.                                          *)

Checks(v, f, srcKept, snkKept) ==
    <<[failed |-> f.cls \in {"not-shipped", "inert", "data", "unknown"}, why |-> "class"],
      [failed |-> \A n \in Hits(v.source, f) : ~f.lines[n].live, why |-> "source not live"],
      [failed |-> \A n \in Hits(v.sink, f) : ~f.lines[n].live, why |-> "sink not live"],
      [failed |-> srcKept = {}, why |-> "source kind"],
      [failed |-> snkKept = {}, why |-> "sink kind"],
      [failed |-> ~Connected(f, UNION srcKept, UNION snkKept), why |-> "not connected"],
      [failed |-> <<v.sourceKind, v.sinkKind>> \notin PAIRS, why |-> "pair"]>>

\* The first check that fails.
FirstFailed(checks) ==
    LET failed == {i \in DOMAIN checks : checks[i].failed}
    IN  IF failed = {} THEN "stands" ELSE checks[Min(failed)].why
GateFile(v, f) ==
    FirstFailed(Checks(v, f, Kept(f, Hits(v.source, f), v.sourceKind),
                             Kept(f, Hits(v.sink, f), v.sinkKind)))

\* The reason of the first file both ends are in, unless one lets the chain stand.
AnyStands(reason) ==
    IF \E i \in DOMAIN reason : reason[i] = "stands" THEN "stands" ELSE reason[Min(DOMAIN reason)]
Gate(v, shown) ==
    LET srcIn == {i \in DOMAIN shown : Found(v.source, shown[i])}
        snkIn == {i \in DOMAIN shown : Found(v.sink, shown[i])}
        both == srcIn \cap snkIn
    IN  IF ~Cited(v) THEN "not cited"
        ELSE IF srcIn = {} THEN "source not found"
        ELSE IF snkIn = {} THEN "sink not found"
        ELSE IF both = {} THEN "different files"
        ELSE AnyStands([i \in both |-> GateFile(v, shown[i])])

-----------------------------------------------------------------------------
(* What the answer promises.                                               *)

\* The files shown, one after the other.
FilesShown(shown) == Len(shown) \in Nat /\ DOMAIN shown = 1..Len(shown)

\* Evidence and connection come from one source group and one sink group of one
\* file, never from occurrences that have nothing to do with each other.
OnePair(v, f) ==
    /\ f.cls \notin {"not-shipped", "inert", "data", "unknown"}
    /\ Found(v.source, f) /\ Found(v.sink, f)
    /\ <<v.sourceKind, v.sinkKind>> \in PAIRS
    /\ \E g \in Kept(f, Hits(v.source, f), v.sourceKind),
          h \in Kept(f, Hits(v.sink, f), v.sinkKind) :
            Connected(f, g, h)

=============================================================================
