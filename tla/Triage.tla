-------------------------------- MODULE Triage --------------------------------
(***************************************************************************)
(* The score that decides whether a release is reviewed (engine.py:        *)
(* triage, score; rules.py: validate_rule, load_rules).                    *)
(*                                                                         *)
(* A rule as it stands in the rule files is a record: id, scope, weight    *)
(* and maxTotal (NotANumber: no finite number; NoMax: no max_total),       *)
(* scaled (by where a file runs), and matches, the set of the facts its    *)
(* match tree holds for, or Malformed.  A fact is [scope, name, location]: *)
(* a changed file, a binary, a dependency finding or a change of owners.   *)
(* The rules in force are a set: their ids differ, and sums have no order. *)
(***************************************************************************)
EXTENDS Integers, Sequences, FiniteSets, SequencesExt, Functions

CONSTANT Threshold              \* threshold_t

ASSUME ThresholdAssumption == Threshold \in Int

NotANumber == -100
NoMax == -101
Scopes == {"code", "binary", "dep", "maintainer"}
Malformed == {[scope |-> "?", name |-> 0, location |-> 0]}

\* Mutation: any finite weight will do.
ValidAnyWeight(rule) == rule.weight # NotANumber /\ rule.maxTotal # NotANumber

\* validate_rule: anything wrong with a rule rejects it.
Valid(rule) ==
    /\ rule.weight # NotANumber /\ rule.weight >= 0
    /\ rule.scope \in Scopes
    /\ rule.matches # Malformed
    /\ rule.maxTotal = NoMax \/ rule.maxTotal > 0

\* load_rules: of the valid rules with one id, in file order, the first.
LoadRules(files) ==
    {files[k] : k \in {n \in DOMAIN files :
        Valid(files[n]) /\ \A m \in 1..(n - 1) : Valid(files[m]) => files[m].id # files[n].id}}

Fired(rule, facts) == {f \in facts : f.scope = rule.scope /\ f \in rule.matches}
Weight(rule, f) ==
    rule.weight * (IF rule.scaled /\ rule.scope = "code" THEN f.location ELSE 1)

\* What one rule adds: the sum of its fired weights, up to its max_total.
Sum(rule, facts) == SumFunction([f \in Fired(rule, facts) |-> Weight(rule, f)])
Adds(rule, sum) ==
    IF rule.maxTotal = NoMax \/ sum <= rule.maxTotal THEN sum ELSE rule.maxTotal

Score(rules, facts) == SumFunction([r \in rules |-> Adds(r, Sum(r, facts))])

Escalate(files, facts) == Score(LoadRules(files), facts) >= Threshold

-----------------------------------------------------------------------------
(* The score of a release scanned in the sandbox (sandbox.py).  claims is what its  *)
(* worker says fired: a sum of weights for each rule id.                   *)

ParentScopes == {"dep", "maintainer"}
SameOwners == [scope |-> "maintainer", name |-> 0, location |-> 1]
Unusable == -1

\* The worker is told neither the owners nor the findings about dependencies.
WorkerFacts(facts) == {f \in facts : f.scope \notin ParentScopes} \cup {SameOwners}
Genuine(rules, facts) ==
    [id \in {r.id : r \in rules} |->
        Sum(CHOOSE r \in rules : r.id = id, WorkerFacts(facts))]

\* _decode_output: fired rules that are known, with finite weights.
Believable(rules, claims) ==
    \A id \in DOMAIN claims : claims[id] >= 0 /\ \E r \in rules : r.id = id

Claimed(r, claims) == IF r.id \in DOMAIN claims THEN claims[r.id] ELSE 0

\* Mutation: the worker's word for every rule but those on dependencies.
WithDepRules(rules, facts, claims) ==
    SumFunction([r \in rules |-> Adds(r, IF r.scope = "dep" THEN Sum(r, facts)
                                         ELSE Claimed(r, claims))])

\* _with_parent_rules: the parent's own results replace the worker's.
WithParentRules(rules, facts, claims) ==
    SumFunction([r \in rules |-> Adds(r, IF r.scope \in ParentScopes THEN Sum(r, facts)
                                         ELSE Claimed(r, claims))])

\* analyze
Analyzed(rules, facts, claims) ==
    IF Believable(rules, claims) THEN WithParentRules(rules, facts, claims) ELSE Unusable

-----------------------------------------------------------------------------
\* What the parsers hand over: finitely many facts, a location weighted from 0; and
\* rules whose numbers are numbers, before (RulesRead) and after they are loaded.
FactsBuilt(facts) == IsFiniteSet(facts) /\ \A f \in facts : f.location \in Nat
RulesRead(files) ==
    Len(files) \in Nat /\ DOMAIN files = 1..Len(files)
    /\ \A k \in DOMAIN files : {files[k].weight, files[k].maxTotal} \subseteq Int
RulesLoaded(rules) ==
    /\ IsFiniteSet(rules)
    /\ \A r \in rules : Valid(r) /\ {r.weight, r.maxTotal} \subseteq Int
    /\ \A r, q \in rules : r.id = q.id => r = q

\* Nothing takes a release out of review: with one of its facts, or with its
\* last rule, left out it would not score higher.
NeverTakenOut(files, facts) ==
    /\ \A f \in facts : Escalate(files, facts \ {f}) => Escalate(files, facts)
    /\ files # <<>> => (Escalate(Front(files), facts) => Escalate(files, facts))

\* A genuine reply scores as one triage of all the facts would.  Whatever the worker
\* claims, what the parent knows counts in full, and no claim about it adds to it;
\* what only the worker saw is its word, and one that claims nothing takes it out.
ParentDecides(rules, facts, claims, answer) ==
    LET own == Score(rules, {f \in facts : f.scope \in ParentScopes})
        most == SumFunction([r \in rules |-> IF r.scope \in ParentScopes THEN 0
                                             ELSE Claimed(r, claims)])
    IN  /\ claims = Genuine(rules, facts) => answer = Score(rules, facts)
        /\ answer = Unusable \/ answer \in own..(own + most)

=============================================================================
