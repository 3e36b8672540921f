------------------------------ MODULE DepScreen ------------------------------
(***************************************************************************)
(* The dependencies a release adds, looked up under a cap (deps.py,        *)
(* screen_added_deps; fetcher.py, _screen_added_deps).                     *)
(*                                                                         *)
(* A name is a number, its place in name order.  A case is a record:       *)
(* declared and prior (the names this release and its predecessor declare, *)
(* or Unknown when the exact version's JSON could not be read), corpus     *)
(* (the popular names), near (name -> the popular name it looks like, or   *)
(* 0), index (name -> what a lookup brings), and own (the owners of the    *)
(* scanned package).  A lookup brings NotFound (a 404), NoData (any other  *)
(* failure), or a record of the owners, whether there are emails, whether  *)
(* a popular organisation owns it, the age in days (NoDate: no upload      *)
(* time) and the number of releases.  A first release is not screened.     *)
(***************************************************************************)
EXTENDS Integers, Sequences, FiniteSets, SequencesExt

CONSTANTS
    LookupCap,              \* max_dep_lookups
    EstablishedDays,        \* _ESTABLISHED_DAYS
    EstablishedReleases,    \* _ESTABLISHED_RELEASES
    BrandNewDays            \* dep_brandnew_days

ASSUME LookupAssumption == LookupCap \in Nat

Unknown == {0}              \* no list of names holds 0
NoDate == -1
NotFound == [answer |-> "404"]
NoData == [answer |-> "none"]
Capped == [answer |-> "capped"]

\* Mutation: a predecessor's list that could not be read counts as empty.
AddedToNothing(c) ==
    IF c.declared = Unknown THEN {} ELSE c.declared \ c.prior

\* The names screened: none while either list is unknown.
AddedDeps(c) ==
    IF Unknown \in {c.declared, c.prior} THEN {} ELSE c.declared \ c.prior

\* lookup: an answer is kept, and no more than LookupCap are fetched.
Fetchable(s, n) == n \in s.fetched \/ Cardinality(s.fetched) < LookupCap
Lookup(c, s, n) == IF Fetchable(s, n) THEN c.index[n] ELSE Capped
Fetched(s, n) == [s EXCEPT !.fetched = IF Fetchable(s, n) THEN @ \cup {n} ELSE @]

Finding(s, n, reason) == [s EXCEPT !.findings = @ \cup {<<n, reason>>}]

SameOwner(c, meta) == meta.owners \cap c.own # {}
Established(meta) == meta.age >= EstablishedDays /\ meta.releases >= EstablishedReleases
BrandNew(meta) == meta.age # NoDate /\ meta.age < BrandNewDays

\* A name near a popular one, with data: cleared by its owner, its organisation
\* or its age; else the popular one is looked up to compare the emails with.
Lookalike(c, s, n, meta) ==
    CASE SameOwner(c, meta) \/ meta.popularOrg ->
            IF BrandNew(meta) THEN Finding(s, n, "brand-new") ELSE s
      [] ~(SameOwner(c, meta) \/ meta.popularOrg) /\ Established(meta) -> s
      [] OTHER -> Finding(IF meta.emails THEN Fetched(s, c.near[n]) ELSE s,
                          n, "typosquat")

\* Mutation: a lookalike nothing is known about is let go.
ScreenForgiving(c, s, n) ==
    LET meta == Lookup(c, s, n)
        t == Fetched(s, n)
    IN  CASE n \in c.corpus -> s
          [] n \notin c.corpus /\ meta \in {Capped, NoData} -> t
          [] n \notin c.corpus /\ meta = NotFound -> Finding(t, n, "nonexistent")
          [] OTHER -> IF c.near[n] # 0 THEN Lookalike(c, t, n, meta)
                      ELSE IF BrandNew(meta) THEN Finding(t, n, "brand-new") ELSE t

ScreenOne(c, s, n) ==
    LET meta == Lookup(c, s, n)
        t == Fetched(s, n)
        squat == Finding(t, n, "typosquat")
    IN  CASE n \in c.corpus -> s
          [] n \notin c.corpus /\ meta = Capped ->
                IF c.near[n] # 0 THEN squat ELSE Finding(t, n, "not-screened-cap")
          [] n \notin c.corpus /\ meta = NotFound -> Finding(t, n, "nonexistent")
          [] n \notin c.corpus /\ meta = NoData -> IF c.near[n] # 0 THEN squat ELSE t
          [] OTHER -> IF c.near[n] # 0 THEN Lookalike(c, t, n, meta)
                      ELSE IF BrandNew(meta) THEN Finding(t, n, "brand-new") ELSE t

\* Name by name, in name order.
ScreenAddedDeps(c) ==
    LET screen[n \in 0..Len(c.near)] ==
            IF n = 0 THEN [fetched |-> {}, findings |-> {}]
            ELSE IF n \in AddedDeps(c) THEN ScreenOne(c, screen[n - 1], n)
            ELSE screen[n - 1]
    IN  screen[Len(c.near)]

-----------------------------------------------------------------------------
(* What the answer promises, for the lists both releases really declare.   *)

\* A list of names is known as it is, or unknown; index and near know every name.
ListsKnown(c, really) ==
    /\ c.declared \in {Unknown, really.declared} /\ c.prior \in {Unknown, really.prior}
    /\ Len(c.near) \in Nat /\ AddedDeps(c) \subseteq 1..Len(c.near)

\* Only a name this release adds is accused, and no lookup goes past the cap.
OnlyAdded(c, really, s) ==
    /\ \A f \in s.findings : f[1] \in really.declared \ really.prior
    /\ Cardinality(s.fetched) <= LookupCap

\* A name that is added, unpopular and not reported was looked up, and the answer
\* cleared it; one that looks like a popular name is cleared by an answer only.
ClearedByData(c, s) ==
    \A n \in AddedDeps(c) \ c.corpus :
        (\A f \in s.findings : f[1] # n)
            => /\ n \in s.fetched
               /\ c.index[n] # NotFound
               /\ c.near[n] # 0 => /\ c.index[n] # NoData
                                   /\ \/ SameOwner(c, c.index[n])
                                      \/ c.index[n].popularOrg
                                      \/ Established(c.index[n])

=============================================================================
