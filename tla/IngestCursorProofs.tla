-------------------------- MODULE IngestCursorProofs --------------------------
(***************************************************************************)
(* Proofs about IngestCursor: type correctness, and that neither the       *)
(* cursor nor the floor passes a release that nobody has been told of, for *)
(* any uploads, lags, answers, caps, holds, labels and kills.              *)
(***************************************************************************)
EXTENDS IngestCursor, FiniteSetTheorems, FunctionTheorems, WellFoundedInduction, TLAPS

-----------------------------------------------------------------------------
(* The log.  LastSerial, FirstUpload and Uploaded with the log they look at. *)

FilesIn(l, p, s) == {i \in 1..s : ProjectOf[l[i]] = p}
LastIn(l, p, s) == IF FilesIn(l, p, s) = {} THEN 0 ELSE Max(FilesIn(l, p, s))
HasIn(l, v, s) == \E i \in 1..s : l[i] = v
FirstIn(l, v) == Min({i \in 1..Len(l) : l[i] = v})

-----------------------------------------------------------------------------
(* The invariant.                                                          *)

\* The releases the promises are about.  A database without a cursor is asked
\* for everything, until it is seeded.
Wanted(v) == HasIn(log, v, Len(log)) /\ (FirstIn(log, v) > since \/ cursor = 0)

\* The project has an incident on record that covers serial n, as Noted says,
\* with u ticks killed or reads of the index lagging.
NotedBy(s, u, n) ==
    s.serial >= n /\ (u = 0 => s.verdict) /\ s.label \in {0, s.serial}

Pardoned(v) ==
    ProjectOf[v] \in gone \/ NotedBy(star[ProjectOf[v]], upsets, FirstIn(log, v))

\* Where the tick has what the poll found.
Listed == {"scan", "settle", "verdict", "cursor"}

\* Serials are read from the copies of the index served so far.
SerialsKnown ==
    /\ read <= Len(log) /\ cursor <= read /\ updated <= Len(log) /\ floor <= Len(log)
    /\ job.begun <= Len(log)
    /\ pc = "seed" => cursor > 0
    /\ \A p \in Projects : star[p].serial <= LastIn(log, p, read)

\* A label is of the incident on record, and as long as no tick was killed every
\* incident on record has its verdict, but the one that is being recorded.
StarsSound ==
    \A p \in Projects :
        /\ star[p].label \in {0, star[p].serial}
        /\ upsets = 0 /\ star[p].serial # 0 =>
              star[p].verdict \/ (pc = "verdict" /\ Current.project = p)

\* A project is released from its hold with an incident on record only.
HoldsTold ==
    \A p \in Projects :
        holds[p].ticks >= HoldLimit => star[p].serial >= holds[p].serial

\* What the tick knows: its incidents are of the copy it read, ...
JobKnown ==
    /\ pc \notin Listed => job.todo = <<>> /\ job.due = {} /\ ~job.counted
    /\ pc \in Listed =>
        /\ job.ceiling <= read
        /\ job.complete => job.ceiling = read /\ read >= job.begun - Lag
        /\ \A h \in job.held \cup job.refused :
              h.serial > 0 /\ h.serial = LastIn(log, h.project, read)
        /\ job.due \subseteq job.held \cup job.refused
    /\ pc = "verdict" => /\ job.todo = <<>> /\ job.due # {}
                         /\ star[Current.project].serial = Current.serial
    /\ pc = "cursor" => job.todo = <<>> /\ job.due = {} /\ job.counted

\* ... the releases it has taken are new, and taken once, ...
TodoNew ==
    /\ \A i, j \in 1..Len(job.todo) : job.todo[i] = job.todo[j] => i = j
    /\ \A i \in 1..Len(job.todo) : row[job.todo[i]] # "done"

\* ... and an incident it has to tell about is due, or told.
Told(j, s, h) == h \in j.due \/ s[h.project].serial >= h.serial

IncidentsTold ==
    pc \in Listed =>
        /\ ~job.counted =>
              \A h \in job.held : Ticks(h) >= HoldLimit => Told(job, star, h)
        /\ job.counted => \A h \in job.refused : Told(job, star, h)

\* What the cursor has passed, what the floor has, and what the cursor will have
\* passed when this tick ends.
CursorKept ==
    \A v \in Versions :
        Wanted(v) /\ FirstIn(log, v) <= read /\ LastIn(log, ProjectOf[v], read) <= cursor
            => row[v] = "done" \/ Pardoned(v)

FloorKept ==
    \A v \in Versions :
        Wanted(v) /\ FirstIn(log, v) <= floor => row[v] # "none" \/ Pardoned(v)

InTodo(j, v) == \E i \in 1..Len(j.todo) : j.todo[i] = v

\* The incident of v's project that this tick tells about, if it has to.
Covered(j, s, v) ==
    \/ \E h \in j.held : h.project = ProjectOf[v] /\ Told(j, s, h)
    \/ \E h \in j.refused : h.project = ProjectOf[v] /\ (j.counted => Told(j, s, h))

CeilingKept ==
    pc \in Listed =>
        \A v \in Versions :
            Wanted(v) /\ FirstIn(log, v) <= read
                /\ LastIn(log, ProjectOf[v], read) <= job.ceiling
            => row[v] = "done" \/ Pardoned(v) \/ InTodo(job, v) \/ Covered(job, star, v)

TypeInv == TypeOK /\ (pc = "settle" => job.todo # <<>>)

PassInv ==
    /\ TypeInv /\ SerialsKnown /\ StarsSound /\ HoldsTold /\ JobKnown /\ TodoNew
    /\ IncidentsTold /\ CursorKept /\ FloorKept /\ CeilingKept

-----------------------------------------------------------------------------
(* Least and greatest elements, and the least of the due incidents.        *)

\* A nonempty set of naturals has a least element.
LEMMA Least ==
    ASSUME NEW S, S \subseteq Nat, S # {}
    PROVE  \E x \in S : \A y \in S : x <= y
<1>1. PICK x \in S : \A y \in S : ~ (<<y, x>> \in OpToRel(<, Nat))
  BY NatLessThanWellFounded, WFMin
<1>2. \A y \in S : ~(y < x)
  BY <1>1 DEF OpToRel
<1> QED
  BY <1>2

\* Min is the least element.
LEMMA MinOf ==
    ASSUME NEW S, S \subseteq Nat, S # {}
    PROVE  Min(S) \in S /\ \A y \in S : Min(S) <= y
BY Least DEF Min

\* Max is the greatest element of a bounded set.
LEMMA MaxOf ==
    ASSUME NEW S, NEW k \in Nat, S \subseteq 0..k, S # {}
    PROVE  Max(S) \in S /\ \A y \in S : y <= Max(S)
<1> DEFINE T == {n \in 0..k : k - n \in S}
<1>1. T \subseteq Nat /\ T # {}
  <2>1. PICK y \in S : y \in 0..k
    OBVIOUS
  <2>2. k - y \in 0..k /\ k - (k - y) = y
    BY <2>1
  <2>3. k - y \in T
    BY <2>2
  <2>4. T \subseteq 0..k
    OBVIOUS
  <2> HIDE DEF T
  <2> QED
    BY <2>3, <2>4
<1>2. PICK x \in T : \A y \in T : x <= y
  BY <1>1, Least
<1>3. \A y \in S : k - y \in 0..k /\ k - (k - y) = y
  OBVIOUS
<1>4. k - x \in S /\ \A y \in S : k - x >= y
  BY <1>2, <1>3
<1> QED
  BY <1>4 DEF Max

\* Max of two integers.
LEMMA MaxTwo ==
    ASSUME NEW a \in Int, NEW b \in Int
    PROVE  Max({a, b}) = IF a >= b THEN a ELSE b
BY DEF Max

\* Min of two integers.
LEMMA MinTwo ==
    ASSUME NEW a \in Int, NEW b \in Int
    PROVE  Min({a, b}) = IF a <= b THEN a ELSE b
BY DEF Min

\* The incident a tick takes up next is one that is due.
LEMMA CurrentDue ==
    ASSUME job.due \subseteq Incident, job.due # {}
    PROVE  Current \in job.due
<1> DEFINE S == {h.serial : h \in job.due}
<1>1. S \subseteq Nat /\ S # {}
  BY BoundsAssumption DEF Incident, Serial
<1>2. PICK n \in S : \A m \in S : n <= m
  BY <1>1, Least
<1>3. \E h \in job.due : \A g \in job.due : h.serial <= g.serial
  BY <1>2
<1> QED
  BY <1>3 DEF Current

-----------------------------------------------------------------------------
(* The log: what an upload leaves as it was, and what a later copy adds.   *)

\* The serial of a project is that of its last file.
LEMMA LastFacts ==
    ASSUME NEW l \in Seq(Versions), NEW p, NEW s \in 0..Len(l)
    PROVE  /\ LastIn(l, p, s) \in 0..s
           /\ LastIn(l, p, s) > 0 => LastIn(l, p, s) \in FilesIn(l, p, s)
           /\ \A i \in FilesIn(l, p, s) : i <= LastIn(l, p, s)
<1>1. CASE FilesIn(l, p, s) = {}
  BY <1>1 DEF LastIn
<1>2. CASE FilesIn(l, p, s) # {}
  <2>1. FilesIn(l, p, s) \subseteq 0..s
    BY DEF FilesIn
  <2>2. /\ Max(FilesIn(l, p, s)) \in FilesIn(l, p, s)
        /\ \A i \in FilesIn(l, p, s) : i <= Max(FilesIn(l, p, s))
    BY <1>2, <2>1, MaxOf
  <2> QED
    BY <1>2, <2>1, <2>2 DEF LastIn
<1> QED
  BY <1>1, <1>2

\* A later copy of the index has no lower serial of a project.
LEMMA LastGrows ==
    ASSUME NEW l \in Seq(Versions), NEW p, NEW s \in 0..Len(l), NEW t \in s..Len(l)
    PROVE  LastIn(l, p, s) <= LastIn(l, p, t)
<1>1. FilesIn(l, p, s) \subseteq FilesIn(l, p, t)
  BY DEF FilesIn
<1>2. /\ LastIn(l, p, s) \in 0..s /\ LastIn(l, p, t) \in 0..t
      /\ LastIn(l, p, s) > 0 => LastIn(l, p, s) \in FilesIn(l, p, s)
      /\ \A i \in FilesIn(l, p, t) : i <= LastIn(l, p, t)
  BY LastFacts, t \in 0..Len(l)
<1> QED
  BY <1>1, <1>2

\* The first upload of a version.
LEMMA FirstFacts ==
    ASSUME NEW l \in Seq(Versions), NEW v, HasIn(l, v, Len(l))
    PROVE  /\ FirstIn(l, v) \in 1..Len(l) /\ l[FirstIn(l, v)] = v
           /\ \A i \in 1..Len(l) : l[i] = v => FirstIn(l, v) <= i
<1> DEFINE S == {i \in 1..Len(l) : l[i] = v}
<1>1. S \subseteq Nat /\ S # {}
  BY DEF HasIn
<1>2. Min(S) \in S /\ \A y \in S : Min(S) <= y
  BY <1>1, MinOf
<1>3. FirstIn(l, v) = Min(S)
  BY DEF FirstIn
<1> QED
  BY <1>2, <1>3

\* A copy of the index that has a version has its project, with a serial not below it.
LEMMA FirstBeforeLast ==
    ASSUME NEW l \in Seq(Versions), NEW v \in Versions, HasIn(l, v, Len(l)),
           NEW s \in 0..Len(l), FirstIn(l, v) <= s
    PROVE  /\ FirstIn(l, v) <= LastIn(l, ProjectOf[v], s)
           /\ FirstIn(l, v) \in 1..s /\ HasIn(l, v, s)
<1>1. FirstIn(l, v) \in 1..s /\ l[FirstIn(l, v)] = v
  BY FirstFacts
<1>2. FirstIn(l, v) \in FilesIn(l, ProjectOf[v], s)
  BY <1>1 DEF FilesIn
<1>3. FirstIn(l, v) <= LastIn(l, ProjectOf[v], s)
  BY <1>2, LastFacts
<1> QED
  BY <1>1, <1>3 DEF HasIn

\* What the log m has that earlier copies of the index, l's, have not.
OneMore(l, m) ==
    /\ Len(m) = Len(l) + 1
    /\ \A p, s : s \in 0..Len(l) => LastIn(m, p, s) = LastIn(l, p, s)
    /\ \A v : HasIn(l, v, Len(l)) =>
           HasIn(m, v, Len(m)) /\ FirstIn(m, v) = FirstIn(l, v)
    /\ \A v : HasIn(m, v, Len(m)) /\ ~HasIn(l, v, Len(l)) => FirstIn(m, v) = Len(l) + 1

\* An upload changes nothing of what earlier copies of the index hold.
LEMMA Appended ==
    ASSUME NEW l \in Seq(Versions), NEW u \in Versions
    PROVE  OneMore(l, Append(l, u))
<1> DEFINE m == Append(l, u)
<1>1. /\ m \in Seq(Versions) /\ Len(m) = Len(l) + 1
      /\ \A i \in 1..Len(l) : m[i] = l[i]
  OBVIOUS
<1> HIDE DEF m
<1>2. ASSUME NEW p, NEW s \in 0..Len(l)
      PROVE  LastIn(m, p, s) = LastIn(l, p, s)
  <2>1. \A i \in 1..s : m[i] = l[i]
    BY <1>1
  <2>2. FilesIn(m, p, s) = FilesIn(l, p, s)
    BY <2>1 DEF FilesIn
  <2> QED
    BY <2>2 DEF LastIn
<1>3. ASSUME NEW v, HasIn(l, v, Len(l))
      PROVE  HasIn(m, v, Len(m)) /\ FirstIn(m, v) = FirstIn(l, v)
  <2>1. HasIn(m, v, Len(m))
    BY <1>1, <1>3 DEF HasIn
  <2>2. /\ FirstIn(l, v) \in 1..Len(l) /\ l[FirstIn(l, v)] = v
        /\ \A i \in 1..Len(l) : l[i] = v => FirstIn(l, v) <= i
    BY <1>3, FirstFacts
  <2>3. /\ FirstIn(m, v) \in 1..Len(m) /\ m[FirstIn(m, v)] = v
        /\ \A i \in 1..Len(m) : m[i] = v => FirstIn(m, v) <= i
    BY <1>1, <2>1, FirstFacts
  <2>4. FirstIn(m, v) <= FirstIn(l, v)
    BY <1>1, <2>2, <2>3
  <2>5. FirstIn(m, v) \in 1..Len(l)
    BY <1>1, <2>2, <2>3, <2>4
  <2>6. FirstIn(l, v) <= FirstIn(m, v)
    BY <1>1, <2>2, <2>3, <2>5
  <2> QED
    BY <2>1, <2>2, <2>4, <2>5, <2>6
<1>4. ASSUME NEW v, HasIn(m, v, Len(m)), ~HasIn(l, v, Len(l))
      PROVE  FirstIn(m, v) = Len(l) + 1
  <2>1. FirstIn(m, v) \in 1..Len(m) /\ m[FirstIn(m, v)] = v
    BY <1>1, <1>4, FirstFacts
  <2>2. FirstIn(m, v) \notin 1..Len(l)
    BY <1>1, <1>4, <2>1 DEF HasIn
  <2> QED
    BY <1>1, <2>1, <2>2
<1>5. OneMore(l, m)
  BY <1>1, <1>2, <1>3, <1>4 DEF OneMore
<1> QED
  BY <1>5 DEF m

-----------------------------------------------------------------------------
(* Types.                                                                  *)

\* The integers that the constants are.
LEMMA Numbers ==
    /\ Recent \in Nat /\ RecentFloor \in Nat /\ Margin \in Nat /\ Lag \in Nat
    /\ HoldLimit \in Nat \ {0} /\ MaxProjects \in Nat \ {0} /\ MaxReleases \in Nat \ {0}
    /\ MaxLog \in Nat \ {0} /\ MaxUpsets \in Nat
BY NumbersAssumption, LimitsAssumption, BoundsAssumption

\* The log as the lemmas have it.
LEMMA SameLog ==
    /\ \A p, s : LastSerial(p, s) = LastIn(log, p, s)
    /\ \A v, s : Uploaded(v, s) <=> HasIn(log, v, s)
    /\ \A v : FirstUpload(v) = FirstIn(log, v)
BY DEF LastSerial, Files, LastIn, FilesIn, Uploaded, HasIn, FirstUpload, FirstIn, Now

\* The initial state.
LEMMA InitType == Init => TypeInv
<1> SUFFICES ASSUME Init
             PROVE  TypeInv
  OBVIOUS
<1>1. Min(Versions) \in Versions
  BY VersionsAssumption, MinOf
<1>2. log \in Seq(Versions) /\ Len(log) = 1
  BY <1>1 DEF Init
<1>3. job \in Job /\ job.todo = <<>>
  BY Numbers DEF Init, Rest, Job, Serial
<1>4. holds \in [Projects -> Hold] /\ star \in [Projects -> Star]
  BY Numbers DEF Init, NoHold, Hold, Star, Serial
<1>5. /\ gone \subseteq Projects /\ read \in Serial /\ cursor \in Serial /\ updated \in Serial
      /\ floor \in Serial \cup {NoFloor} /\ since \in Serial \cup {NoFloor}
      /\ upsets \in 0..MaxUpsets
  BY Numbers DEF Init, Serial
<1>6. pc \in Places /\ pc # "settle"
  BY DEF Init, Places
<1>7. row \in [Versions -> Stages] /\ backfill \in BOOLEAN
  BY DEF Init, Stages
<1>8. Len(log) \in 1..MaxLog /\ Len(job.todo) <= MaxReleases
  BY <1>2, <1>3, Numbers
<1> QED
  BY <1>2, <1>3, <1>4, <1>5, <1>6, <1>7, <1>8 DEF TypeInv, TypeOK

\* A read of the index.
LEMMA ReadType ==
    ASSUME TypeOK, NEW m \in 1..Now, IndexRead(m)
    PROVE  /\ read' \in Serial /\ read' = m /\ upsets' \in 0..MaxUpsets
           /\ UNCHANGED <<log, gone>>
           /\ Len(log) \in 1..MaxLog
           /\ (m = Now /\ upsets' = upsets) \/ (m < Now /\ m >= Now - Lag /\ m >= read)
           /\ upsets' = upsets \/ upsets' > 0
BY Numbers DEF TypeOK, IndexRead, Upset, Now, Serial

\* What a poll lists is a finite set of versions.
LEMMA ListedFinite ==
    ASSUME TypeOK, NEW answer, NEW serial \in [Projects -> Serial],
           DOMAIN answer \subseteq Projects,
           \A p \in DOMAIN answer : serial[p] <= Len(log)
    PROVE  /\ ListedBy(answer, serial) \subseteq Versions
           /\ IsFiniteSet(ListedBy(answer, serial))
<1> DEFINE L == ListedBy(answer, serial)
           F == [i \in 1..Len(log) |-> log[i]]
           V == {log[i] : i \in 1..Len(log)}
<1>1. L \subseteq V
  <2>1. ASSUME NEW v \in L
        PROVE  \E s \in 0..Len(log) : HasIn(log, v, s)
    <3> DEFINE A == UNION {NewVersions(p, Now) : p \in Answered(answer, {"fresh"})}
               B == UNION {NewVersions(p, serial[p] - 1) : p \in Answered(answer, {"stale"})}
    <3>1. CASE v \in A
      BY <3>1, SameLog DEF NewVersions, Now, TypeOK
    <3>2. CASE v \in B
      <4>1. PICK p \in Answered(answer, {"stale"}) : HasIn(log, v, serial[p] - 1)
        BY <3>2, SameLog DEF NewVersions
      <4>2. serial[p] \in 0..Len(log)
        BY <4>1 DEF Answered, Serial, TypeOK
      <4>3. PICK i \in 1..(serial[p] - 1) : log[i] = v
        BY <4>1 DEF HasIn
      <4> QED
        BY <4>2, <4>3 DEF HasIn, TypeOK
    <3>3. v \in A \cup B
      BY <2>1 DEF ListedBy
    <3> QED
      BY <3>1, <3>2, <3>3
  <2>2. ASSUME NEW v \in L
        PROVE  v \in V
    BY <2>1, <2>2 DEF HasIn, TypeOK
  <2> QED
    BY <2>2
<1>2. F \in Surjection(1..Len(log), V)
  BY DEF Surjection
<1>3. IsFiniteSet(V)
  BY <1>2, FS_Surjection, FS_Interval DEF TypeOK
<1>4. V \subseteq Versions
  BY DEF TypeOK
<1> HIDE DEF L, V, F
<1>5. IsFiniteSet(L)
  BY <1>1, <1>3, FS_Subset
<1> QED
  BY <1>1, <1>4, <1>5 DEF L

\* An enumeration of a finite set of versions lists each of them, once.
LEMMA Enumerated ==
    ASSUME NEW S \in SUBSET Versions, IsFiniteSet(S), NEW todo \in SetToSeqs(S)
    PROVE  /\ todo \in Seq(Versions)
           /\ \A i \in 1..Len(todo) : todo[i] \in S
           /\ \A i, j \in 1..Len(todo) : todo[i] = todo[j] => i = j
           /\ \A v \in S : \E i \in 1..Len(todo) : todo[i] = v
<1> DEFINE n == Cardinality(S)
<1>1. n \in Nat
  BY FS_CardinalityType
<1>2. /\ todo \in [1..n -> S]
      /\ \A i, j \in 1..n : todo[i] = todo[j] => i = j
  BY DEF SetToSeqs
<1>3. Cardinality(1..n) = n
  BY <1>1, FS_Interval
<1> HIDE DEF n
<1>4. todo \in Injection(1..n, S)
  BY <1>2, Fun_IsInj
<1>5. todo \in Surjection(1..n, S)
  BY <1>3, <1>4, FS_Injection DEF n
<1>6. \A v \in S : \E i \in 1..n : todo[i] = v
  BY <1>5 DEF Surjection
<1>7. todo \in Seq(Versions) /\ Len(todo) = n
  BY <1>1, <1>2
<1> QED
  BY <1>2, <1>6, <1>7

\* The poll, with what it works out named.
PollOf(meta, serial, answer, todo, held, cut, ceiling) ==
    /\ serial = [p \in Projects |-> LastIn(log, p, meta)]
    /\ DOMAIN answer \subseteq {p \in Projects : serial[p] > cursor}
    /\ answer \in [DOMAIN answer -> Answers]
    /\ todo \in Seq(Versions)
    /\ \A i \in 1..Len(todo) : todo[i] \in ListedBy(answer, serial)
    /\ \A i, j \in 1..Len(todo) : todo[i] = todo[j] => i = j
    /\ \A v \in ListedBy(answer, serial) : \E i \in 1..Len(todo) : todo[i] = v
    /\ held = Incidents(Answered(answer, {"stale", "failed"}), serial)
    /\ cut = {serial[p] : p \in {q \in Projects : serial[q] > cursor} \ DOMAIN answer}
               \cup {h.serial : h \in {h \in held : h.project \notin Released}}
               \cup {serial[ProjectOf[todo[i]]] : i \in (MaxReleases + 1)..Len(todo)}
    /\ ceiling = Max({0} \cup (CutBefore(cut) \cap 0..meta))
    /\ job' = [job EXCEPT
                 !.todo = Taken(todo),
                 !.held = held,
                 !.due = {h \in held : AlertDue(h)},
                 !.refused = Incidents(Answered(answer, {"refused"}), serial),
                 !.ceiling = ceiling,
                 !.complete = (ceiling = meta)]

\* A poll, named so.
LEMMA PollNamed ==
    ASSUME TypeOK, Poll
    PROVE  \E meta \in 1..Now : \E serial, answer, todo, held, cut, ceiling :
              /\ IndexRead(meta)
              /\ PollOf(meta, serial, answer, todo, held, cut, ceiling)
<1>1. PICK meta \in 1..Now :
        LET serial == [p \in Projects |-> LastSerial(p, meta)]
            above == {p \in Projects : serial[p] > cursor}
            changed == Lowest(above, MaxProjects, serial)
        IN  /\ IndexRead(meta)
            /\ \E answer \in [changed -> Answers] :
               \E todo \in SetToSeqs(ListedBy(answer, serial)) :
                LET held == Incidents(Answered(answer, {"stale", "failed"}), serial)
                    cut == {serial[p] : p \in above \ changed}
                             \cup {h.serial : h \in {h \in held : h.project \notin Released}}
                             \cup {serial[ProjectOf[todo[i]]] :
                                     i \in (MaxReleases + 1)..Len(todo)}
                    ceiling == Max({0} \cup (CutBefore(cut) \cap 0..meta))
                IN  /\ InOrder(todo, serial)
                    /\ job' = [job EXCEPT
                                 !.todo = Taken(todo),
                                 !.held = held,
                                 !.due = {h \in held : AlertDue(h)},
                                 !.refused = Incidents(Answered(answer, {"refused"}), serial),
                                 !.ceiling = ceiling,
                                 !.complete = (ceiling = meta)]
  BY DEF Poll
<1> DEFINE serial == [p \in Projects |-> LastSerial(p, meta)]
           above == {p \in Projects : serial[p] > cursor}
           changed == Lowest(above, MaxProjects, serial)
           held(answer) == Incidents(Answered(answer, {"stale", "failed"}), serial)
           cut(answer, todo) ==
               {serial[p] : p \in above \ changed}
                 \cup {h.serial : h \in {h \in held(answer) : h.project \notin Released}}
                 \cup {serial[ProjectOf[todo[i]]] : i \in (MaxReleases + 1)..Len(todo)}
           ceiling(answer, todo) == Max({0} \cup (CutBefore(cut(answer, todo)) \cap 0..meta))
           next(answer, todo) ==
               [job EXCEPT !.todo = Taken(todo),
                           !.held = held(answer),
                           !.due = {h \in held(answer) : AlertDue(h)},
                           !.refused = Incidents(Answered(answer, {"refused"}), serial),
                           !.ceiling = ceiling(answer, todo),
                           !.complete = (ceiling(answer, todo) = meta)]
<1>2. \E answer \in [changed -> Answers] : \E todo \in SetToSeqs(ListedBy(answer, serial)) :
          InOrder(todo, serial) /\ job' = next(answer, todo)
  BY <1>1, Zenon
<1>3. changed \subseteq above
  BY DEF Lowest
<1> HIDE DEF serial, changed, next
<1>4. PICK answer \in [changed -> Answers] :
         \E todo \in SetToSeqs(ListedBy(answer, serial)) : job' = next(answer, todo)
  BY <1>2
<1>5. PICK todo \in SetToSeqs(ListedBy(answer, serial)) : job' = next(answer, todo)
  BY <1>4
<1>6. DOMAIN answer = changed
  OBVIOUS
<1>7. serial = [p \in Projects |-> LastIn(log, p, meta)]
  BY SameLog DEF serial
<1>8. serial \in [Projects -> Serial] /\ \A p \in Projects : serial[p] <= Len(log)
  <2>1. meta \in 0..Len(log)
    BY DEF Now
  <2>2. \A p \in Projects : LastIn(log, p, meta) \in 0..meta
    BY <2>1, LastFacts DEF TypeOK
  <2> QED
    BY <1>7, <2>1, <2>2, Numbers DEF Serial, TypeOK
<1>9. ListedBy(answer, serial) \subseteq Versions /\ IsFiniteSet(ListedBy(answer, serial))
  BY <1>3, <1>6, <1>8, ListedFinite
<1>10. /\ todo \in Seq(Versions)
       /\ \A i \in 1..Len(todo) : todo[i] \in ListedBy(answer, serial)
       /\ \A i, j \in 1..Len(todo) : todo[i] = todo[j] => i = j
       /\ \A v \in ListedBy(answer, serial) : \E i \in 1..Len(todo) : todo[i] = v
  BY <1>9, Enumerated
<1>11. PollOf(meta, serial, answer, todo, held(answer), cut(answer, todo),
              ceiling(answer, todo))
  <2>1. held(answer) = Incidents(Answered(answer, {"stale", "failed"}), serial)
    OBVIOUS
  <2>2. cut(answer, todo) =
            {serial[p] : p \in {q \in Projects : serial[q] > cursor} \ DOMAIN answer}
              \cup {h.serial : h \in {h \in held(answer) : h.project \notin Released}}
              \cup {serial[ProjectOf[todo[i]]] : i \in (MaxReleases + 1)..Len(todo)}
    BY <1>6, Zenon
  <2>3. ceiling(answer, todo) = Max({0} \cup (CutBefore(cut(answer, todo)) \cap 0..meta))
    OBVIOUS
  <2>4. DOMAIN answer \subseteq {p \in Projects : serial[p] > cursor}
    BY <1>3, <1>6
  <2>5. answer \in [DOMAIN answer -> Answers]
    BY <1>6
  <2> HIDE DEF held, cut, ceiling
  <2>6. job' = [job EXCEPT
                  !.todo = Taken(todo),
                  !.held = held(answer),
                  !.due = {h \in held(answer) : AlertDue(h)},
                  !.refused = Incidents(Answered(answer, {"refused"}), serial),
                  !.ceiling = ceiling(answer, todo),
                  !.complete = (ceiling(answer, todo) = meta)]
    BY <1>5, Zenon DEF next
  <2> QED
    BY <1>7, <1>10, <2>1, <2>2, <2>3, <2>4, <2>5, <2>6 DEF PollOf
<1>12. IndexRead(meta)
  BY <1>1
<1> HIDE DEF held, cut, ceiling
<1> QED
  BY <1>11, <1>12

\* What a poll leaves the tick with.
Polled(meta, after) ==
    /\ after \in Job /\ Len(after.todo) <= MaxReleases
    /\ after.begun = job.begun /\ after.counted = job.counted
    /\ \A i, j \in 1..Len(after.todo) : after.todo[i] = after.todo[j] => i = j
    /\ \A i \in 1..Len(after.todo) : row[after.todo[i]] # "done"
    /\ after.ceiling \in 0..meta
    /\ after.complete => after.ceiling = meta
    /\ \A h \in after.held \cup after.refused :
          h.serial = LastIn(log, h.project, meta) /\ h.serial > 0
    /\ after.due = {h \in after.held : AlertDue(h)}
    /\ \A v \in Versions :
          HasIn(log, v, meta) /\ LastIn(log, ProjectOf[v], meta) > cursor
              /\ LastIn(log, ProjectOf[v], meta) <= after.ceiling
          => \/ ProjectOf[v] \in gone
             \/ row[v] = "done"
             \/ row[v] = "none" /\ FirstIn(log, v) <= floor
             \/ \E i \in 1..Len(after.todo) : after.todo[i] = v
             \/ \E h \in after.held : h.project = ProjectOf[v] /\ h.project \in Released
             \/ \E h \in after.refused : h.project = ProjectOf[v]

\* The window ends before the first serial that is left out.
LEMMA CeilingFacts ==
    ASSUME NEW cut, cut \subseteq Nat, NEW meta \in 0..MaxLog
    PROVE  LET ceiling == Max({0} \cup (CutBefore(cut) \cap 0..meta))
           IN  ceiling \in 0..meta /\ \A x \in cut : x <= ceiling => ceiling = 0
<1> DEFINE S == {0} \cup (CutBefore(cut) \cap 0..meta)
           ceiling == Max(S)
<1>1. S \subseteq 0..meta /\ S # {}
  BY Numbers
<1>2. ceiling \in S /\ ceiling \in 0..meta
  BY <1>1, MaxOf, Numbers
<1>3. ASSUME NEW x \in cut, x <= ceiling, ceiling # 0
      PROVE  FALSE
  <2>1. cut # {} /\ ceiling \in CutBefore(cut)
    BY <1>2, <1>3
  <2>2. Min(cut) \in cut /\ Min(cut) <= x
    BY <1>3, MinOf
  <2>3. ceiling <= Min(cut) - 1
    BY <2>1, <2>2 DEF CutBefore
  <2> HIDE DEF ceiling
  <2>4. Min(cut) \in Nat /\ x \in Nat
    BY <2>2
  <2>5. ceiling \in Nat
    BY <1>2
  <2> QED
    BY <1>3, <2>2, <2>3, <2>4, <2>5
<1> QED
  BY <1>2, <1>3

\* Unfolding a poll.
LEMMA PollFacts ==
    ASSUME TypeOK, NEW meta \in 1..Now, NEW serial, NEW answer, NEW todo, NEW held,
           NEW cut, NEW ceiling, PollOf(meta, serial, answer, todo, held, cut, ceiling)
    PROVE  Polled(meta, job')
<1>1. /\ serial = [p \in Projects |-> LastIn(log, p, meta)]
      /\ DOMAIN answer \subseteq {p \in Projects : serial[p] > cursor}
      /\ answer \in [DOMAIN answer -> Answers]
      /\ todo \in Seq(Versions)
      /\ \A i \in 1..Len(todo) : todo[i] \in ListedBy(answer, serial)
      /\ \A i, j \in 1..Len(todo) : todo[i] = todo[j] => i = j
      /\ \A v \in ListedBy(answer, serial) : \E i \in 1..Len(todo) : todo[i] = v
  BY DEF PollOf
<1>2. held = Incidents(Answered(answer, {"stale", "failed"}), serial)
  BY DEF PollOf
<1>3. cut = {serial[p] : p \in {q \in Projects : serial[q] > cursor} \ DOMAIN answer}
              \cup {h.serial : h \in {h \in held : h.project \notin Released}}
              \cup {serial[ProjectOf[todo[i]]] : i \in (MaxReleases + 1)..Len(todo)}
  BY DEF PollOf
<1>4. ceiling = Max({0} \cup (CutBefore(cut) \cap 0..meta))
  BY DEF PollOf
<1> DEFINE refused == Incidents(Answered(answer, {"refused"}), serial)
           due == {h \in held : AlertDue(h)}
<1>5. job' = [job EXCEPT !.todo = Taken(todo), !.held = held, !.due = due,
                         !.refused = refused, !.ceiling = ceiling,
                         !.complete = (ceiling = meta)]
  BY DEF PollOf
<1>6. job \in Job /\ meta \in 1..Len(log) /\ Len(log) \in 1..MaxLog /\ cursor \in Nat
  BY Numbers DEF TypeOK, Now, Serial
<1>7. \A p \in Projects : serial[p] \in 0..meta /\ serial[p] = LastIn(log, p, meta)
  BY <1>1, <1>6, LastFacts DEF TypeOK
<1>8. \A p \in DOMAIN answer : p \in Projects /\ serial[p] > 0
  <2>1. ASSUME NEW p \in DOMAIN answer
        PROVE  p \in Projects /\ serial[p] > cursor
    BY <1>1
  <2> QED
    BY <1>6, <1>7, <2>1
<1>9. \A i \in 1..Len(todo) : ProjectOf[todo[i]] \in Projects
  BY <1>1, ProjectAssumption
<1>10. ASSUME NEW how
       PROVE  LET I == Incidents(Answered(answer, how), serial)
              IN  /\ I \subseteq Incident
                  /\ \A h \in I : h.serial = LastIn(log, h.project, meta) /\ h.serial > 0
  BY <1>6, <1>7, <1>8, Numbers DEF Incidents, Answered, Incident, Serial
<1>11. /\ held \subseteq Incident /\ refused \subseteq Incident /\ due \subseteq Incident
       /\ \A h \in held \cup refused : h.serial = LastIn(log, h.project, meta) /\ h.serial > 0
  BY <1>2, <1>10
<1>12. cut \subseteq Nat
  <2>1. \A h \in held : h.serial \in Nat
    BY <1>11, Numbers DEF Incident, Serial
  <2>2. ASSUME NEW x \in cut
        PROVE  \/ \E p \in Projects : x = serial[p]
               \/ \E h \in held : x = h.serial
    <3> DEFINE A == {serial[p] : p \in {q \in Projects : serial[q] > cursor} \ DOMAIN answer}
               B == {h.serial : h \in {h \in held : h.project \notin Released}}
               C == {serial[ProjectOf[todo[i]]] : i \in (MaxReleases + 1)..Len(todo)}
    <3>1. x \in A \/ x \in B \/ x \in C
      BY <1>3
    <3>2. CASE x \in A
      BY <3>2
    <3>3. CASE x \in B
      BY <3>3
    <3>4. CASE x \in C
      <4>1. PICK i \in (MaxReleases + 1)..Len(todo) : x = serial[ProjectOf[todo[i]]]
        BY <3>4
      <4>2. ProjectOf[todo[i]] \in Projects
        BY <1>1, <1>9, Numbers
      <4> QED
        BY <4>1, <4>2
    <3> QED
      BY <3>1, <3>2, <3>3, <3>4
  <2> QED
    BY <1>7, <2>1, <2>2
<1>13. ceiling \in 0..meta /\ \A x \in cut : x <= ceiling => ceiling = 0
  <2>1. meta \in 0..MaxLog
    BY <1>6, Numbers
  <2> QED
    BY <1>4, <1>12, <2>1, CeilingFacts
<1>14. /\ Taken(todo) \in Seq(Versions) /\ Len(Taken(todo)) <= MaxReleases
       /\ Len(Taken(todo)) <= Len(todo)
       /\ \A i \in 1..Len(Taken(todo)) : Taken(todo)[i] = todo[i]
       /\ \A i \in 1..Len(todo) : i <= MaxReleases => i \in 1..Len(Taken(todo))
  <2>1. Min({MaxReleases, Len(todo)}) = IF MaxReleases <= Len(todo) THEN MaxReleases
                                                                    ELSE Len(todo)
    BY <1>1, MinTwo, Numbers
  <2> DEFINE n == Min({MaxReleases, Len(todo)})
  <2>2. n \in 0..Len(todo) /\ n <= MaxReleases
    BY <1>1, <2>1, Numbers
  <2>3. \A i \in 1..Len(todo) : i <= MaxReleases => i <= n
    BY <1>1, <2>1, Numbers
  <2> HIDE DEF n
  <2>4. /\ SubSeq(todo, 1, n) \in Seq(Versions) /\ Len(SubSeq(todo, 1, n)) = n
        /\ \A i \in 1..n : SubSeq(todo, 1, n)[i] = todo[i]
    BY <1>1, <2>2
  <2>5. Taken(todo) = SubSeq(todo, 1, n)
    BY DEF Taken, n
  <2> QED
    BY <1>1, <2>2, <2>3, <2>4, <2>5, Numbers
<1>15. \A i \in 1..Len(todo) : row[todo[i]] # "done"
  <2>1. \A v \in ListedBy(answer, serial) : row[v] # "done"
    BY DEF ListedBy, NewVersions
  <2> QED
    BY <1>1, <2>1
<1> HIDE DEF refused, due
<1>16. /\ job'.todo = Taken(todo) /\ job'.held = held /\ job'.due = due
       /\ job'.refused = refused /\ job'.ceiling = ceiling
       /\ job'.complete = (ceiling = meta) /\ job'.begun = job.begun
       /\ job'.counted = job.counted
  BY <1>5, <1>6 DEF Job
<1>17. job' \in Job
  <2>1. ceiling \in Serial
    BY <1>6, <1>13, Numbers DEF Serial
  <2> QED
    BY <1>5, <1>6, <1>11, <1>14, <2>1 DEF Job
<1>18. ASSUME NEW v \in Versions, HasIn(log, v, meta),
              LastIn(log, ProjectOf[v], meta) > cursor,
              LastIn(log, ProjectOf[v], meta) <= ceiling
       PROVE  \/ ProjectOf[v] \in gone
              \/ row[v] = "done"
              \/ row[v] = "none" /\ FirstIn(log, v) <= floor
              \/ \E i \in 1..Len(Taken(todo)) : Taken(todo)[i] = v
              \/ \E h \in held : h.project = ProjectOf[v] /\ h.project \in Released
              \/ \E h \in refused : h.project = ProjectOf[v]
  <2> DEFINE p == ProjectOf[v]
  <2>1. p \in Projects /\ serial[p] = LastIn(log, p, meta) /\ serial[p] > cursor
    BY <1>7, <1>18, ProjectAssumption
  <2>2. serial[p] \notin cut
    BY <1>6, <1>7, <1>13, <1>18, <2>1
  <2>3. p \in DOMAIN answer
    BY <1>3, <2>1, <2>2
  <2>4. answer[p] \in {"fresh", "stale", "failed", "refused"}
    BY <1>1, <2>3 DEF Answers
  <2>5. SUFFICES ASSUME p \notin gone
                 PROVE  \/ row[v] = "done"
                        \/ row[v] = "none" /\ FirstIn(log, v) <= floor
                        \/ \E i \in 1..Len(Taken(todo)) : Taken(todo)[i] = v
                        \/ \E h \in held : h.project = p /\ h.project \in Released
                        \/ \E h \in refused : h.project = p
    OBVIOUS
  <2>6. \A how : answer[p] \in how =>
           \E h \in Incidents(Answered(answer, how), serial) :
              h.project = p /\ h.serial = serial[p]
    <3>1. \A how : answer[p] \in how => p \in Answered(answer, how)
      BY <2>3, <2>5 DEF Answered
    <3>2. [project |-> p, serial |-> serial[p]].project = p
      OBVIOUS
    <3>3. [project |-> p, serial |-> serial[p]].serial = serial[p]
      OBVIOUS
    <3>4. ASSUME NEW how, answer[p] \in how
          PROVE  [project |-> p, serial |-> serial[p]]
                     \in Incidents(Answered(answer, how), serial)
      BY <3>1, <3>4 DEF Incidents
    <3> HIDE DEF p
    <3> QED
      BY <3>2, <3>3, <3>4
  <2>7. CASE answer[p] = "fresh"
    <3>1. SUFFICES ASSUME row[v] # "done", ~(row[v] = "none" /\ FirstIn(log, v) <= floor)
                   PROVE  \E i \in 1..Len(Taken(todo)) : Taken(todo)[i] = v
      OBVIOUS
    <3>2. row[v] = "ingested" \/ (row[v] = "none" /\ FirstUpload(v) > floor)
      <4>1. HasIn(log, v, Len(log))
        BY <1>6, <1>18 DEF HasIn
      <4>2. FirstIn(log, v) \in Nat
        BY <4>1, FirstFacts DEF TypeOK
      <4>3. row[v] \in Stages /\ floor \in Int
        BY Numbers DEF TypeOK, Serial, NoFloor
      <4> QED
        BY <3>1, <4>2, <4>3, SameLog DEF Stages
    <3>3. Uploaded(v, Now)
      BY <1>6, <1>18 DEF HasIn, Uploaded, Now
    <3>4. v \in NewVersions(p, Now)
      BY <3>2, <3>3 DEF NewVersions
    <3>5. v \in ListedBy(answer, serial)
      BY <2>3, <2>5, <2>7, <3>4 DEF ListedBy, Answered
    <3>6. PICK i \in 1..Len(todo) : todo[i] = v
      BY <1>1, <3>5
    <3>7. i <= MaxReleases
      <4>1. CASE i \in (MaxReleases + 1)..Len(todo)
        BY <1>3, <2>2, <3>6, <4>1
      <4> QED
        BY <1>1, <4>1, Numbers
    <3> QED
      BY <1>14, <3>6, <3>7
  <2>8. CASE answer[p] \in {"stale", "failed"}
    <3>1. PICK h \in held : h.project = p /\ h.serial = serial[p]
      BY <1>2, <2>6, <2>8
    <3>2. h.project \in Released
      BY <1>3, <2>2, <3>1
    <3> QED
      BY <3>1, <3>2
  <2>9. CASE answer[p] = "refused"
    BY <2>6, <2>9 DEF refused
  <2> QED
    BY <2>4, <2>7, <2>8, <2>9
<1>19. due = {h \in held : AlertDue(h)}
  BY DEF due
<1>20. /\ \A i, j \in 1..Len(job'.todo) : job'.todo[i] = job'.todo[j] => i = j
       /\ \A i \in 1..Len(job'.todo) : row[job'.todo[i]] # "done"
  BY <1>1, <1>14, <1>15, <1>16
<1>21. ASSUME NEW v \in Versions,
              HasIn(log, v, meta) /\ LastIn(log, ProjectOf[v], meta) > cursor
                  /\ LastIn(log, ProjectOf[v], meta) <= job'.ceiling
       PROVE  \/ ProjectOf[v] \in gone
              \/ row[v] = "done"
              \/ row[v] = "none" /\ FirstIn(log, v) <= floor
              \/ \E i \in 1..Len(job'.todo) : job'.todo[i] = v
              \/ \E h \in job'.held : h.project = ProjectOf[v] /\ h.project \in Released
              \/ \E h \in job'.refused : h.project = ProjectOf[v]
  BY <1>16, <1>18, <1>21
<1>22. /\ Len(job'.todo) <= MaxReleases /\ job'.ceiling \in 0..meta
       /\ job'.complete => job'.ceiling = meta
       /\ job'.due = {h \in job'.held : AlertDue(h)}
  BY <1>13, <1>14, <1>16, <1>19
<1>23. \A h \in job'.held \cup job'.refused :
           h.serial = LastIn(log, h.project, meta) /\ h.serial > 0
  BY <1>11, <1>16
<1> QED
  BY <1>16, <1>17, <1>20, <1>21, <1>22, <1>23 DEF Polled

\* A project's row, pointed at an incident.
LEMMA NoteFacts ==
    ASSUME NEW s \in Star, NEW n \in Serial
    PROVE  LET t == NoteSerial(s, n)
           IN  /\ t \in Star /\ t.serial = n /\ t.verdict = s.verdict
               /\ t.label = IF s.serial = n THEN s.label ELSE 0
<1> DEFINE l == IF s.serial = n THEN s.label ELSE 0
           t == [s EXCEPT !.serial = n, !.label = l]
<1>1. NoteSerial(s, n) = t
  BY DEF NoteSerial
<1>2. l \in Serial
  BY Numbers DEF Star, Serial
<1> HIDE DEF l
<1>3. t \in Star /\ t.serial = n /\ t.verdict = s.verdict /\ t.label = l
  BY <1>2 DEF Star
<1> QED
  BY <1>1, <1>3 DEF l

\* Every commit of the ingest, every upload and every label keeps the types.
LEMMA TypeStep ==
    ASSUME TypeInv, [Next]_vars
    PROVE  TypeInv'
<1> USE Numbers
<1>1. TypeOK
  BY DEF TypeInv
<1>2. job \in Job /\ Rest \in Job /\ Rest.todo = <<>>
  BY <1>1 DEF TypeOK, Job, Rest, Serial
<1>3. Now \in Serial
  BY <1>1 DEF TypeOK, Now, Serial
<1>4. \A a \in Serial \cup {NoFloor}, b \in Serial \cup {NoFloor} :
          Max({a, b}) \in Serial \cup {NoFloor}
  BY MaxTwo DEF Serial, NoFloor
<1>5. \A b \in Int : b <= MaxLog => Max({0, b}) \in Serial
  BY MaxTwo DEF Serial
<1>6. CASE \E v \in Versions : Upload(v)
  <2>1. PICK v \in Versions : Upload(v)
    BY <1>6
  <2>2. log' \in Seq(Versions) /\ Len(log') \in 1..MaxLog
    BY <1>1, <2>1 DEF Upload, TypeOK
  <2> QED
    BY <1>1, <2>1, <2>2 DEF TypeInv, TypeOK, Upload, start
<1>7. CASE \E p \in Projects : Delete(p)
  BY <1>1, <1>7 DEF TypeInv, TypeOK, Delete, Upset, start
<1>8. CASE \E p \in Projects : Adjudicate(p)
  <2>1. star' \in [Projects -> Star]
    BY <1>1, <1>8 DEF TypeOK, Adjudicate, Star
  <2> QED
    BY <1>1, <1>8, <2>1 DEF TypeInv, TypeOK, Adjudicate, pypi, start
<1>9. CASE \E mode \in Starts : SeedCursor(mode)
  <2>1. PICK mode \in Starts : SeedCursor(mode)
    BY <1>9
  <2>2. PICK m \in 1..Now :
           /\ IndexRead(m)
           /\ mode = "recent" => m > Recent
           /\ cursor' = IF mode = "recent" THEN m - Recent ELSE m
    BY <2>1 DEF SeedCursor
  <2>3. /\ read' \in Serial /\ upsets' \in 0..MaxUpsets /\ UNCHANGED <<log, gone>>
    BY <1>1, <2>2, ReadType
  <2>4. cursor' \in Serial
    BY <1>3, <2>2 DEF Serial
  <2>5. job' \in Job /\ job'.todo = <<>>
    BY <1>2, <2>1 DEF SeedCursor, Job
  <2> QED
    BY <1>1, <1>3, <2>1, <2>3, <2>4, <2>5 DEF SeedCursor, TypeInv, TypeOK, Places
<1>10. CASE SeedFloor
  <2>1. floor' \in Serial
    BY <1>3, <1>5, <1>10 DEF SeedFloor, Serial
  <2>2. since' \in Serial \cup {NoFloor}
    BY <1>1, <1>4, <1>10, <2>1 DEF SeedFloor, TypeOK
  <2>3. pc' \in Places /\ pc' # "settle" /\ UNCHANGED job
    BY <1>10 DEF SeedFloor, Go, Places
  <2> QED
    BY <1>1, <1>10, <2>1, <2>2, <2>3 DEF SeedFloor, TypeInv, TypeOK, pypi
<1>11. CASE Begin
  <2>1. floor' \in Serial \cup {NoFloor}
    <3>1. updated - Margin \in Int /\ updated - Margin <= MaxLog
      BY <1>1 DEF TypeOK, Serial
    <3>2. Max({0, updated - Margin}) \in Serial
      BY <1>5, <3>1
    <3> QED
      BY <1>1, <1>11, <3>2 DEF Begin, FloorFound, TypeOK
  <2>2. since' \in Serial \cup {NoFloor}
    BY <1>1, <1>4, <1>11, <2>1 DEF Begin, TypeOK
  <2>3. job' \in Job /\ job'.todo = job.todo
    BY <1>2, <1>3, <1>11 DEF Begin, Job
  <2>4. backfill' \in BOOLEAN
    BY <1>11 DEF Begin
  <2> QED
    BY <1>1, <1>11, <2>1, <2>2, <2>3, <2>4 DEF Begin, TypeInv, TypeOK, pypi, Places
<1>12. CASE Poll
  <2>1. PICK meta \in 1..Now : \E serial, answer, todo, held, cut, ceiling :
              /\ IndexRead(meta)
              /\ PollOf(meta, serial, answer, todo, held, cut, ceiling)
    BY <1>1, <1>12, PollNamed
  <2>2. Polled(meta, job')
    BY <1>1, <2>1, PollFacts
  <2>3. /\ read' \in Serial /\ upsets' \in 0..MaxUpsets /\ UNCHANGED <<log, gone>>
    BY <1>1, <2>1, ReadType
  <2>4. job' \in Job /\ Len(job'.todo) <= MaxReleases
    BY <2>2 DEF Polled
  <2>5. pc' = "scan" /\ UNCHANGED <<cursor, start, floor, row, star, holds>>
    BY <1>12 DEF Poll
  <2> QED
    BY <1>1, <2>3, <2>4, <2>5 DEF TypeInv, TypeOK, start, Places
<1>13. CASE PollFails \/ Kill
  BY <1>1, <1>2, <1>13 DEF PollFails, Kill, Upset, TypeInv, TypeOK, pypi, start, Places
<1>14. CASE RecordRelease
  <2>1. row' \in [Versions -> Stages]
    BY <1>1, <1>14 DEF RecordRelease, TypeOK, Stages
  <2> QED
    BY <1>1, <1>14, <2>1 DEF RecordRelease, Go, TypeInv, TypeOK, Outside, pypi, Places
<1>15. CASE Settle
  <2>1. row' \in [Versions -> Stages]
    BY <1>1, <1>15 DEF Settle, TypeOK, Stages
  <2>2. job.todo \in Seq(Versions) /\ job.todo # <<>>
    BY <1>2, <1>15 DEF Settle, Job, TypeInv
  <2>3. job' \in Job /\ Len(job'.todo) <= Len(job.todo)
    <3>1. Tail(job.todo) \in Seq(Versions) /\ Len(Tail(job.todo)) <= Len(job.todo)
      BY <2>2
    <3>2. job' = [job EXCEPT !.todo = Tail(job.todo)]
      BY <1>15 DEF Settle
    <3>3. job'.todo = Tail(job.todo)
      BY <1>2, <3>2 DEF Job
    <3> QED
      BY <1>2, <3>1, <3>2, <3>3 DEF Job
  <2>4. Len(job'.todo) <= MaxReleases
    BY <1>1, <1>2, <2>3 DEF TypeOK, Job
  <2> QED
    BY <1>1, <1>15, <2>1, <2>3, <2>4 DEF Settle, TypeInv, TypeOK, Outside, pypi, Places
<1>16. CASE NoteIncident
  <2>1. Current \in job.due /\ Current \in Incident
    BY <1>2, <1>16, CurrentDue DEF NoteIncident, Job
  <2>2. star' \in [Projects -> Star]
    <3>1. \A s \in Star : NoteSerial(s, Current.serial) \in Star
      BY <2>1, NoteFacts DEF Incident
    <3>2. star' = [star EXCEPT ![Current.project] =
                                 NoteSerial(star[Current.project], Current.serial)]
      BY <1>16 DEF NoteIncident
    <3>3. Current.project \in Projects
      BY <2>1 DEF Incident
    <3> QED
      BY <1>1, <3>1, <3>2, <3>3 DEF TypeOK
  <2>3. job' \in Job /\ job'.todo = job.todo /\ pc' \in {"scan", "verdict"}
    BY <1>2, <1>16 DEF NoteIncident, Go, Scanned, Job
  <2> QED
    BY <1>1, <1>16, <2>2, <2>3 DEF NoteIncident, TypeInv, TypeOK, Outside, pypi, Places
<1>17. CASE RecordIncident
  <2>1. star' \in [Projects -> Star]
    BY <1>1, <1>17 DEF RecordIncident, TypeOK, Star
  <2>2. job' \in Job /\ job'.todo = job.todo
    BY <1>2, <1>17 DEF RecordIncident, Job
  <2> QED
    BY <1>1, <1>17, <2>1, <2>2 DEF RecordIncident, TypeInv, TypeOK, Outside, pypi, Places
<1>18. CASE SetHolds
  <2>1. ASSUME NEW h \in Incident
        PROVE  [serial |-> h.serial, ticks |-> Ticks(h)] \in Hold
    BY <1>1, MinTwo DEF Ticks, Hold, Incident, TypeOK
  <2>2. ASSUME NEW p \in Projects
        PROVE  CountHolds[p] \in Hold
    <3>1. CASE \E h \in job.held : h.project = p
      <4> DEFINE h == CHOOSE h \in job.held : h.project = p
      <4>1. h \in job.held
        BY <3>1
      <4>2. h \in Incident
        BY <1>2, <4>1 DEF Job
      <4>3. CountHolds[p] = [serial |-> h.serial, ticks |-> Ticks(h)]
        BY <3>1 DEF CountHolds
      <4> QED
        BY <2>1, <4>2, <4>3
    <3>2. CASE ~\E h \in job.held : h.project = p
      BY <3>2 DEF CountHolds, NoHold, Hold, Serial
    <3> QED
      BY <3>1, <3>2
  <2>3. holds' \in [Projects -> Hold]
    BY <1>18, <2>2 DEF SetHolds, CountHolds
  <2>4. job' \in Job /\ job'.todo = job.todo
    BY <1>2, <1>18 DEF SetHolds, Job
  <2> QED
    BY <1>1, <1>18, <2>3, <2>4 DEF SetHolds, Scanned, TypeInv, TypeOK, Outside, pypi, Places
<1>19. CASE SetFloor
  <2>1. floor' \in Serial \cup {NoFloor}
    <3>1. CASE ~job.complete
      BY <1>1, <1>19, <3>1 DEF SetFloor, FloorMoved, TypeOK
    <3>2. CASE job.complete
      <4> DEFINE S == {floor, 0, job.begun - Margin}
      <4>1. \E x \in S : \A y \in S : x >= y
        BY <1>1, <1>2 DEF TypeOK, Job, Serial, NoFloor
      <4>2. Max(S) \in S /\ \A y \in S : Max(S) >= y
        BY <4>1 DEF Max
      <4>3. Max(S) \in Serial
        BY <1>1, <1>2, <4>2 DEF TypeOK, Job, Serial, NoFloor
      <4> QED
        BY <1>19, <3>2, <4>3 DEF SetFloor, FloorMoved
    <3> QED
      BY <3>1, <3>2
  <2> QED
    BY <1>1, <1>19, <2>1 DEF SetFloor, Scanned, Go, TypeInv, TypeOK, Outside, pypi, Places
<1>20. CASE SetCursor
  <2>1. cursor' \in Serial
    BY <1>1, <1>2, <1>20, MaxTwo DEF SetCursor, TypeOK, Job, Serial
  <2> QED
    BY <1>1, <1>2, <1>20, <2>1 DEF SetCursor, TypeInv, TypeOK, Outside, pypi, Places
<1>21. CASE UNCHANGED vars
  BY <1>1, <1>21 DEF vars, TypeInv, TypeOK
<1> QED
  BY <1>6, <1>7, <1>8, <1>9, <1>10, <1>11, <1>12, <1>13, <1>14, <1>15, <1>16, <1>17, <1>18,
     <1>19, <1>20, <1>21 DEF Next, Tick

\* The rows, the meta values and the tick's variables have their types: the serials and floors
\* are among the entries of the log, no hold counts on past its limit, and a tick never has more
\* releases than its cap allows (changes_since's todo, _note_holds, set_cursor).
THEOREM IngestTypeCorrect == Spec => []TypeOK
<1>1. TypeInv => TypeOK
  BY DEF TypeInv
<1> QED
  BY InitType, TypeStep, <1>1, PTL DEF Spec

-----------------------------------------------------------------------------
(* What a step leaves as it was, or makes better.                          *)

\* Nothing that was taken up or told is taken back.
Onwards ==
    /\ UNCHANGED <<log, read, cursor, floor, since>>
    /\ gone \subseteq gone'
    /\ \A v \in Versions : /\ row[v] = "done" => row'[v] = "done"
                           /\ row[v] # "none" => row'[v] # "none"
    /\ \A p \in Projects, n \in Nat :
          NotedBy(star[p], upsets, n) => NotedBy(star'[p], upsets', n)

\* Nor what the tick has still to do.
Carried ==
    pc' \in Listed =>
        /\ pc \in Listed
        /\ job'.ceiling = job.ceiling /\ job'.held = job.held /\ job'.refused = job.refused
        /\ \A v \in Versions : InTodo(job, v) => InTodo(job', v) \/ row'[v] = "done"
        /\ \A h \in job.held \cup job.refused : Told(job, star, h) => Told(job', star', h)
        /\ ~job'.counted => ~job.counted /\ holds' = holds
        /\ job'.counted => job.counted \/ \A h \in job.refused : Told(job', star', h)

\* The first upload of a wanted release.
LEMMA WantedFirst ==
    ASSUME TypeOK, NEW v, Wanted(v)
    PROVE  HasIn(log, v, Len(log)) /\ FirstIn(log, v) \in 1..Len(log)
BY FirstFacts DEF TypeOK, Wanted

\* Such a step keeps what the cursor, the floor and the ceiling promise.
LEMMA StillKept ==
    ASSUME TypeOK, CursorKept, FloorKept, CeilingKept, IncidentsTold, Onwards, Carried
    PROVE  CursorKept' /\ FloorKept' /\ CeilingKept' /\ IncidentsTold'
<1>1. /\ log' = log /\ read' = read /\ cursor' = cursor /\ floor' = floor /\ since' = since
      /\ gone \subseteq gone'
      /\ \A v \in Versions : /\ row[v] = "done" => row'[v] = "done"
                             /\ row[v] # "none" => row'[v] # "none"
  BY DEF Onwards
<1>2. \A v \in Versions : Wanted(v)' <=> Wanted(v)
  BY <1>1 DEF Wanted
<1>3. ASSUME NEW v \in Versions, Wanted(v), Pardoned(v)
      PROVE  Pardoned(v)'
  <2>1. FirstIn(log, v) \in Nat /\ ProjectOf[v] \in Projects
    BY <1>3, WantedFirst, ProjectAssumption
  <2> QED
    BY <1>1, <1>3, <2>1 DEF Onwards, Pardoned
<1>4. CursorKept'
  BY <1>1, <1>2, <1>3 DEF CursorKept
<1>5. FloorKept'
  BY <1>1, <1>2, <1>3 DEF FloorKept
<1>6. CASE pc' \notin Listed
  BY <1>4, <1>5, <1>6 DEF CeilingKept, IncidentsTold
<1>7. CASE pc' \in Listed
  <2>1. /\ pc \in Listed /\ job'.ceiling = job.ceiling /\ job'.held = job.held
        /\ job'.refused = job.refused
        /\ \A v \in Versions : InTodo(job, v) => InTodo(job', v) \/ row'[v] = "done"
        /\ \A h \in job.held \cup job.refused : Told(job, star, h) => Told(job', star', h)
        /\ ~job'.counted => ~job.counted /\ holds' = holds
        /\ job'.counted => job.counted \/ \A h \in job.refused : Told(job', star', h)
    BY <1>7 DEF Carried
  <2>2. \A v : Covered(job, star, v) => Covered(job', star', v)
    BY <2>1 DEF Covered
  <2>3. CeilingKept'
    BY <1>1, <1>2, <1>3, <2>1, <2>2 DEF CeilingKept
  <2>4. ASSUME job'.counted  PROVE IncidentsTold'
    BY <2>1, <2>4 DEF IncidentsTold
  <2>5. ASSUME ~job'.counted  PROVE IncidentsTold'
    <3>1. \A h : Ticks(h)' = Ticks(h)
      BY <2>1, <2>5 DEF Ticks
    <3> QED
      BY <2>1, <2>5, <3>1 DEF IncidentsTold
  <2>6. IncidentsTold'
    BY <2>4, <2>5
  <2> QED
    BY <1>4, <1>5, <2>3, <2>6
<1> QED
  BY <1>6, <1>7

-----------------------------------------------------------------------------
(* PyPI and the person.                                                    *)

\* Where nothing of the tick's own changes, neither do these.
LEMMA TickStays ==
    ASSUME StarsSound, HoldsTold, TodoNew, IncidentsTold,
           UNCHANGED <<row, star, holds, pc, job>>, upsets' = 0 => upsets = 0
    PROVE  StarsSound' /\ HoldsTold' /\ TodoNew' /\ IncidentsTold'
<1>1. Current' = Current /\ \A h : Ticks(h)' = Ticks(h)
  BY DEF Current, Ticks
<1>2. StarsSound'
  BY <1>1 DEF StarsSound
<1>3. HoldsTold' /\ TodoNew'
  BY DEF HoldsTold, TodoNew
<1>4. IncidentsTold'
  BY <1>1 DEF IncidentsTold
<1> QED
  BY <1>2, <1>3, <1>4

\* The initial state.
LEMMA InitPass == Init => PassInv
<1> SUFFICES ASSUME Init
             PROVE  PassInv
  OBVIOUS
<1> USE Numbers
<1>1. TypeInv /\ TypeOK
  BY InitType DEF TypeInv
<1>2. /\ read = 0 /\ cursor = 0 /\ updated = 0 /\ floor = -1 /\ pc = "idle" /\ job = Rest
      /\ \A p \in Projects : star[p].serial = 0 /\ star[p].label = 0 /\ holds[p].ticks = 0
  BY DEF Init, NoFloor, NoHold
<1>3. /\ job.todo = <<>> /\ job.due = {} /\ ~job.counted /\ job.begun = 0
  BY <1>2 DEF Rest
<1>4. SerialsKnown
  <2>1. Len(log) \in Nat /\ 0 \in 0..Len(log)
    BY <1>1 DEF TypeOK
  <2>2. \A p \in Projects : LastIn(log, p, 0) \in 0..0
    BY <1>1, <2>1, LastFacts DEF TypeOK
  <2> QED
    BY <1>2, <1>3, <2>1, <2>2 DEF SerialsKnown
<1>5. StarsSound /\ HoldsTold /\ JobKnown /\ TodoNew /\ IncidentsTold /\ CeilingKept
  BY <1>2, <1>3 DEF StarsSound, HoldsTold, JobKnown, TodoNew, IncidentsTold, CeilingKept, Listed
<1>6. ASSUME NEW v \in Versions, Wanted(v)
      PROVE  ~(FirstIn(log, v) <= read) /\ ~(FirstIn(log, v) <= floor)
  BY <1>1, <1>2, <1>6, WantedFirst
<1> QED
  BY <1>1, <1>4, <1>5, <1>6 DEF PassInv, CursorKept, FloorKept

\* An upload is above the copy that was read and above the floor.
LEMMA UploadPasses ==
    ASSUME PassInv, NEW u \in Versions, Upload(u), TypeInv'
    PROVE  PassInv'
<1> USE Numbers
<1>1. TypeOK /\ SerialsKnown /\ log \in Seq(Versions)
  BY DEF PassInv, TypeInv, TypeOK
<1>2. /\ log' = Append(log, u)
      /\ UNCHANGED <<gone, read, cursor, updated, since, floor, row, star, holds, pc, job, upsets>>
  BY DEF Upload, start
<1>3. /\ Len(log') = Len(log) + 1
      /\ \A p, s : s \in 0..Len(log) => LastIn(log', p, s) = LastIn(log, p, s)
      /\ \A v : HasIn(log, v, Len(log)) =>
             HasIn(log', v, Len(log')) /\ FirstIn(log', v) = FirstIn(log, v)
      /\ \A v : HasIn(log', v, Len(log')) /\ ~HasIn(log, v, Len(log)) =>
             FirstIn(log', v) = Len(log) + 1
  <2>1. OneMore(log, log')
    BY <1>1, <1>2, Appended
  <2> QED
    BY <2>1 DEF OneMore
<1>4. /\ read \in 0..Len(log) /\ Len(log) \in Nat /\ floor \in Int /\ floor <= Len(log)
      /\ updated \in Nat /\ job.begun \in Nat /\ cursor \in Nat
  BY <1>1 DEF SerialsKnown, TypeOK, Serial, NoFloor, Job
<1>5. \A p : LastIn(log', p, read) = LastIn(log, p, read)
  BY <1>3, <1>4
<1>6. SerialsKnown'
  BY <1>1, <1>2, <1>3, <1>4, <1>5 DEF SerialsKnown
<1>7. StarsSound' /\ HoldsTold' /\ TodoNew' /\ IncidentsTold'
  BY <1>2, TickStays DEF PassInv
<1>8. JobKnown'
  <2>1. Current' = Current
    BY <1>2 DEF Current
  <2> QED
    BY <1>2, <1>5, <2>1 DEF PassInv, JobKnown
<1>9. ASSUME NEW v \in Versions, Wanted(v)', FirstIn(log', v) <= read \/ FirstIn(log', v) <= floor
      PROVE  /\ Wanted(v) /\ FirstIn(log', v) = FirstIn(log, v)
             /\ Pardoned(v) => Pardoned(v)'
  <2>1. HasIn(log, v, Len(log))
    BY <1>2, <1>3, <1>4, <1>9 DEF Wanted
  <2> QED
    BY <1>2, <1>3, <1>9, <2>1 DEF Wanted, Pardoned
<1>10. CursorKept'
  BY <1>2, <1>5, <1>9 DEF PassInv, CursorKept
<1>11. FloorKept'
  BY <1>2, <1>9 DEF PassInv, FloorKept
<1>12. CeilingKept'
  BY <1>2, <1>5, <1>9 DEF PassInv, CeilingKept
<1> QED
  BY <1>6, <1>7, <1>8, <1>10, <1>11, <1>12 DEF PassInv

\* A project is deleted, the index cannot be read, or the tick is killed.
LEMMA UpsetPasses ==
    ASSUME PassInv, (\E p \in Projects : Delete(p)) \/ PollFails \/ Kill, TypeInv'
    PROVE  PassInv'
<1> USE Numbers
<1>1. /\ UNCHANGED <<log, read, cursor, updated, since, floor, row, star, holds>>
      /\ gone \subseteq gone' /\ upsets' = upsets + 1
      /\ (UNCHANGED <<pc, job>>) \/ (pc' = "idle" /\ job' = Rest)
  BY DEF Delete, PollFails, Kill, Upset, pypi, start
<1>2. upsets \in Nat /\ TypeOK
  BY DEF PassInv, TypeInv, TypeOK
<1>3. Onwards
  BY <1>1, <1>2 DEF Onwards, NotedBy
<1>4. CASE UNCHANGED <<pc, job>>
  <2>1. Carried
    BY <1>1, <1>4 DEF Carried, Told, InTodo
  <2>2. StarsSound' /\ HoldsTold' /\ TodoNew'
    BY <1>1, <1>2, <1>4, TickStays DEF PassInv
  <2>3. Current' = Current
    BY <1>4 DEF Current
  <2>4. SerialsKnown' /\ JobKnown'
    BY <1>1, <1>4, <2>3 DEF PassInv, SerialsKnown, JobKnown
  <2> QED
    BY <1>2, <1>3, <2>1, <2>2, <2>4, StillKept DEF PassInv
<1>5. CASE pc' = "idle" /\ job' = Rest
  <2>1. pc' \notin Listed /\ Carried
    BY <1>5 DEF Listed, Carried
  <2>2. job'.todo = <<>> /\ job'.due = {} /\ ~job'.counted /\ job'.begun = 0
    BY <1>5 DEF Rest
  <2>3. SerialsKnown' /\ JobKnown' /\ TodoNew'
    <3>1. Len(log) \in Nat
      BY <1>2 DEF TypeOK
    <3> QED
      BY <1>1, <1>5, <2>1, <2>2, <3>1 DEF PassInv, SerialsKnown, JobKnown, TodoNew
  <2>4. StarsSound' /\ HoldsTold'
    BY <1>1, <1>2 DEF PassInv, StarsSound, HoldsTold
  <2> QED
    BY <1>2, <1>3, <2>1, <2>3, <2>4, StillKept DEF PassInv
<1> QED
  BY <1>1, <1>4, <1>5

\* A person's label is of the incident on record.
LEMMA LabelPasses ==
    ASSUME PassInv, NEW q \in Projects, Adjudicate(q), TypeInv'
    PROVE  PassInv'
<1> USE Numbers
<1>1. /\ UNCHANGED <<log, gone, read, cursor, updated, since, floor, row, holds, pc, job, upsets>>
      /\ star[q].verdict /\ star' = [star EXCEPT ![q].label = star[q].serial]
  BY DEF Adjudicate, pypi, start
<1>2. TypeOK
  BY DEF PassInv, TypeInv
<1>3. \A p \in Projects :
         /\ star'[p].serial = star[p].serial /\ star'[p].verdict = star[p].verdict
         /\ star'[p].label = star[p].label \/ star'[p].label = star[p].serial
  BY <1>1, <1>2 DEF TypeOK, Star
<1>4. Onwards
  BY <1>1, <1>3 DEF Onwards, NotedBy
<1>5. /\ \A h \in Incident : h.project \in Projects
      /\ job.held \subseteq Incident /\ job.refused \subseteq Incident
      /\ job.due \subseteq Incident
  BY <1>2 DEF TypeOK, Job, Incident
<1>6. Carried
  BY <1>1, <1>3, <1>5 DEF Carried, Told, InTodo
<1>7. Current' = Current
  BY <1>1 DEF Current
<1>8. StarsSound'
  BY <1>1, <1>3, <1>7 DEF PassInv, StarsSound
<1>9. HoldsTold' /\ TodoNew'
  BY <1>1, <1>3 DEF PassInv, HoldsTold, TodoNew
<1>10. SerialsKnown'
  BY <1>1, <1>3 DEF PassInv, SerialsKnown
<1>11. JobKnown'
  <2>1. pc = "verdict" => Current.project \in Projects
    BY <1>5, CurrentDue DEF PassInv, JobKnown
  <2> QED
    BY <1>1, <1>3, <1>7, <2>1 DEF PassInv, JobKnown
<1> QED
  BY <1>2, <1>4, <1>6, <1>8, <1>9, <1>10, <1>11, StillKept DEF PassInv

-----------------------------------------------------------------------------
(* The start of a tick.                                                    *)

\* A read serves no older copy than before.
LEMMA ReadFacts ==
    ASSUME TypeOK, SerialsKnown, NEW m \in 1..Now, IndexRead(m)
    PROVE  /\ read' = m /\ log' = log /\ gone' = gone
           /\ m \in 1..Len(log) /\ Len(log) \in 1..MaxLog
           /\ read \in 0..m /\ m >= Len(log) - Lag
           /\ upsets' = 0 => upsets = 0
           /\ \A p \in Projects : star[p].serial <= LastIn(log, p, m)
           /\ \A p \in Projects : LastIn(log, p, read) <= LastIn(log, p, m)
<1> USE Numbers
<1>1. /\ read' = m /\ log' = log /\ gone' = gone
      /\ m \in 1..Len(log) /\ Len(log) \in 1..MaxLog
      /\ read \in 0..Len(log) /\ upsets \in Nat
  BY DEF IndexRead, Now, TypeOK, SerialsKnown, Serial
<1>2. m >= Len(log) - Lag /\ m >= read /\ (upsets' = 0 => upsets = 0)
  BY <1>1 DEF IndexRead, Upset, Now
<1>3. \A p : LastIn(log, p, read) <= LastIn(log, p, m)
  <2>1. m \in read..Len(log) /\ log \in Seq(Versions)
    BY <1>1, <1>2 DEF TypeOK
  <2> QED
    BY <1>1, <2>1, LastGrows
<1>4. ASSUME NEW p \in Projects
      PROVE  star[p].serial <= LastIn(log, p, m)
  <2>1. /\ star[p].serial \in Nat /\ LastIn(log, p, read) \in Nat
        /\ LastIn(log, p, m) \in Nat
    BY <1>1, LastFacts DEF TypeOK, Star, Serial
  <2>2. star[p].serial <= LastIn(log, p, read)
    BY DEF SerialsKnown
  <2> QED
    BY <1>3, <2>1, <2>2
<1> QED
  BY <1>1, <1>2, <1>3, <1>4

\* Nothing is asked for that was uploaded up to the serial a fresh cursor is seeded with; the
\* floor of a database that has one already keeps its promise.
LEMMA SeedPasses ==
    ASSUME PassInv, NEW mode \in Starts, SeedCursor(mode), TypeInv'
    PROVE  PassInv'
<1> USE Numbers
<1>1. PICK m \in 1..Now :
         /\ IndexRead(m)
         /\ mode = "recent" => m > Recent
         /\ cursor' = IF mode = "recent" THEN m - Recent ELSE m
  BY DEF SeedCursor
<1>2. /\ cursor = 0 /\ updated' = Now /\ since' = cursor' /\ pc' = "seed"
      /\ job' = [Rest EXCEPT !.recent = (mode = "recent")]
      /\ UNCHANGED <<floor, backfill, row, star, holds>>
  BY DEF SeedCursor
<1>3. TypeOK /\ SerialsKnown
  BY DEF PassInv, TypeInv
<1>4. /\ read' = m /\ log' = log /\ gone' = gone
      /\ m \in 1..Len(log) /\ Len(log) \in 1..MaxLog
      /\ upsets' = 0 => upsets = 0
      /\ \A p \in Projects : star[p].serial <= LastIn(log, p, m)
  BY <1>1, <1>3, ReadFacts
<1>5. cursor' \in 1..m
  BY <1>1, <1>4
<1>6. /\ job'.todo = <<>> /\ job'.due = {} /\ ~job'.counted /\ job'.begun = 0
      /\ pc' \notin Listed
  BY <1>2 DEF Rest, Listed
<1>7. SerialsKnown'
  <2>1. updated' = Len(log) /\ floor' <= Len(log)
    BY <1>2, <1>3 DEF Now, SerialsKnown
  <2> QED
    BY <1>2, <1>4, <1>5, <1>6, <2>1 DEF SerialsKnown
<1>8. StarsSound' /\ HoldsTold' /\ JobKnown' /\ TodoNew' /\ IncidentsTold' /\ CeilingKept'
  <2>1. StarsSound'
    <3>1. pc # "verdict"
      BY DEF SeedCursor
    <3> QED
      BY <1>2, <1>4, <3>1 DEF PassInv, StarsSound
  <2>2. HoldsTold' /\ JobKnown' /\ TodoNew'
    BY <1>2, <1>6 DEF PassInv, HoldsTold, JobKnown, TodoNew
  <2>3. IncidentsTold' /\ CeilingKept'
    BY <1>6 DEF IncidentsTold, CeilingKept
  <2> QED
    BY <2>1, <2>2, <2>3
<1>9. CursorKept'
  <2>1. ASSUME NEW v \in Versions, Wanted(v)', FirstIn(log, v) <= m,
               LastIn(log, ProjectOf[v], m) <= cursor'
        PROVE  FALSE
    <3>1. HasIn(log, v, Len(log)) /\ FirstIn(log, v) > cursor'
      BY <1>2, <1>4, <1>5, <2>1 DEF Wanted
    <3>2. log \in Seq(Versions) /\ m \in 0..Len(log)
      BY <1>3, <1>4 DEF TypeOK
    <3>3. FirstIn(log, v) <= LastIn(log, ProjectOf[v], m) /\ FirstIn(log, v) \in Nat
      BY <2>1, <3>1, <3>2, FirstBeforeLast
    <3>4. LastIn(log, ProjectOf[v], m) \in Nat
      BY <3>2, LastFacts
    <3> QED
      BY <1>5, <2>1, <3>1, <3>3, <3>4
  <2> QED
    BY <1>4, <2>1 DEF CursorKept
<1>10. FloorKept'
  <2>1. ASSUME NEW v \in Versions, Wanted(v)'
        PROVE  Wanted(v) /\ (Pardoned(v) => Pardoned(v)')
    BY <1>2, <1>4, <2>1 DEF Wanted, Pardoned, NotedBy
  <2> QED
    BY <1>2, <1>4, <2>1 DEF PassInv, FloorKept
<1> QED
  BY <1>7, <1>8, <1>9, <1>10 DEF PassInv

\* A floor from the clock, and one for a cursor without: nothing is asked for that was
\* uploaded before it.
LEMMA FloorSetPasses ==
    ASSUME PassInv, SeedFloor \/ Begin, TypeInv'
    PROVE  PassInv'
<1> USE Numbers
<1>1. TypeOK /\ SerialsKnown /\ Len(log) \in Nat
  BY DEF PassInv, TypeInv, TypeOK
<1>2. /\ UNCHANGED <<log, gone, read, cursor, updated, row, star, holds, upsets>>
      /\ since' = Max({since, floor'})
      /\ pc \notin Listed /\ pc' \in {"idle", "begin", "poll"}
      /\ pc # "verdict"
      /\ job' = job \/ job' = [job EXCEPT !.begun = Now]
  BY DEF SeedFloor, Begin, Go, Listed, pypi
<1>3. pc' \notin Listed /\ pc' # "seed"
  BY <1>2 DEF Listed
<1>4. floor' \in Int /\ since' \in Int /\ since \in Int /\ since' >= since /\ since' >= floor'
  <2>1. floor' \in Int /\ since' \in Int /\ since \in Int
    BY <1>1 DEF TypeInv, TypeOK, Serial, NoFloor
  <2> QED
    BY <1>2, <2>1, MaxTwo
<1>5. floor' = floor \/ cursor > 0
  BY <1>1 DEF SeedFloor, Begin, FloorFound, SerialsKnown
<1>6. floor' <= Len(log)
  <2>1. \A b \in Int : b <= Len(log) => Max({0, b}) <= Len(log)
    BY <1>1, MaxTwo
  <2>2. updated - Margin \in Int /\ updated - Margin <= Len(log) /\ floor <= Len(log)
    BY <1>1 DEF SerialsKnown, TypeOK, Serial
  <2>3. Now - RecentFloor \in Int /\ Now - RecentFloor <= Len(log) /\ Now = Len(log)
    BY <1>1 DEF Now
  <2>4. Max({0, updated - Margin}) <= Len(log) /\ Max({0, Now - RecentFloor}) <= Len(log)
    BY <2>1, <2>2, <2>3
  <2> QED
    BY <1>1, <2>2, <2>3, <2>4 DEF SeedFloor, Begin, FloorFound
<1>7. /\ job'.todo = job.todo /\ job'.due = job.due /\ job'.counted = job.counted
      /\ job'.begun = job.begun \/ job'.begun = Len(log)
  BY <1>1, <1>2 DEF TypeOK, Job, Now
<1>8. SerialsKnown'
  BY <1>1, <1>2, <1>3, <1>6, <1>7 DEF SerialsKnown
<1>9. StarsSound' /\ HoldsTold' /\ JobKnown' /\ TodoNew' /\ IncidentsTold' /\ CeilingKept'
  <2>1. StarsSound' /\ HoldsTold'
    BY <1>2 DEF PassInv, StarsSound, HoldsTold
  <2>2. JobKnown' /\ TodoNew'
    <3>1. pc' # "verdict" /\ pc' # "cursor"
      BY <1>2
    <3> QED
      BY <1>2, <1>3, <1>7, <3>1 DEF PassInv, JobKnown, TodoNew
  <2>3. IncidentsTold' /\ CeilingKept'
    BY <1>3 DEF IncidentsTold, CeilingKept
  <2> QED
    BY <2>1, <2>2, <2>3
<1>10. ASSUME NEW v \in Versions, Wanted(v)'
       PROVE  /\ Wanted(v) /\ (Pardoned(v) => Pardoned(v)')
              /\ floor' = floor \/ ~(FirstIn(log, v) <= floor')
  <2>1. HasIn(log, v, Len(log)) /\ FirstIn(log, v) \in Nat
    BY <1>2, <1>1, <1>10, FirstFacts DEF TypeOK, Wanted
  <2> QED
    BY <1>2, <1>4, <1>5, <1>10, <2>1 DEF Wanted, Pardoned
<1>11. CursorKept'
  BY <1>2, <1>10 DEF PassInv, CursorKept
<1>12. FloorKept'
  BY <1>2, <1>10 DEF PassInv, FloorKept
<1> QED
  BY <1>8, <1>9, <1>11, <1>12 DEF PassInv

-----------------------------------------------------------------------------
(* The poll: what it lists, and what its window leaves out.                *)

\* A project released from its hold has its incident on record, or is told about.
LEMMA ReleasedTold ==
    ASSUME TypeOK, HoldsTold, NEW h \in Incident, Ticks(h) >= HoldLimit, ~AlertDue(h)
    PROVE  star[h.project].serial >= h.serial
<1> USE Numbers
<1>1. h.project \in Projects /\ holds[h.project].ticks \in 0..(HoldLimit + 1)
  BY DEF Incident, TypeOK, Hold
<1>2. Ticks(h) \in Int /\ (holds[h.project].ticks < HoldLimit => Ticks(h) <= HoldLimit)
  BY <1>1, MinTwo DEF Ticks
<1>3. holds[h.project].ticks >= HoldLimit /\ holds[h.project].serial = h.serial
  BY <1>1, <1>2 DEF AlertDue
<1> QED
  BY <1>1, <1>3 DEF HoldsTold

\* A released project is past the limit.
LEMMA ReleasedTicks ==
    ASSUME TypeOK, NEW h \in Incident, h.project \in Released
    PROVE  Ticks(h) >= HoldLimit
<1>1. holds[h.project].ticks \in HoldLimit..(HoldLimit + 1)
  BY Numbers DEF Released, TypeOK, Hold
<1> QED
  BY <1>1, MinTwo, Numbers DEF Ticks

\* A poll keeps the promises, and the ceiling has its own.
LEMMA PollPasses ==
    ASSUME PassInv, Poll, TypeInv'
    PROVE  PassInv'
<1> USE Numbers
<1>1. TypeOK /\ SerialsKnown /\ HoldsTold /\ log \in Seq(Versions) /\ cursor \in Nat
  BY DEF PassInv, TypeInv, TypeOK, Serial
<1>2. PICK m \in 1..Now : \E serial, answer, todo, held, cut, ceiling :
              /\ IndexRead(m)
              /\ PollOf(m, serial, answer, todo, held, cut, ceiling)
  BY <1>1, PollNamed
<1>3. Polled(m, job')
  BY <1>1, <1>2, PollFacts
<1>4. /\ read' = m /\ log' = log /\ gone' = gone
      /\ m \in 1..Len(log) /\ Len(log) \in 1..MaxLog
      /\ read \in 0..m /\ m >= Len(log) - Lag
      /\ upsets' = 0 => upsets = 0
      /\ \A p \in Projects : star[p].serial <= LastIn(log, p, m)
      /\ \A p \in Projects : LastIn(log, p, read) <= LastIn(log, p, m)
  BY <1>1, <1>2, ReadFacts
<1>5. /\ pc = "poll" /\ pc' = "scan"
      /\ UNCHANGED <<cursor, updated, backfill, since, floor, row, star, holds>>
  BY DEF Poll, start
<1>6. ~job.counted /\ job.begun <= Len(log) /\ cursor <= read
  BY <1>1, <1>5 DEF PassInv, JobKnown, SerialsKnown, Listed
<1>7. /\ job' \in Job /\ job'.begun = job.begun /\ job'.counted = job.counted
      /\ job'.ceiling \in 0..m
      /\ job'.complete => job'.ceiling = m
      /\ \A h \in job'.held \cup job'.refused :
            h.serial = LastIn(log, h.project, m) /\ h.serial > 0
      /\ job'.due = {h \in job'.held : AlertDue(h)}
  BY <1>3 DEF Polled
<1>8. SerialsKnown'
  BY <1>1, <1>4, <1>5, <1>6, <1>7 DEF SerialsKnown
<1>9. StarsSound' /\ HoldsTold'
  BY <1>1, <1>4, <1>5 DEF PassInv, StarsSound, HoldsTold
<1>10. JobKnown'
  <2>1. m >= job'.begun - Lag
    <3>1. job.begun \in Nat /\ m \in Nat /\ Len(log) \in Nat
      BY <1>1, <1>4 DEF TypeOK, Job, Serial
    <3> QED
      BY <1>4, <1>6, <1>7, <3>1
  <2>2. pc' \in Listed /\ pc' # "verdict" /\ pc' # "cursor"
    BY <1>5 DEF Listed
  <2>3. job'.ceiling <= m
    BY <1>4, <1>7
  <2>4. job'.due \subseteq job'.held
    BY <1>7
  <2>5. /\ job'.ceiling <= read'
        /\ job'.complete => job'.ceiling = read' /\ read' >= job'.begun - Lag
    BY <1>4, <1>7, <2>1, <2>3
  <2>6. \A h \in job'.held \cup job'.refused :
            h.serial > 0 /\ h.serial = LastIn(log', h.project, read')
    BY <1>4, <1>7
  <2> QED
    BY <2>2, <2>4, <2>5, <2>6 DEF JobKnown
<1>11. TodoNew'
  BY <1>3, <1>5 DEF Polled, TodoNew
<1>12. job'.held \subseteq Incident /\ job'.refused \subseteq Incident
  BY <1>7 DEF Job
<1>13. \A h \in job'.held : Ticks(h) >= HoldLimit => Told(job', star, h)
  BY <1>1, <1>7, <1>12, ReleasedTold DEF Told
<1>14. IncidentsTold'
  <2>1. \A h : Ticks(h)' = Ticks(h)
    BY <1>5 DEF Ticks
  <2> QED
    BY <1>5, <1>6, <1>7, <1>13, <2>1 DEF IncidentsTold
<1>15. ASSUME NEW v \in Versions, Wanted(v)
       PROVE  Pardoned(v) => Pardoned(v)'
  BY <1>4, <1>5 DEF Pardoned, NotedBy
<1>16. \A v : Wanted(v)' <=> Wanted(v)
  BY <1>4, <1>5 DEF Wanted
<1>17. FloorKept'
  BY <1>4, <1>5, <1>15, <1>16 DEF PassInv, FloorKept
<1>18. ASSUME NEW v \in Versions, Wanted(v), FirstIn(log, v) <= m
       PROVE  /\ HasIn(log, v, m) /\ FirstIn(log, v) \in Nat
              /\ FirstIn(log, v) <= LastIn(log, ProjectOf[v], m)
              /\ LastIn(log, ProjectOf[v], m) \in Nat
  <2>1. HasIn(log, v, Len(log)) /\ m \in 0..Len(log)
    BY <1>4, <1>18 DEF Wanted
  <2> QED
    BY <1>1, <1>18, <2>1, FirstBeforeLast, LastFacts
<1>19. ASSUME NEW v \in Versions, Wanted(v), FirstIn(log, v) <= m,
              LastIn(log, ProjectOf[v], m) <= cursor
       PROVE  row[v] = "done" \/ Pardoned(v)
  <2>1. FirstIn(log, v) <= read
    BY <1>1, <1>4, <1>6, <1>18, <1>19
  <2>2. LastIn(log, ProjectOf[v], read) <= cursor
    <3>1. read \in 0..Len(log) /\ ProjectOf[v] \in Projects
      BY <1>4, ProjectAssumption
    <3>2. LastIn(log, ProjectOf[v], read) \in Nat
      BY <1>1, <3>1, LastFacts
    <3> QED
      BY <1>1, <1>4, <1>18, <1>19, <3>1, <3>2
  <2> QED
    BY <1>19, <2>1, <2>2 DEF PassInv, CursorKept
<1>20. CursorKept'
  BY <1>4, <1>5, <1>15, <1>16, <1>19 DEF CursorKept
<1>21. ASSUME NEW v \in Versions, Wanted(v), FirstIn(log, v) <= m,
              LastIn(log, ProjectOf[v], m) <= job'.ceiling
       PROVE  row[v] = "done" \/ Pardoned(v) \/ InTodo(job', v) \/ Covered(job', star, v)
  <2>1. CASE LastIn(log, ProjectOf[v], m) <= cursor
    BY <1>19, <1>21, <2>1
  <2>2. CASE LastIn(log, ProjectOf[v], m) > cursor
    <3>1. \/ ProjectOf[v] \in gone
          \/ row[v] = "done"
          \/ row[v] = "none" /\ FirstIn(log, v) <= floor
          \/ \E i \in 1..Len(job'.todo) : job'.todo[i] = v
          \/ \E h \in job'.held : h.project = ProjectOf[v] /\ h.project \in Released
          \/ \E h \in job'.refused : h.project = ProjectOf[v]
      BY <1>3, <1>18, <1>21, <2>2 DEF Polled
    <3>2. row[v] = "none" /\ FirstIn(log, v) <= floor => Pardoned(v)
      BY <1>21 DEF PassInv, FloorKept
    <3>3. ASSUME NEW h \in job'.held, h.project = ProjectOf[v], h.project \in Released
          PROVE  Covered(job', star, v)
      <4>1. Ticks(h) >= HoldLimit
        BY <1>1, <1>12, <3>3, ReleasedTicks
      <4>2. Told(job', star, h)
        BY <1>13, <4>1
      <4> QED
        BY <3>3, <4>2 DEF Covered
    <3>4. ASSUME NEW h \in job'.refused, h.project = ProjectOf[v]
          PROVE  Covered(job', star, v)
      BY <1>6, <1>7, <3>4 DEF Covered
    <3> QED
      BY <3>1, <3>2, <3>3, <3>4 DEF Pardoned, InTodo
  <2>3. LastIn(log, ProjectOf[v], m) \in Nat
    BY <1>18, <1>21
  <2> QED
    BY <1>1, <2>1, <2>2, <2>3
<1>22. CeilingKept'
  BY <1>4, <1>5, <1>15, <1>16, <1>21 DEF CeilingKept
<1> QED
  BY <1>8, <1>9, <1>10, <1>11, <1>14, <1>17, <1>20, <1>22 DEF PassInv

-----------------------------------------------------------------------------
(* The releases.                                                           *)

\* What is left of a todo list.
LEMMA TailFacts ==
    ASSUME NEW todo \in Seq(Versions), todo # <<>>,
           \A i, j \in 1..Len(todo) : todo[i] = todo[j] => i = j
    PROVE  LET rest == Tail(todo)
           IN  /\ \A i, j \in 1..Len(rest) : rest[i] = rest[j] => i = j
               /\ \A i \in 1..Len(rest) : rest[i] # Head(todo)
               /\ \A i \in 1..Len(rest) : \E k \in 1..Len(todo) : rest[i] = todo[k]
               /\ \A i \in 1..Len(todo) :
                      todo[i] = Head(todo) \/ \E k \in 1..Len(rest) : rest[k] = todo[i]
<1> DEFINE rest == Tail(todo)
<1>1. /\ Len(todo) \in Nat \ {0} /\ Len(rest) = Len(todo) - 1 /\ Head(todo) = todo[1]
      /\ \A i \in 1..Len(rest) : rest[i] = todo[i + 1]
  OBVIOUS
<1> HIDE DEF rest
<1>2. \A i \in 1..Len(rest) : i + 1 \in 1..Len(todo) /\ i + 1 # 1
  BY <1>1
<1>3. \A i, j \in 1..Len(rest) : rest[i] = rest[j] => i = j
  BY <1>1, <1>2
<1>4. \A i \in 1..Len(rest) : rest[i] # Head(todo)
  <2>1. 1 \in 1..Len(todo)
    BY <1>1
  <2> QED
    BY <1>1, <1>2, <2>1
<1>5. ASSUME NEW i \in 1..Len(todo), todo[i] # Head(todo)
      PROVE  \E k \in 1..Len(rest) : rest[k] = todo[i]
  <2>1. i # 1 /\ i - 1 \in 1..Len(rest) /\ (i - 1) + 1 = i
    BY <1>1, <1>5
  <2> QED
    BY <1>1, <2>1
<1> QED
  BY <1>1, <1>2, <1>3, <1>4, <1>5 DEF rest

\* A release that is recorded or settled was not done before.
LEMMA ReleasePasses ==
    ASSUME PassInv, RecordRelease \/ Settle, TypeInv'
    PROVE  PassInv'
<1> USE Numbers
<1>1. TypeOK /\ job \in Job /\ job.todo \in Seq(Versions)
  BY DEF PassInv, TypeInv, TypeOK, Job
<1> DEFINE u == Head(job.todo)
<1>2. /\ UNCHANGED <<log, gone, read, cursor, updated, since, floor, star, holds, upsets>>
      /\ job.todo # <<>> /\ pc \in {"scan", "settle"} /\ pc' \in {"scan", "settle"}
      /\ pc \in Listed /\ pc' \in Listed
  BY DEF RecordRelease, Settle, PassInv, TypeInv, Go, Outside, pypi, Listed
<1>3. u \in Versions /\ row[u] # "done" /\ \E i \in 1..Len(job.todo) : job.todo[i] = u
  <2>1. 1 \in 1..Len(job.todo) /\ u = job.todo[1]
    BY <1>1, <1>2
  <2> QED
    BY <1>1, <2>1 DEF PassInv, TodoNew
<1> HIDE DEF u
<1>4. \/ /\ row' = [row EXCEPT ![u] = "ingested"] /\ UNCHANGED job
      \/ /\ row' = [row EXCEPT ![u] = "done"]
         /\ job' = [job EXCEPT !.todo = Tail(@)]
  BY DEF RecordRelease, Settle, Go, u
<1>5. \A v \in Versions : /\ v # u => row'[v] = row[v]
                          /\ row'[u] \in {"ingested", "done"}
  BY <1>1, <1>3, <1>4 DEF TypeOK
<1>6. /\ job'.begun = job.begun /\ job'.held = job.held /\ job'.refused = job.refused
      /\ job'.due = job.due /\ job'.counted = job.counted /\ job'.ceiling = job.ceiling
      /\ job'.complete = job.complete
  BY <1>1, <1>4 DEF Job
<1>7. \/ job'.todo = job.todo /\ row'[u] = "ingested"
      \/ job'.todo = Tail(job.todo) /\ row'[u] = "done"
  BY <1>1, <1>3, <1>4 DEF TypeOK, Job
<1>8. TodoNew' /\ \A v \in Versions : InTodo(job, v) => InTodo(job', v) \/ row'[v] = "done"
  <2>1. /\ \A i, j \in 1..Len(job.todo) : job.todo[i] = job.todo[j] => i = j
        /\ \A i \in 1..Len(job.todo) : row[job.todo[i]] # "done" /\ job.todo[i] \in Versions
    BY <1>1 DEF PassInv, TodoNew
  <2>2. CASE job'.todo = job.todo /\ row'[u] = "ingested"
    BY <1>5, <2>1, <2>2 DEF TodoNew, InTodo
  <2>3. CASE job'.todo = Tail(job.todo) /\ row'[u] = "done"
    <3>1. LET rest == job'.todo
          IN  /\ \A i, j \in 1..Len(rest) : rest[i] = rest[j] => i = j
              /\ \A i \in 1..Len(rest) : rest[i] # u
              /\ \A i \in 1..Len(rest) : \E k \in 1..Len(job.todo) : rest[i] = job.todo[k]
              /\ \A i \in 1..Len(job.todo) :
                     job.todo[i] = u \/ \E k \in 1..Len(rest) : rest[k] = job.todo[i]
      BY <1>1, <1>2, <2>1, <2>3, TailFacts DEF u
    <3> QED
      BY <1>5, <2>1, <2>3, <3>1 DEF TodoNew, InTodo
  <2> QED
    BY <1>7, <2>2, <2>3
<1>9. Onwards
  BY <1>2, <1>3, <1>5 DEF Onwards
<1>10. Carried
  BY <1>2, <1>6, <1>8 DEF Carried, Told
<1>11. SerialsKnown' /\ HoldsTold'
  BY <1>2, <1>6 DEF PassInv, SerialsKnown, HoldsTold
<1>12. StarsSound'
  <2>1. pc # "verdict"
    BY <1>2
  <2> QED
    BY <1>2, <2>1 DEF PassInv, StarsSound
<1>13. JobKnown'
  <2>1. pc' # "verdict" /\ pc' # "cursor"
    BY <1>2
  <2> QED
    BY <1>2, <1>6, <2>1 DEF PassInv, JobKnown
<1> QED
  BY <1>1, <1>8, <1>9, <1>10, <1>11, <1>12, <1>13, StillKept DEF PassInv

-----------------------------------------------------------------------------
(* The incidents.                                                          *)

\* An incident that is due is of the copy the tick read, and no earlier than the one on
\* record.
LEMMA DueFacts ==
    ASSUME PassInv, pc \in {"scan", "verdict"}, job.due # {}
    PROVE  /\ Current \in job.due /\ Current \in job.held \cup job.refused
           /\ Current.project \in Projects /\ Current.serial \in Serial \ {0}
           /\ Current.serial = LastIn(log, Current.project, read)
           /\ star[Current.project] \in Star
           /\ star[Current.project].serial <= Current.serial
<1>1. TypeOK /\ job.due \subseteq Incident
  BY DEF PassInv, TypeInv, TypeOK, Job
<1>2. Current \in job.due
  BY <1>1, CurrentDue
<1>3. Current.project \in Projects /\ Current.serial \in Serial
  BY <1>1, <1>2 DEF Incident
<1>4. /\ Current \in job.held \cup job.refused
      /\ Current.serial > 0 /\ Current.serial = LastIn(log, Current.project, read)
  BY <1>2 DEF PassInv, JobKnown, Listed
<1> QED
  BY <1>1, <1>2, <1>3, <1>4, Numbers DEF PassInv, SerialsKnown, TypeOK, Serial

\* The incident on record is pointed at the later one: what it covered stays covered.
LEMMA NotePasses ==
    ASSUME PassInv, NoteIncident, TypeInv'
    PROVE  PassInv'
<1> USE Numbers
<1> DEFINE h == Current
           p == h.project
           s == star[p]
<1>1. /\ UNCHANGED <<log, gone, read, cursor, updated, since, floor, row, holds, upsets>>
      /\ pc = "scan" /\ job.todo = <<>> /\ job.due # {}
      /\ star' = [star EXCEPT ![p] = NoteSerial(s, h.serial)]
  BY DEF NoteIncident, Scanned, Outside, pypi
<1>2. /\ h \in job.due /\ h \in job.held \cup job.refused /\ p \in Projects
      /\ h.serial \in Serial \ {0} /\ h.serial = LastIn(log, p, read)
      /\ s \in Star /\ s.serial <= h.serial
  BY <1>1, DueFacts
<1>3. TypeOK
  BY DEF PassInv, TypeInv
<1>4. /\ star'[p].serial = h.serial /\ star'[p].verdict = s.verdict
      /\ star'[p].label = IF s.serial = h.serial THEN s.label ELSE 0
      /\ \A q \in Projects : q # p => star'[q] = star[q]
  <2>1. star'[p] = NoteSerial(s, h.serial) /\ \A q \in Projects : q # p => star'[q] = star[q]
    BY <1>1, <1>2, <1>3 DEF TypeOK
  <2> QED
    BY <1>2, <2>1, NoteFacts
<1>5. \/ /\ Waits(s, h.serial) /\ pc' = pc
         /\ job' = [job EXCEPT !.due = @ \ {h}]
      \/ ~Waits(s, h.serial) /\ pc' = "verdict" /\ job' = job
  BY DEF NoteIncident, Go
<1> HIDE DEF h, p, s
<1>6. /\ job'.todo = job.todo /\ job'.begun = job.begun /\ job'.held = job.held
      /\ job'.refused = job.refused /\ job'.counted = job.counted
      /\ job'.ceiling = job.ceiling /\ job'.complete = job.complete
      /\ job'.due = job.due \/ job'.due = job.due \ {h}
  BY <1>3, <1>5 DEF TypeOK, Job
<1>7. pc \in Listed /\ pc' \in Listed /\ pc' \in {"scan", "verdict"}
  BY <1>1, <1>5 DEF Listed
<1>8. /\ s.serial \in Nat /\ h.serial \in Nat /\ s = star[p]
      /\ \A q \in Projects : star[q].serial \in Nat /\ star'[q].serial \in Nat
                             /\ star[q].serial <= star'[q].serial
  <2>1. \A q \in Projects : star[q].serial \in Nat
    BY <1>3 DEF TypeOK, Star, Serial
  <2>2. s = star[p] /\ h.serial \in Nat
    BY <1>2 DEF s, Serial
  <2> QED
    BY <1>2, <1>4, <2>1, <2>2
<1>9. s.label \in {0, s.serial}
  BY <1>2, <1>8 DEF PassInv, StarsSound
<1>10. Onwards
  <2>1. ASSUME NEW n \in Nat, NotedBy(s, upsets, n)
        PROVE  NotedBy(star'[p], upsets, n)
    BY <1>2, <1>4, <1>8, <2>1 DEF NotedBy
  <2>2. ASSUME NEW q \in Projects, NEW n \in Nat, NotedBy(star[q], upsets, n)
        PROVE  NotedBy(star'[q], upsets, n)
    BY <1>4, <1>8, <2>1, <2>2
  <2> QED
    BY <1>1, <2>2 DEF Onwards
<1>11. /\ job.held \subseteq Incident /\ job.refused \subseteq Incident
       /\ job.due \subseteq Incident
       /\ \A g \in Incident : g.project \in Projects /\ g.serial \in Nat
  BY <1>3 DEF TypeOK, Job, Incident, Serial
<1>12. ASSUME NEW g \in job.held \cup job.refused, Told(job, star, g)
       PROVE  Told(job', star', g)
  <2>1. CASE g = h
    <3>1. g.project = p
      BY <2>1 DEF p
    <3> QED
      BY <1>4, <1>8, <2>1, <3>1 DEF Told
  <2>2. CASE g # h
    <3>1. g.project \in Projects /\ g.serial \in Nat
      BY <1>11
    <3>2. g \in job.due => g \in job'.due
      BY <1>6, <2>2
    <3> QED
      BY <1>8, <1>12, <3>1, <3>2 DEF Told
  <2> QED
    BY <2>1, <2>2
<1>13. Carried
  BY <1>1, <1>6, <1>7, <1>12 DEF Carried, InTodo
<1>14. SerialsKnown'
  <2>1. \A q \in Projects : star'[q].serial <= LastIn(log, q, read)
    BY <1>2, <1>4, <1>8 DEF PassInv, SerialsKnown
  <2> QED
    BY <1>1, <1>6, <1>7, <2>1 DEF PassInv, SerialsKnown, Listed
<1>15. pc' = "verdict" => Current' = h
  BY <1>5, <1>1 DEF Current, h
<1>16. StarsSound'
  <2>1. \A q \in Projects : star'[q].label \in {0, star'[q].serial}
    BY <1>4, <1>9 DEF PassInv, StarsSound
  <2>2. ASSUME NEW q \in Projects, upsets = 0, star'[q].serial # 0
        PROVE  star'[q].verdict \/ (pc' = "verdict" /\ h.project = q)
    <3>1. CASE q # p
      BY <1>1, <1>4, <2>2, <3>1 DEF PassInv, StarsSound
    <3>2. CASE q = p /\ s.serial # 0
      BY <1>1, <1>4, <1>8, <2>2, <3>2 DEF PassInv, StarsSound
    <3>3. CASE q = p /\ s.serial = 0
      BY <1>5, <3>3 DEF Waits, p
    <3> QED
      BY <3>1, <3>2, <3>3
  <2> QED
    BY <1>1, <1>15, <2>1, <2>2 DEF StarsSound
<1>17. HoldsTold'
  <2>1. \A q \in Projects : holds[q].serial \in Nat
    BY <1>3 DEF TypeOK, Hold, Serial
  <2> QED
    BY <1>1, <1>8, <2>1 DEF PassInv, HoldsTold
<1>18. JobKnown'
  <2>1. job'.due \subseteq job'.held \cup job'.refused
    BY <1>6, <1>7 DEF PassInv, JobKnown
  <2>2. pc' = "verdict" => /\ job'.todo = <<>> /\ job'.due # {}
                           /\ star'[Current'.project].serial = Current'.serial
    <3>1. pc' = "verdict" => job' = job
      BY <1>1, <1>5
    <3> QED
      BY <1>1, <1>4, <1>15, <3>1 DEF p
  <2> QED
    BY <1>1, <1>6, <1>7, <2>1, <2>2 DEF PassInv, JobKnown
<1>19. TodoNew'
  BY <1>1, <1>6 DEF TodoNew
<1> QED
  BY <1>3, <1>10, <1>13, <1>14, <1>16, <1>17, <1>18, <1>19, StillKept DEF PassInv

\* The verdict of the incident on record: it is told.
LEMMA RecordPasses ==
    ASSUME PassInv, RecordIncident, TypeInv'
    PROVE  PassInv'
<1> USE Numbers
<1> DEFINE h == Current
           p == h.project
<1>1. /\ UNCHANGED <<log, gone, read, cursor, updated, since, floor, row, holds, upsets>>
      /\ pc = "verdict" /\ pc' = "scan"
      /\ star' = [star EXCEPT ![p].verdict = TRUE]
      /\ job' = [job EXCEPT !.due = @ \ {h}]
  BY DEF RecordIncident, Outside, pypi
<1>2. TypeOK
  BY DEF PassInv, TypeInv
<1>3. job.todo = <<>> /\ job.due # {} /\ star[p].serial = h.serial
  BY <1>1 DEF PassInv, JobKnown
<1>4. h \in job.due /\ p \in Projects /\ h.serial \in Nat
  BY <1>1, <1>3, DueFacts DEF Serial
<1>5. /\ star'[p].serial = star[p].serial /\ star'[p].verdict /\ star'[p].label = star[p].label
      /\ \A q \in Projects : q # p => star'[q] = star[q]
  BY <1>1, <1>2, <1>4 DEF TypeOK, Star
<1>6. /\ job'.todo = job.todo /\ job'.begun = job.begun /\ job'.held = job.held
      /\ job'.refused = job.refused /\ job'.counted = job.counted
      /\ job'.ceiling = job.ceiling /\ job'.complete = job.complete
      /\ job'.due = job.due \ {h}
  BY <1>1, <1>2 DEF TypeOK, Job
<1>7. \A q \in Projects : /\ star'[q].serial = star[q].serial /\ star'[q].label = star[q].label
                          /\ star[q].verdict => star'[q].verdict
  BY <1>5
<1>8. pc \in Listed /\ pc' \in Listed
  BY <1>1 DEF Listed
<1>9. \A g \in job.held \cup job.refused : g.project \in Projects
  BY <1>2 DEF TypeOK, Job, Incident
<1>10. StarsSound'
  <2>1. ASSUME NEW q \in Projects, upsets = 0, star'[q].serial # 0
        PROVE  star'[q].verdict
    <3>1. star[q].verdict \/ q = p
      BY <1>7, <2>1 DEF PassInv, StarsSound
    <3> QED
      BY <1>5, <1>7, <2>1, <3>1
  <2> QED
    BY <1>1, <1>7, <2>1 DEF PassInv, StarsSound
<1>11. \A g \in job.held \cup job.refused : Told(job, star, g) => Told(job', star', g)
  <2>1. ASSUME NEW g \in job.held \cup job.refused, Told(job, star, g)
        PROVE  Told(job', star', g)
    <3>1. CASE g = h
      BY <1>3, <1>4, <1>5, <3>1 DEF Told
    <3>2. CASE g # h
      BY <1>6, <1>7, <1>9, <2>1, <3>2 DEF Told
    <3> QED
      BY <3>1, <3>2
  <2> QED
    BY <2>1
<1> HIDE DEF h, p
<1>12. Onwards
  BY <1>1, <1>7 DEF Onwards, NotedBy
<1>13. Carried
  BY <1>1, <1>6, <1>8, <1>11 DEF Carried, InTodo
<1>14. SerialsKnown' /\ HoldsTold' /\ TodoNew'
  BY <1>1, <1>6, <1>7 DEF PassInv, SerialsKnown, HoldsTold, TodoNew
<1>15. JobKnown'
  <2>1. job'.due \subseteq job'.held \cup job'.refused
    BY <1>6, <1>8 DEF PassInv, JobKnown
  <2>2. pc' # "verdict" /\ pc' # "cursor"
    BY <1>1
  <2> QED
    BY <1>1, <1>6, <1>8, <2>1, <2>2 DEF PassInv, JobKnown
<1> QED
  BY <1>2, <1>10, <1>12, <1>13, <1>14, <1>15, StillKept DEF PassInv

\* The holds are counted once every held project that is due is told about.
LEMMA HoldsPass ==
    ASSUME PassInv, SetHolds, TypeInv'
    PROVE  PassInv'
<1> USE Numbers
<1>1. /\ UNCHANGED <<log, gone, read, cursor, updated, since, floor, row, star, upsets>>
      /\ pc = "scan" /\ pc' = pc /\ job.todo = <<>> /\ job.due = {} /\ ~job.counted
      /\ holds' = CountHolds
      /\ job' = [job EXCEPT !.due = job.refused, !.counted = TRUE]
  BY DEF SetHolds, Scanned, Outside, pypi
<1>2. TypeOK
  BY DEF PassInv, TypeInv
<1>3. /\ job'.todo = job.todo /\ job'.begun = job.begun /\ job'.held = job.held
      /\ job'.refused = job.refused /\ job'.counted
      /\ job'.ceiling = job.ceiling /\ job'.complete = job.complete
      /\ job'.due = job.refused
  BY <1>1, <1>2 DEF TypeOK, Job
<1>4. pc \in Listed /\ pc' \in Listed
  BY <1>1 DEF Listed
<1>5. \A h \in job.held : Ticks(h) >= HoldLimit => star[h.project].serial >= h.serial
  BY <1>1, <1>4 DEF PassInv, IncidentsTold, Told
<1>6. ASSUME NEW p \in Projects, CountHolds[p].ticks >= HoldLimit
      PROVE  star[p].serial >= CountHolds[p].serial
  <2>1. CASE \E h \in job.held : h.project = p
    <3> DEFINE h == CHOOSE h \in job.held : h.project = p
    <3>1. h \in job.held /\ h.project = p
      BY <2>1
    <3>2. CountHolds[p] = [serial |-> h.serial, ticks |-> Ticks(h)]
      BY <2>1 DEF CountHolds
    <3> HIDE DEF h
    <3>3. Ticks(h) >= HoldLimit /\ CountHolds[p].serial = h.serial
      BY <1>6, <3>2
    <3> QED
      BY <1>5, <3>1, <3>3
  <2>2. CASE ~\E h \in job.held : h.project = p
    BY <1>6, <2>2 DEF CountHolds, NoHold
  <2> QED
    BY <2>1, <2>2
<1>7. HoldsTold'
  BY <1>1, <1>6 DEF HoldsTold
<1>8. Onwards
  BY <1>1 DEF Onwards
<1>9. Carried
  BY <1>1, <1>3, <1>4 DEF Carried, InTodo, Told
<1>10. SerialsKnown' /\ TodoNew'
  BY <1>1, <1>3 DEF PassInv, SerialsKnown, TodoNew
<1>11. StarsSound'
  BY <1>1 DEF PassInv, StarsSound
<1>12. JobKnown'
  <2>1. pc' # "verdict" /\ pc' # "cursor"
    BY <1>1
  <2> QED
    BY <1>1, <1>3, <1>4, <2>1 DEF PassInv, JobKnown
<1> QED
  BY <1>2, <1>7, <1>8, <1>9, <1>10, <1>11, <1>12, StillKept DEF PassInv

-----------------------------------------------------------------------------
(* The end of the tick.                                                    *)

\* Once every incident is told about, what the window covers is done or pardoned.
LEMMA WindowClosed ==
    ASSUME PassInv, pc \in {"scan", "cursor"}, job.todo = <<>>, job.due = {}, job.counted,
           NEW v \in Versions, Wanted(v), FirstIn(log, v) <= read,
           LastIn(log, ProjectOf[v], read) <= job.ceiling
    PROVE  row[v] = "done" \/ Pardoned(v)
<1> USE Numbers
<1>1. TypeOK /\ pc \in Listed /\ pc # "verdict"
  BY DEF PassInv, TypeInv, Listed
<1>2. row[v] = "done" \/ Pardoned(v) \/ InTodo(job, v) \/ Covered(job, star, v)
  BY <1>1 DEF PassInv, CeilingKept
<1>3. ~InTodo(job, v)
  BY DEF InTodo
<1>4. ASSUME Covered(job, star, v)
      PROVE  Pardoned(v)
  <2> DEFINE p == ProjectOf[v]
             s == star[p]
  <2>1. PICK h \in job.held \cup job.refused : h.project = p /\ s.serial >= h.serial
    BY <1>4 DEF Covered, Told
  <2>2. h.serial = LastIn(log, p, read)
    BY <1>1, <2>1 DEF PassInv, JobKnown
  <2>3. HasIn(log, v, Len(log)) /\ read \in 0..Len(log) /\ log \in Seq(Versions)
    BY <1>1 DEF Wanted, PassInv, SerialsKnown, TypeOK, Serial
  <2>4. FirstIn(log, v) \in 1..read /\ FirstIn(log, v) <= LastIn(log, p, read)
    BY <2>3, FirstBeforeLast
  <2>5. LastIn(log, p, read) \in Nat
    BY <2>3, LastFacts
  <2>6. p \in Projects /\ s.serial \in Nat
    BY <1>1, ProjectAssumption DEF TypeOK, Star, Serial
  <2>7. s.serial >= FirstIn(log, v) /\ s.serial # 0
    <3> HIDE DEF p, s
    <3> QED
      BY <2>1, <2>2, <2>4, <2>5, <2>6
  <2>8. s.label \in {0, s.serial} /\ (upsets = 0 => s.verdict)
    BY <1>1, <2>6, <2>7 DEF PassInv, StarsSound
  <2> QED
    BY <2>7, <2>8 DEF Pardoned, NotedBy
<1> QED
  BY <1>2, <1>3, <1>4

\* The floor trails the start of the tick by more than the index lags.
LEMMA FloorPasses ==
    ASSUME Lag <= Margin, PassInv, SetFloor, TypeInv'
    PROVE  PassInv'
<1> USE Numbers
<1>1. /\ UNCHANGED <<log, gone, read, cursor, updated, since, row, star, holds, upsets, job>>
      /\ pc = "scan" /\ pc' = "cursor" /\ job.todo = <<>> /\ job.due = {} /\ job.counted
      /\ floor' = FloorMoved
  BY DEF SetFloor, Scanned, Go, Outside, pypi
<1>2. TypeOK /\ job \in Job /\ SerialsKnown /\ log \in Seq(Versions)
  BY DEF PassInv, TypeInv, TypeOK
<1>3. pc \in Listed /\ pc' \in Listed
  BY <1>1 DEF Listed
<1>4. /\ floor \in Int /\ floor <= Len(log) /\ job.begun \in Nat /\ job.begun <= Len(log)
      /\ read \in 0..Len(log) /\ Len(log) \in Nat
  BY <1>2 DEF TypeOK, Serial, NoFloor, Job, SerialsKnown
<1>5. floor' = floor \/ floor' = 0 \/ (job.complete /\ floor' = job.begun - Margin)
  <2>1. CASE ~job.complete
    BY <1>1, <2>1 DEF FloorMoved
  <2>2. CASE job.complete
    <3> DEFINE S == {floor, 0, job.begun - Margin}
    <3>1. \E x \in S : \A y \in S : x >= y
      BY <1>4
    <3>2. Max(S) \in S
      BY <3>1 DEF Max
    <3>3. floor' = Max(S)
      BY <1>1, <2>2 DEF FloorMoved
    <3> QED
      BY <2>2, <3>2, <3>3
  <2> QED
    BY <2>1, <2>2
<1>6. floor' <= Len(log)
  BY <1>4, <1>5
<1>7. SerialsKnown'
  BY <1>1, <1>2, <1>6 DEF SerialsKnown
<1>8. \A v : (Wanted(v)' <=> Wanted(v)) /\ (Pardoned(v)' <=> Pardoned(v))
  BY <1>1 DEF Wanted, Pardoned
<1>9. ASSUME NEW v \in Versions, Wanted(v), FirstIn(log, v) <= floor'
      PROVE  row[v] # "none" \/ Pardoned(v)
  <2>1. HasIn(log, v, Len(log)) /\ FirstIn(log, v) \in 1..Len(log)
    BY <1>2, <1>9, WantedFirst
  <2>2. CASE floor' = floor
    BY <1>9, <2>2 DEF PassInv, FloorKept
  <2>3. CASE floor' = 0
    BY <1>9, <2>1, <2>3
  <2>4. CASE job.complete /\ floor' = job.begun - Margin
    <3>1. job.ceiling = read /\ read >= job.begun - Lag
      BY <1>3, <2>4 DEF PassInv, JobKnown
    <3>2. FirstIn(log, v) <= read
      BY <1>4, <1>9, <2>1, <2>4, <3>1
    <3>3. LastIn(log, ProjectOf[v], read) <= job.ceiling
      BY <1>2, <1>4, <3>1, LastFacts
    <3> QED
      BY <1>1, <1>9, <3>2, <3>3, WindowClosed
  <2> QED
    BY <1>5, <2>2, <2>3, <2>4
<1>10. FloorKept'
  BY <1>1, <1>8, <1>9 DEF FloorKept
<1>11. CursorKept'
  BY <1>1, <1>8 DEF PassInv, CursorKept
<1>12. CeilingKept'
  BY <1>1, <1>3, <1>8 DEF PassInv, CeilingKept
<1>13. StarsSound' /\ HoldsTold' /\ TodoNew'
  BY <1>1 DEF PassInv, StarsSound, HoldsTold, TodoNew
<1>14. JobKnown' /\ IncidentsTold'
  BY <1>1, <1>3 DEF PassInv, JobKnown, IncidentsTold
<1> QED
  BY <1>7, <1>10, <1>11, <1>12, <1>13, <1>14 DEF PassInv

\* The cursor moves to the ceiling.
LEMMA CursorPasses ==
    ASSUME PassInv, SetCursor, TypeInv'
    PROVE  PassInv'
<1> USE Numbers
<1>1. /\ UNCHANGED <<log, gone, read, updated, since, floor, row, star, holds, upsets>>
      /\ pc = "cursor" /\ pc' = "idle" /\ job' = Rest
      /\ cursor' = Max({cursor, job.ceiling})
  BY DEF SetCursor, Outside, pypi
<1>2. TypeOK /\ job \in Job /\ SerialsKnown /\ log \in Seq(Versions)
  BY DEF PassInv, TypeInv, TypeOK
<1>3. /\ job.todo = <<>> /\ job.due = {} /\ job.counted /\ job.ceiling <= read
      /\ pc' \notin Listed
  BY <1>1 DEF PassInv, JobKnown, Listed
<1>4. /\ cursor \in Nat /\ job.ceiling \in Nat /\ read \in 0..Len(log) /\ Len(log) \in Nat
      /\ cursor <= read
  BY <1>2 DEF TypeOK, Serial, Job, SerialsKnown
<1>5. /\ cursor' = cursor \/ cursor' = job.ceiling
      /\ cursor' \in Nat /\ cursor' >= cursor /\ cursor' <= read
  <2>1. Max({cursor, job.ceiling}) = IF cursor >= job.ceiling THEN cursor ELSE job.ceiling
    BY <1>4, MaxTwo
  <2> QED
    BY <1>1, <1>3, <1>4, <2>1
<1>6. job'.todo = <<>> /\ job'.due = {} /\ ~job'.counted /\ job'.begun = 0
  BY <1>1 DEF Rest
<1>7. SerialsKnown'
  BY <1>1, <1>2, <1>3, <1>4, <1>5, <1>6 DEF SerialsKnown
<1>8. StarsSound' /\ HoldsTold' /\ TodoNew' /\ JobKnown' /\ IncidentsTold' /\ CeilingKept'
  <2>1. StarsSound' /\ HoldsTold'
    BY <1>1 DEF PassInv, StarsSound, HoldsTold
  <2>2. TodoNew' /\ JobKnown'
    BY <1>1, <1>3, <1>6 DEF TodoNew, JobKnown
  <2>3. IncidentsTold' /\ CeilingKept'
    BY <1>3 DEF IncidentsTold, CeilingKept
  <2> QED
    BY <2>1, <2>2, <2>3
<1>9. ASSUME NEW v \in Versions, Wanted(v)'
      PROVE  Wanted(v) /\ (Pardoned(v)' <=> Pardoned(v))
  BY <1>1, <1>4, <1>5, <1>9 DEF Wanted, Pardoned
<1>10. ASSUME NEW v \in Versions, Wanted(v), FirstIn(log, v) <= read,
              LastIn(log, ProjectOf[v], read) <= cursor'
       PROVE  row[v] = "done" \/ Pardoned(v)
  <2>1. CASE cursor' = cursor
    BY <1>10, <2>1 DEF PassInv, CursorKept
  <2>2. CASE cursor' = job.ceiling
    BY <1>1, <1>3, <1>10, <2>2, WindowClosed
  <2> QED
    BY <1>5, <2>1, <2>2
<1>11. CursorKept' /\ FloorKept'
  BY <1>1, <1>9, <1>10 DEF PassInv, CursorKept, FloorKept
<1> QED
  BY <1>7, <1>8, <1>11 DEF PassInv

-----------------------------------------------------------------------------
(* Every step, and the theorem.                                            *)

\* Every commit of the ingest, every upload and every label keeps the promises.
LEMMA StepPasses ==
    ASSUME Lag <= Margin, PassInv, [Next]_vars
    PROVE  PassInv'
<1>1. TypeInv'
  BY TypeStep DEF PassInv
<1>2. CASE UNCHANGED vars
  <2>1. UNCHANGED <<log, gone, read, cursor, updated, since, floor, row, star, holds, pc, job,
                    upsets>>
    BY <1>2 DEF vars
  <2>2. StarsSound' /\ HoldsTold' /\ TodoNew' /\ IncidentsTold'
    BY <2>1, TickStays DEF PassInv
  <2>3. Current' = Current /\ \A v : (Wanted(v)' <=> Wanted(v)) /\ (Pardoned(v)' <=> Pardoned(v))
    BY <2>1 DEF Current, Wanted, Pardoned
  <2>4. SerialsKnown' /\ JobKnown' /\ CursorKept' /\ FloorKept' /\ CeilingKept'
    BY <2>1, <2>3 DEF PassInv, SerialsKnown, JobKnown, CursorKept, FloorKept, CeilingKept
  <2> QED
    BY <1>1, <2>2, <2>4 DEF PassInv
<1>3. CASE \E v \in Versions : Upload(v)
  BY <1>1, <1>3, UploadPasses
<1>4. CASE (\E p \in Projects : Delete(p)) \/ PollFails \/ Kill
  BY <1>1, <1>4, UpsetPasses
<1>5. CASE \E p \in Projects : Adjudicate(p)
  BY <1>1, <1>5, LabelPasses
<1>6. CASE \E mode \in Starts : SeedCursor(mode)
  BY <1>1, <1>6, SeedPasses
<1>7. CASE SeedFloor \/ Begin
  BY <1>1, <1>7, FloorSetPasses
<1>8. CASE Poll
  BY <1>1, <1>8, PollPasses
<1>9. CASE RecordRelease \/ Settle
  BY <1>1, <1>9, ReleasePasses
<1>10. CASE NoteIncident
  BY <1>1, <1>10, NotePasses
<1>11. CASE RecordIncident
  BY <1>1, <1>11, RecordPasses
<1>12. CASE SetHolds
  BY <1>1, <1>12, HoldsPass
<1>13. CASE SetFloor
  BY <1>1, <1>13, FloorPasses
<1>14. CASE SetCursor
  BY <1>1, <1>14, CursorPasses
<1> QED
  BY <1>2, <1>3, <1>4, <1>5, <1>6, <1>7, <1>8, <1>9, <1>10, <1>11, <1>12, <1>13, <1>14
     DEF Next, Tick

\* What is asked for is wanted, and what the cursor has passed was in the copy that was read.
LEMMA PassesNone ==
    ASSUME PassInv
    PROVE  NonePassed
<1> USE Numbers
<1>1. TypeOK /\ SerialsKnown /\ log \in Seq(Versions)
  BY DEF PassInv, TypeInv, TypeOK
<1>2. read \in 0..Len(log) /\ cursor \in Nat /\ cursor <= read /\ Len(log) \in Nat
  BY <1>1 DEF TypeOK, Serial, SerialsKnown
<1>3. \A v \in Asked : v \in Versions /\ Wanted(v)
  BY SameLog DEF Asked, Wanted, Now
<1>4. \A v : Pardoned(v) => Excused(v)
  BY SameLog DEF Pardoned, NotedBy, Excused, Noted
<1>5. ASSUME NEW v \in Asked, LastSerial(ProjectOf[v], Now) <= cursor
      PROVE  row[v] = "done" \/ Excused(v)
  <2> DEFINE p == ProjectOf[v]
  <2>1. HasIn(log, v, Len(log)) /\ v \in Versions /\ Len(log) \in 0..Len(log)
    BY <1>2, <1>3 DEF Wanted
  <2>2. LastIn(log, p, Len(log)) <= cursor
    BY <1>5, SameLog DEF Now
  <2>3. /\ FirstIn(log, v) <= LastIn(log, p, Len(log)) /\ FirstIn(log, v) \in Nat
        /\ LastIn(log, p, Len(log)) \in Nat /\ LastIn(log, p, read) \in Nat
    <3>1. FirstIn(log, v) \in 1..Len(log)
      BY <1>1, <2>1, FirstFacts
    <3> QED
      BY <1>1, <1>2, <2>1, <3>1, FirstBeforeLast, LastFacts
  <2>4. LastIn(log, p, read) <= LastIn(log, p, Len(log))
    BY <1>1, <1>2, LastGrows
  <2>5. FirstIn(log, v) <= read /\ LastIn(log, p, read) <= cursor
    BY <1>2, <2>2, <2>3, <2>4
  <2>6. row[v] = "done" \/ Pardoned(v)
    BY <1>3, <2>5 DEF PassInv, CursorKept
  <2> QED
    BY <1>4, <2>6
<1>6. ASSUME NEW v \in Asked, FirstUpload(v) <= floor
      PROVE  row[v] # "none" \/ Excused(v)
  BY <1>3, <1>4, <1>6, SameLog DEF PassInv, FloorKept
<1> QED
  BY <1>5, <1>6 DEF NonePassed, CursorPassesNone, FloorPassesNone

\* Neither the cursor nor the floor passes in silence a release uploaded since pydiffwatch was
\* started, for any uploads, caps, holds, stale or missing answers, labels and kills, as long as
\* the index lags by no more than the floor's margin (changes_since's ceiling, run_once,
\* _note_holds, floor_margin_minutes).
THEOREM NoReleasePassed ==
    ASSUME Lag <= Margin
    PROVE  Spec => []NonePassed
<1>1. PassInv /\ [Next]_vars => PassInv'
  BY StepPasses
<1> QED
  BY InitPass, <1>1, PassesNone, PTL DEF Spec
=============================================================================
