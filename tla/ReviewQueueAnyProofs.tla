------------------------- MODULE ReviewQueueAnyProofs -------------------------
(***************************************************************************)
(* Proofs about ReviewQueue with drains that overlap.  Whatever they are:  *)
(* a person's word is final, wherever processes are killed, and until one  *)
(* is killed no escalated release is dropped.  With `review-pending        *)
(* --reason too_large` beside watch: no input, verdict or alert is lost    *)
(* either, and the two implement ReleaseOutcome, as they share no release  *)
(* until one of them is past reviewing it.                                 *)
(***************************************************************************)
EXTENDS ReviewQueueProofs

-----------------------------------------------------------------------------
(* The invariant.                                                          *)

\* A label is on a verdict row.
Backed(w) == w.label # "none" => w.verdict # "none"

\* What a step may do to a row: the label stays, with its verdict row, and the
\* evidence goes from a labelled release only where prune may drop it.
Honours(w, v) ==
    /\ Backed(v)
    /\ w.label # "none" => v.label # "none"
    /\ w.label # "none" /\ w.evidence => v.evidence \/ Prunable(w)

\* The row alone says where its release ends or who takes it up.
Safe(w) ==
    \/ w.stage \in {"new", "reviewed", "removed_before_scan",
                    "needs_adjudication", "reviewed_partial"}
    \/ w.stage = "triaged" /\ ~w.escalated
    \/ w.label # "none"
    \/ w.stage = "pending_review" /\ w.reason \in Reasons

\* Where a process has yet to store what makes its release safe: wherever else
\* it stands, the row is safe without it.
Owing == {"evidence", "requeue", "queue", "bump", "park", "removed", "unwarn",
          "cleared", "verdict", "drop", "stage"}

OwesAt(place, j) ==
    place \in Owing \/ (place = "alert" /\ j.outcome = "malicious")

Owes(p) == OwesAt(pc[p], job[p])

\* The reasons a process parks under.
ReasonedAt(place, j) ==
    /\ place = "park" => j.why \in Reasons
    /\ place = "rebuild" => j.was \in Reasons

AnyInv ==
    /\ TypeInv
    /\ \A p \in Drains : ReasonedAt(pc[p], job[p])
    /\ \A r \in Releases : Backed(row[r])
    /\ crashes = 0 => \A r \in Releases :
          Safe(row[r]) \/ \E p \in Drains : job[p].rid = r /\ Owes(p)

-----------------------------------------------------------------------------
(* Row by row: what every store function keeps.                            *)

LEMMA StoreHonours ==
    ASSUME NEW w \in Row, Backed(w)
    PROVE  /\ Honours(w, w)
           /\ \A stage : Honours(w, UpdateStage(w, stage))
           /\ \A stage \in Stages, escalated \in BOOLEAN :
                 Honours(w, [UpdateStage(w, stage) EXCEPT !.escalated = escalated])
           /\ \A why \in Reasons \cup {NoReason}, n \in Nat \cup {NoInput} :
                 Honours(w, ParkForReview(w, why, n)) /\ Honours(w, Park(w, why, n))
           /\ \A why \in Reasons \cup {NoReason}, gone \in BOOLEAN :
                 Honours(w, SetPendingReason(w, why, gone))
           /\ Honours(w, ClearPending(w))
           /\ Honours(w, BumpReviewAttempts(w))
           /\ \A verdict \in Verdicts \ {"none"} : Honours(w, RecordVerdict(w, verdict))
           /\ Honours(w, ClearUnscannedVerdict(w))
           /\ Honours(w, ClearEvidence(w))
           /\ Honours(w, UpdateEvidence(w))
           /\ \A key \in Alerts : Honours(w, Emit(w, key))
           /\ \A label \in ModelClasses : Honours(w, AdjudicateRow(w, label))
           /\ Prunable(w) => Honours(w, [w EXCEPT !.evidence = FALSE])
<1> USE DEF Row, Honours, Backed
<1>1. Honours(w, w)
  OBVIOUS
<1>2. \A stage : Honours(w, UpdateStage(w, stage))
  BY DEF UpdateStage
<1>3. \A stage \in Stages, escalated \in BOOLEAN :
         Honours(w, [UpdateStage(w, stage) EXCEPT !.escalated = escalated])
  BY DEF UpdateStage
<1>4. \A why \in Reasons \cup {NoReason}, n \in Nat \cup {NoInput} :
         Honours(w, ParkForReview(w, why, n))
  BY DEF ParkForReview
<1>5. \A why \in Reasons \cup {NoReason}, gone \in BOOLEAN :
         Honours(w, SetPendingReason(w, why, gone))
  BY DEF SetPendingReason
<1>6. \A why \in Reasons \cup {NoReason}, n \in Nat \cup {NoInput} :
         Honours(w, Park(w, why, n))
  <2> HIDE DEF Row, Honours, Backed
  <2> QED
    BY <1>4, <1>5 DEF Park
<1>7. Honours(w, ClearPending(w)) /\ Honours(w, BumpReviewAttempts(w))
  BY DEF ClearPending, BumpReviewAttempts
<1>8. \A verdict \in Verdicts \ {"none"} : Honours(w, RecordVerdict(w, verdict))
  BY DEF RecordVerdict
<1>9. Honours(w, ClearUnscannedVerdict(w))
  BY DEF ClearUnscannedVerdict
<1>10. Honours(w, ClearEvidence(w)) /\ Honours(w, UpdateEvidence(w))
  BY DEF ClearEvidence, UpdateEvidence
<1>11. \A key \in Alerts : Honours(w, Emit(w, key))
  BY DEF Emit
<1>12. \A label \in ModelClasses : Honours(w, AdjudicateRow(w, label))
  BY DEF AdjudicateRow, ModelClasses
<1>13. Prunable(w) => Honours(w, [w EXCEPT !.evidence = FALSE])
  OBVIOUS
<1> HIDE DEF Row, Honours, Backed
<1> QED
  BY <1>1, <1>2, <1>3, <1>4, <1>5, <1>6, <1>7, <1>8, <1>9, <1>10, <1>11, <1>12, <1>13

LEMMA StoreSafe ==
    ASSUME NEW w \in Row
    PROVE  /\ \A stage \in {"reviewed", "removed_before_scan", "needs_adjudication",
                            "reviewed_partial"} : Safe(UpdateStage(w, stage))
           /\ Safe([UpdateStage(w, "triaged") EXCEPT !.escalated = FALSE])
           /\ \A why \in Reasons, n \in Nat \cup {NoInput} :
                 Safe(ParkForReview(w, why, n)) /\ Safe(Park(w, why, n))
           /\ \A why \in Reasons, gone \in BOOLEAN : Safe(SetPendingReason(w, why, gone))
           /\ Safe(w) => /\ Safe(BumpReviewAttempts(w))
                         /\ \A verdict : Safe(RecordVerdict(w, verdict))
                         /\ Safe(ClearUnscannedVerdict(w))
                         /\ Safe(ClearEvidence(w)) /\ Safe(UpdateEvidence(w))
                         /\ \A key \in Alerts : Safe(Emit(w, key))
                         /\ Safe([w EXCEPT !.evidence = FALSE])
           /\ \A label \in ModelClasses : Safe(AdjudicateRow(w, label))
<1> USE DEF Row, Safe
<1>1. \A stage \in {"reviewed", "removed_before_scan", "needs_adjudication",
                    "reviewed_partial"} : Safe(UpdateStage(w, stage))
  BY DEF UpdateStage
<1>2. Safe([UpdateStage(w, "triaged") EXCEPT !.escalated = FALSE])
  BY DEF UpdateStage
<1>3. \A why \in Reasons, n \in Nat \cup {NoInput} : Safe(ParkForReview(w, why, n))
  BY DEF ParkForReview
<1>4. \A why \in Reasons, gone \in BOOLEAN : Safe(SetPendingReason(w, why, gone))
  BY DEF SetPendingReason
<1>5. \A why \in Reasons, n \in Nat \cup {NoInput} : Safe(Park(w, why, n))
  <2> HIDE DEF Row, Safe
  <2> QED
    BY <1>3, <1>4 DEF Park
<1>6. ASSUME Safe(w)
      PROVE  Safe(BumpReviewAttempts(w)) /\ \A verdict : Safe(RecordVerdict(w, verdict))
  BY <1>6 DEF BumpReviewAttempts, RecordVerdict
<1>7. ASSUME Safe(w)
      PROVE  /\ Safe(ClearUnscannedVerdict(w)) /\ Safe(ClearEvidence(w))
             /\ Safe(UpdateEvidence(w))
  BY <1>7 DEF ClearUnscannedVerdict, ClearEvidence, UpdateEvidence
<1>8. ASSUME Safe(w)
      PROVE  (\A key \in Alerts : Safe(Emit(w, key))) /\ Safe([w EXCEPT !.evidence = FALSE])
  BY <1>8 DEF Emit
<1>9. \A label \in ModelClasses : Safe(AdjudicateRow(w, label))
  BY DEF AdjudicateRow, ModelClasses
<1> HIDE DEF Row, Safe
<1> QED
  BY <1>1, <1>2, <1>3, <1>4, <1>5, <1>6, <1>7, <1>8, <1>9

-----------------------------------------------------------------------------
(* What a step of one drain has to show, and the two ways it moves on.     *)

\* The step of p honours every label, and leaves the release it owed, or
\* changed, safe or in its own hands.
Served(p) ==
    /\ \A q \in Drains : q # p => pc'[q] = pc[q] /\ job'[q] = job[q]
    /\ ReasonedAt(pc'[p], job'[p])
    /\ \A r \in Releases :
          /\ Honours(row[r], row'[r])
          /\ \/ Safe(row[r])
             \/ job[p].rid = r /\ Owes(p)
             => \/ Safe(row'[r])
                \/ job'[p].rid = r /\ OwesAt(pc'[p], job'[p])
    /\ crashes' = crashes

LEMMA AnyFacts ==
    ASSUME AnyInv, NEW p \in Drains
    PROVE  /\ row \in [Releases -> Row]
           /\ pc \in [Drains -> Places] /\ job \in [Drains -> Job]
           /\ job[p] \in Job
           /\ pc[p] \notin Free =>
                /\ job[p].rid \in Releases /\ Mine(p) \in Row /\ Backed(Mine(p))
                /\ row' = row => Write(p, Mine(p))
           /\ job' = job => Keep(p, job[p])
<1>1. /\ row \in [Releases -> Row]
      /\ pc \in [Drains -> Places] /\ job \in [Drains -> Job]
      /\ job[p] \in Job
  BY DEF AnyInv, TypeInv, TypeOK
<1>2. ASSUME pc[p] \notin Free
      PROVE  job[p].rid \in Releases /\ Mine(p) \in Row /\ Backed(Mine(p))
  BY <1>1, <1>2 DEF AnyInv, TypeInv, LocalsKnown, Mine
<1>3. ASSUME pc[p] \notin Free, row' = row
      PROVE  Write(p, Mine(p))
  BY <1>1, <1>2, <1>3 DEF Write, Mine
<1>4. job' = job => Keep(p, job[p])
  BY <1>1 DEF Keep
<1> QED
  BY <1>1, <1>2, <1>3, <1>4

\* p writes its release and goes on with it.
LEMMA ServedOn ==
    ASSUME AnyInv, NEW p \in Drains, pc[p] \notin Free,
           NEW v \in Row, Write(p, v), Honours(Mine(p), v),
           NEW k \in Job, Keep(p, k), k.rid = job[p].rid,
           NEW place, Go(p, place), ReasonedAt(place, k),
           \/ Safe(v)
           \/ OwesAt(place, k)
           \/ ~Owes(p) /\ (Safe(Mine(p)) => Safe(v)),
           UNCHANGED crashes
    PROVE  Served(p)
<1>1. /\ row \in [Releases -> Row] /\ pc \in [Drains -> Places] /\ job \in [Drains -> Job]
      /\ job[p].rid \in Releases
  BY AnyFacts
<1>2. /\ pc'[p] = place /\ job'[p] = k
      /\ \A q \in Drains : q # p => pc'[q] = pc[q] /\ job'[q] = job[q]
  BY <1>1 DEF Go, Keep
<1>3. /\ row'[job[p].rid] = v
      /\ \A r \in Releases : r # job[p].rid => row'[r] = row[r]
  BY <1>1 DEF Write
<1>4. \A r \in Releases : row[r] \in Row /\ Backed(row[r])
  BY <1>1 DEF AnyInv
<1>5. \A r \in Releases : Honours(row[r], row'[r])
  BY <1>3, <1>4, StoreHonours DEF Mine
<1>6. ASSUME NEW r \in Releases, Safe(row[r]) \/ (job[p].rid = r /\ Owes(p))
      PROVE  Safe(row'[r]) \/ (job'[p].rid = r /\ OwesAt(pc'[p], job'[p]))
  BY <1>2, <1>3, <1>6 DEF Mine
<1> QED
  BY <1>2, <1>5, <1>6 DEF Served

\* p writes its release and hands it back.
LEMMA ServedBack ==
    ASSUME AnyInv, NEW p \in Drains, pc[p] \notin Free,
           NEW v \in Row, Write(p, v), Honours(Mine(p), v),
           NEW k \in Job, Done(p, k),
           Safe(v) \/ (~Owes(p) /\ (Safe(Mine(p)) => Safe(v))),
           UNCHANGED crashes
    PROVE  Served(p)
<1>1. /\ row \in [Releases -> Row] /\ pc \in [Drains -> Places] /\ job \in [Drains -> Job]
      /\ job[p].rid \in Releases
  BY AnyFacts
<1>2. /\ pc'[p] \in {"drain", "scan", "idle"}
      /\ \A q \in Drains : q # p => pc'[q] = pc[q] /\ job'[q] = job[q]
  BY <1>1 DEF Done, Go, Keep
<1>3. /\ row'[job[p].rid] = v
      /\ \A r \in Releases : r # job[p].rid => row'[r] = row[r]
  BY <1>1 DEF Write
<1>4. \A r \in Releases : row[r] \in Row /\ Backed(row[r])
  BY <1>1 DEF AnyInv
<1>5. \A r \in Releases : Honours(row[r], row'[r])
  BY <1>3, <1>4, StoreHonours DEF Mine
<1>6. ASSUME NEW r \in Releases, Safe(row[r]) \/ (job[p].rid = r /\ Owes(p))
      PROVE  Safe(row'[r])
  BY <1>3, <1>6 DEF Mine
<1>7. ReasonedAt(pc'[p], job'[p])
  BY <1>2 DEF ReasonedAt
<1> QED
  BY <1>2, <1>5, <1>6, <1>7 DEF Served

\* p has nothing in hand, and takes up a release or none.
LEMMA ServedFree ==
    ASSUME AnyInv, NEW p \in Drains, pc[p] \in Free,
           \A q \in Drains : q # p => pc'[q] = pc[q] /\ job'[q] = job[q],
           ReasonedAt(pc'[p], job'[p]),
           \A r \in Releases : /\ Honours(row[r], row'[r])
                               /\ Safe(row[r]) => \/ Safe(row'[r])
                                                  \/ /\ job'[p].rid = r
                                                     /\ OwesAt(pc'[p], job'[p]),
           UNCHANGED crashes
    PROVE  Served(p)
<1>1. ~Owes(p)
  BY DEF Owes, OwesAt, Owing, Free
<1> QED
  BY <1>1 DEF Served

-----------------------------------------------------------------------------
(* The steps of a drain, one lemma per group of actions.                   *)

LEMMA RecordServed ==
    ASSUME AnyInv, NEW p \in Drains, Record(p)
    PROVE  Served(p)
<1>a. pc[p] \notin Free
  BY DEF Record, Unpark, StoreVerdict, DropEvidence, SetStage, Alert, Free
<1>b. /\ job[p] \in Job /\ Mine(p) \in Row /\ Backed(Mine(p))
      /\ job' = job => Keep(p, job[p])
  BY <1>a, AnyFacts
<1>c. /\ pc[p] \in Recording => job[p].outcome \in Outcomes
      /\ pc[p] = "alert" => job[p].outcome \in DOMAIN KeyOf
  BY DEF AnyInv, TypeInv, LocalsKnown
<1>1. CASE Unpark(p)
  <2>1. ClearPending(Mine(p)) \in Row /\ Honours(Mine(p), ClearPending(Mine(p)))
    BY <1>b, StoreTypes, StoreHonours
  <2>2. OwesAt("verdict", job[p]) /\ ReasonedAt("verdict", job[p])
    BY DEF OwesAt, Owing, ReasonedAt
  <2> QED
    BY <1>1, <1>a, <1>b, <2>1, <2>2, ServedOn DEF Unpark
<1>2. CASE StoreVerdict(p)
  <2> DEFINE place == CASE job[p].outcome = "benign"    -> "drop"
                        [] job[p].outcome = "malicious" -> "alert"
                        [] OTHER                        -> "stage"
             v == RecordVerdict(Mine(p), Stored[job[p].outcome])
  <2>1. Stored[job[p].outcome] \in Verdicts \ {"none"}
    BY <1>2, <1>c DEF StoreVerdict, Recording, Outcomes, Stored, Verdicts, ModelClasses
  <2>2. v \in Row /\ Honours(Mine(p), v)
    BY <1>b, <2>1, StoreTypes, StoreHonours
  <2>3. OwesAt(place, job[p]) /\ ReasonedAt(place, job[p])
    BY DEF OwesAt, Owing, ReasonedAt
  <2>4. Write(p, v) /\ Go(p, place) /\ job' = job /\ crashes' = crashes
    BY <1>2 DEF StoreVerdict
  <2> HIDE DEF place, v
  <2> QED
    BY <1>a, <1>b, <2>2, <2>3, <2>4, ServedOn
<1>3. CASE DropEvidence(p)
  <2>1. ClearEvidence(Mine(p)) \in Row /\ Honours(Mine(p), ClearEvidence(Mine(p)))
    BY <1>b, StoreTypes, StoreHonours
  <2>2. OwesAt("stage", job[p]) /\ ReasonedAt("stage", job[p])
    BY DEF OwesAt, Owing, ReasonedAt
  <2> QED
    BY <1>3, <1>a, <1>b, <2>1, <2>2, ServedOn DEF DropEvidence
<1>4. CASE SetStage(p)
  <2> DEFINE v == UpdateStage(Mine(p), StageOf[job[p].outcome])
  <2>1. StageOf[job[p].outcome] \in {"reviewed", "reviewed_partial", "needs_adjudication"}
    BY <1>4, <1>c DEF SetStage, Recording, Outcomes, StageOf
  <2>2. v \in Row /\ Honours(Mine(p), v) /\ Safe(v)
    BY <1>b, <2>1, StoreTypes, StoreHonours, StoreSafe DEF Stages
  <2>3. Write(p, v) /\ crashes' = crashes
    BY <1>4 DEF SetStage
  <2>4. ReasonedAt("alert", job[p])
    BY DEF ReasonedAt
  <2> HIDE DEF v
  <2>5. CASE Go(p, "alert") /\ UNCHANGED job
    BY <1>a, <1>b, <2>2, <2>3, <2>4, <2>5, ServedOn
  <2>6. CASE Done(p, job[p])
    BY <1>a, <1>b, <2>2, <2>3, <2>6, ServedBack
  <2> QED
    BY <1>4, <2>5, <2>6 DEF SetStage
<1>5. CASE Alert(p)
  <2> DEFINE v == Emit(Mine(p), KeyOf[job[p].outcome])
  <2>1. KeyOf[job[p].outcome] \in Alerts
    BY <1>5, <1>c DEF Alert, KeyOf, Alerts
  <2>2. v \in Row /\ Honours(Mine(p), v) /\ (Safe(Mine(p)) => Safe(v))
    BY <1>b, <2>1, StoreTypes, StoreHonours, StoreSafe
  <2>3. Write(p, v) /\ crashes' = crashes
    BY <1>5 DEF Alert
  <2>4. ReasonedAt("stage", job[p]) /\ OwesAt("stage", job[p])
    BY DEF ReasonedAt, OwesAt, Owing
  <2> HIDE DEF v
  <2>5. CASE Go(p, "stage") /\ UNCHANGED job
    BY <1>a, <1>b, <2>2, <2>3, <2>4, <2>5, ServedOn
  <2>6. CASE job[p].outcome # "malicious" /\ Done(p, job[p])
    <3>1. ~Owes(p)
      BY <1>5, <2>6 DEF Alert, Owes, OwesAt, Owing
    <3> QED
      BY <1>a, <1>b, <2>2, <2>3, <2>6, <3>1, ServedBack
  <2> QED
    BY <1>5, <2>5, <2>6 DEF Alert
<1> QED
  BY <1>1, <1>2, <1>3, <1>4, <1>5 DEF Record

LEMMA AttemptServed ==
    ASSUME AnyInv, NEW p \in Drains, AttemptReview(p)
    PROVE  Served(p)
<1>a. pc[p] \notin Free
  BY DEF AttemptReview, Admitted, Refused, EnterSlot, Answer, EndpointDown, ReviewFails,
         CountAttempt, ParkAgain, DropUnreviewed, WarnVerdict, Warn, Free
<1>b. /\ job[p] \in Job /\ Mine(p) \in Row /\ Backed(Mine(p))
      /\ job' = job => Keep(p, job[p])
      /\ row' = row => Write(p, Mine(p))
  BY <1>a, AnyFacts
<1>c. Honours(Mine(p), Mine(p))
  BY <1>b, StoreHonours
<1>d. pc[p] \in {"admit", "slot", "model", "unscan", "warnverdict", "warn"} => ~Owes(p)
  BY DEF Owes, OwesAt, Owing
<1>e. /\ \A j : OwesAt("bump", j) /\ OwesAt("park", j)
      /\ \A j, place : place \notin {"park", "rebuild"} => ReasonedAt(place, j)
      /\ \A j : j.why \in Reasons => ReasonedAt("park", j)
  BY DEF OwesAt, Owing, ReasonedAt
<1>1. CASE Admitted(p)
  BY <1>1, <1>a, <1>b, <1>c, <1>d, <1>e, ServedOn DEF Admitted
<1>2. CASE Refused(p)
  <2> DEFINE k == [job[p] EXCEPT !.why = "model_busy", !.goOn = FALSE]
  <2>1. k \in Job /\ k.rid = job[p].rid /\ k.why \in Reasons
    BY <1>b DEF Job, Reasons, AutoReasons
  <2>2. Keep(p, k) /\ Go(p, "park") /\ row' = row /\ crashes' = crashes
    BY <1>2 DEF Refused
  <2> HIDE DEF k
  <2> QED
    BY <1>a, <1>b, <1>c, <1>e, <2>1, <2>2, ServedOn
<1>3. CASE EnterSlot(p)
  BY <1>3, <1>a, <1>b, <1>c, <1>d, <1>e, ServedOn DEF EnterSlot
<1>4. ASSUME NEW outcome \in Outcomes, Answer(p, outcome)
      PROVE  Served(p)
  <2> DEFINE k == [job[p] EXCEPT !.outcome = outcome]
  <2>1. k \in Job /\ k.rid = job[p].rid
    BY <1>b, JobUpdates
  <2>2. Keep(p, k) /\ Go(p, "clear") /\ row' = row /\ crashes' = crashes /\ pc[p] = "model"
    BY <1>4 DEF Answer
  <2> HIDE DEF k
  <2> QED
    BY <1>a, <1>b, <1>c, <1>d, <1>e, <2>1, <2>2, ServedOn
<1>5. CASE EndpointDown(p)
  <2> DEFINE k == [job[p] EXCEPT !.why = "endpoint_unreachable", !.goOn = FALSE]
  <2>1. k \in Job /\ k.rid = job[p].rid /\ k.why \in Reasons
    BY <1>b DEF Job, Reasons, AutoReasons
  <2>2. Keep(p, k) /\ Go(p, "park") /\ row' = row /\ crashes' = crashes
    BY <1>5 DEF EndpointDown
  <2> HIDE DEF k
  <2> QED
    BY <1>a, <1>b, <1>c, <1>e, <2>1, <2>2, ServedOn
<1>6. ASSUME NEW timeout \in BOOLEAN, ReviewFails(p, timeout)
      PROVE  Served(p)
  <2> DEFINE k == [job[p] EXCEPT !.goOn = ~timeout]
  <2>1. k \in Job /\ k.rid = job[p].rid
    BY <1>b DEF Job
  <2>2. Keep(p, k) /\ Go(p, "bump") /\ row' = row /\ crashes' = crashes
    BY <1>6 DEF ReviewFails
  <2> HIDE DEF k
  <2> QED
    BY <1>a, <1>b, <1>c, <1>e, <2>1, <2>2, ServedOn
<1>7. CASE CountAttempt(p)
  <2> DEFINE v == BumpReviewAttempts(Mine(p))
             spent == row'[job[p].rid].attempts >= MaxAttempts
             k == [job[p] EXCEPT !.why = "review_failed", !.spent = spent]
  <2>1. Write(p, v) /\ Keep(p, k) /\ Go(p, "park") /\ crashes' = crashes
    BY <1>7 DEF CountAttempt
  <2>2. v \in Row /\ Honours(Mine(p), v)
    BY <1>b, StoreTypes, StoreHonours
  <2>3. spent \in BOOLEAN
    OBVIOUS
  <2> HIDE DEF spent
  <2>4. k \in Job /\ k.rid = job[p].rid /\ k.why \in Reasons
    BY <1>b, <2>3 DEF Job, Reasons, AutoReasons
  <2> HIDE DEF v, k
  <2> QED
    BY <1>a, <1>e, <2>1, <2>2, <2>4, ServedOn
<1>8. CASE ParkAgain(p)
  <2> DEFINE v == Park(Mine(p), job[p].why, job[p].text)
             place == IF job[p].spent THEN "warnverdict" ELSE "unscan"
  <2>1. job[p].why \in Reasons /\ job[p].text \in Nat \cup {NoInput}
    BY <1>8, <1>b DEF ParkAgain, AnyInv, ReasonedAt, Job
  <2>2. v \in Row /\ Honours(Mine(p), v) /\ Safe(v)
    BY <1>b, <2>1, StoreTypes, StoreHonours, StoreSafe
  <2>3. Write(p, v) /\ Go(p, place) /\ job' = job /\ crashes' = crashes
    BY <1>8 DEF ParkAgain
  <2>4. ReasonedAt(place, job[p])
    BY <1>e
  <2> HIDE DEF v, place
  <2> QED
    BY <1>a, <1>b, <2>2, <2>3, <2>4, ServedOn
<1>9. CASE DropUnreviewed(p)
  <2> DEFINE v == ClearUnscannedVerdict(Mine(p))
  <2>1. v \in Row /\ Honours(Mine(p), v) /\ (Safe(Mine(p)) => Safe(v))
    BY <1>b, StoreTypes, StoreHonours, StoreSafe
  <2>2. Write(p, v) /\ crashes' = crashes /\ ~Owes(p)
    BY <1>9, <1>d DEF DropUnreviewed
  <2> HIDE DEF v
  <2>3. CASE Go(p, "admit") /\ UNCHANGED job
    BY <1>a, <1>b, <1>e, <2>1, <2>2, <2>3, ServedOn
  <2>4. CASE Done(p, job[p])
    BY <1>a, <1>b, <2>1, <2>2, <2>4, ServedBack
  <2> QED
    BY <1>9, <2>3, <2>4 DEF DropUnreviewed
<1>10. CASE WarnVerdict(p)
  <2> DEFINE v == RecordVerdict(Mine(p), "unreviewed")
  <2>1. v \in Row /\ Honours(Mine(p), v) /\ (Safe(Mine(p)) => Safe(v))
    BY <1>b, StoreTypes, StoreHonours, StoreSafe DEF Verdicts
  <2>2. Write(p, v) /\ Go(p, "warn") /\ job' = job /\ crashes' = crashes /\ ~Owes(p)
    BY <1>10, <1>d DEF WarnVerdict
  <2> HIDE DEF v
  <2> QED
    BY <1>a, <1>b, <1>e, <2>1, <2>2, ServedOn
<1>11. CASE Warn(p)
  <2> DEFINE v == Emit(Mine(p), "unscanned:review_failed")
  <2>1. v \in Row /\ Honours(Mine(p), v) /\ (Safe(Mine(p)) => Safe(v))
    BY <1>b, StoreTypes, StoreHonours, StoreSafe DEF Alerts
  <2>2. Write(p, v) /\ Done(p, job[p]) /\ crashes' = crashes /\ ~Owes(p)
    BY <1>11, <1>d DEF Warn
  <2> HIDE DEF v
  <2> QED
    BY <1>a, <1>b, <2>1, <2>2, ServedBack
<1> QED
  BY <1>1, <1>2, <1>3, <1>4, <1>5, <1>6, <1>7, <1>8, <1>9, <1>10, <1>11 DEF AttemptReview

LEMMA PrunedServed ==
    ASSUME AnyInv, NEW r \in Releases
    PROVE  Honours(row[r], Pruned[r]) /\ (Safe(row[r]) => Safe(Pruned[r]))
<1>1. row[r] \in Row /\ Backed(row[r])
  BY DEF AnyInv, TypeInv, TypeOK
<1>2. Pruned[r] = IF Prunable(row[r]) THEN [row[r] EXCEPT !.evidence = FALSE] ELSE row[r]
  BY DEF Pruned
<1> QED
  BY <1>1, <1>2, StoreHonours, StoreSafe

LEMMA ScanServed ==
    ASSUME AnyInv, NEW p \in Drains, Scan(p)
    PROVE  Served(p)
<1>a. pc[p] \notin Free =>
         /\ job[p] \in Job /\ Mine(p) \in Row /\ Backed(Mine(p))
         /\ job' = job => Keep(p, job[p])
         /\ row' = row => Write(p, Mine(p))
         /\ Need[job[p].rid] \in Nat \cup {NoInput}
  BY AnyFacts, NeedAssumption
<1>b. /\ \A j : /\ OwesAt("bump", j) /\ OwesAt("queue", j)
                /\ OwesAt("evidence", j) /\ OwesAt("requeue", j)
      /\ \A j, place : place \notin {"park", "rebuild"} => ReasonedAt(place, j)
  BY DEF OwesAt, Owing, ReasonedAt
<1>c. {"queue", "evidence"} \cap Free = {}
  BY DEF Free
<1>d. {"reviewer_disabled", "in_review", "endpoint_unreachable", "too_large"} \subseteq Reasons
  BY DEF Reasons, AutoReasons
<1>e. /\ row \in [Releases -> Row] /\ pc \in [Drains -> Places] /\ job \in [Drains -> Job]
      /\ job[p] \in Job /\ \A r \in Releases : row[r] \in Row /\ Backed(row[r])
  BY AnyFacts DEF AnyInv
<1>1. ASSUME NEW r \in Releases, Triage(p, r)
      PROVE  Served(p)
  <2> DEFINE v == [UpdateStage(row[r], "triaged") EXCEPT !.escalated = TRUE]
             k == [job[p] EXCEPT !.rid = r, !.fresh = TRUE]
             place == IF job[p].mode = "off" THEN "queue" ELSE "evidence"
  <2>1. /\ pc[p] \in Free /\ row' = [row EXCEPT ![r] = v] /\ Keep(p, k) /\ Go(p, place)
        /\ crashes' = crashes
    BY <1>1 DEF Triage, Free
  <2>2. Honours(row[r], v)
    BY <1>e, StoreHonours DEF Stages
  <2>3. k.rid = r
    BY <1>e DEF Job
  <2>4. OwesAt(place, k) /\ ReasonedAt(place, k)
    BY <1>b
  <2> HIDE DEF v, k, place
  <2>5. /\ \A q \in Drains : q # p => pc'[q] = pc[q] /\ job'[q] = job[q]
        /\ pc'[p] = place /\ job'[p] = k
    BY <1>e, <2>1 DEF Go, Keep
  <2>6. row'[r] = v /\ \A q \in Releases : q # r => row'[q] = row[q]
    BY <1>e, <2>1
  <2>7. \A q \in Releases : Honours(row[q], row'[q])
    BY <1>e, <2>2, <2>6, StoreHonours
  <2> QED
    BY <2>1, <2>3, <2>4, <2>5, <2>6, <2>7, ServedFree
<1>2. CASE StoreEvidence(p)
  <2> DEFINE v == IF job[p].rid \in Coded THEN UpdateEvidence(Mine(p)) ELSE Mine(p)
             place == IF job[p].fresh THEN "queue" ELSE "requeue"
  <2>1. /\ pc[p] \notin Free /\ Write(p, v) /\ Go(p, place) /\ job' = job
        /\ crashes' = crashes
    BY <1>2, <1>c DEF StoreEvidence
  <2>2. v \in Row /\ Honours(Mine(p), v)
    BY <1>a, <2>1, StoreTypes, StoreHonours
  <2>3. OwesAt(place, job[p]) /\ ReasonedAt(place, job[p])
    BY <1>b
  <2> HIDE DEF v, place
  <2> QED
    BY <1>a, <2>1, <2>2, <2>3, ServedOn
<1>3. CASE QueueDisabled(p)
  <2> DEFINE v == ParkForReview(Mine(p), "reviewer_disabled", 0)
  <2>1. pc[p] \notin Free /\ Write(p, v) /\ Done(p, job[p]) /\ crashes' = crashes
    BY <1>3, <1>c DEF QueueDisabled
  <2>2. v \in Row /\ Honours(Mine(p), v) /\ Safe(v)
    BY <1>a, <1>d, <2>1, StoreTypes, StoreHonours, StoreSafe
  <2> HIDE DEF v
  <2> QED
    BY <1>a, <2>1, <2>2, ServedBack
<1>4. CASE QueueFitting(p)
  <2> DEFINE why == IF job[p].mode = "online" THEN "in_review" ELSE "endpoint_unreachable"
             n == Need[job[p].rid]
             v == ParkForReview(Mine(p), why, n)
             k == [job[p] EXCEPT !.why = why, !.text = n]
  <2>1. /\ pc[p] \notin Free /\ Write(p, v) /\ Keep(p, k) /\ Go(p, "unscan")
        /\ crashes' = crashes
    BY <1>4, <1>c DEF QueueFitting
  <2>2. why \in Reasons /\ n \in Nat \cup {NoInput}
    BY <1>a, <1>d, <2>1
  <2>3. v \in Row /\ Honours(Mine(p), v) /\ Safe(v)
    BY <1>a, <2>1, <2>2, StoreTypes, StoreHonours, StoreSafe
  <2>4. k \in Job /\ k.rid = job[p].rid
    BY <1>e, <2>2 DEF Job
  <2> HIDE DEF v, k
  <2> QED
    BY <1>a, <1>b, <2>1, <2>3, <2>4, ServedOn
<1>5. CASE QueueTooLarge(p)
  <2> DEFINE v == ParkForReview(Mine(p), "too_large", Need[job[p].rid])
  <2>1. pc[p] \notin Free /\ Write(p, v) /\ Done(p, job[p]) /\ crashes' = crashes
    BY <1>5, <1>c DEF QueueTooLarge
  <2>2. v \in Row /\ Honours(Mine(p), v) /\ Safe(v)
    BY <1>a, <1>d, <2>1, StoreTypes, StoreHonours, StoreSafe
  <2> HIDE DEF v
  <2> QED
    BY <1>a, <2>1, <2>2, ServedBack
<1>6. CASE QueueRaises(p)
  <2> DEFINE n == Need[job[p].rid]
             k == [job[p] EXCEPT !.text = n]
  <2>1. /\ pc[p] \notin Free /\ row' = row /\ Keep(p, k) /\ Go(p, "bump")
        /\ crashes' = crashes
    BY <1>6, <1>c DEF QueueRaises
  <2>2. k \in Job /\ k.rid = job[p].rid
    BY <1>a, <1>e, <2>1 DEF Job
  <2>3. Write(p, Mine(p)) /\ Honours(Mine(p), Mine(p)) /\ Mine(p) \in Row
    BY <1>a, <2>1, StoreHonours
  <2> HIDE DEF k
  <2> QED
    BY <1>b, <2>1, <2>2, <2>3, ServedOn
<1>7. CASE EndTick(p)
  <2>1. /\ pc[p] \in Free /\ Go(p, "idle") /\ Keep(p, Rest) /\ row' \in {row, Pruned}
        /\ crashes' = crashes
    BY <1>7 DEF EndTick, Free
  <2>2. /\ \A q \in Drains : q # p => pc'[q] = pc[q] /\ job'[q] = job[q]
        /\ pc'[p] = "idle"
    BY <1>e, <2>1 DEF Go, Keep
  <2>3. \A r \in Releases : Honours(row[r], row'[r]) /\ (Safe(row[r]) => Safe(row'[r]))
    BY <1>e, <2>1, PrunedServed, StoreHonours
  <2> QED
    BY <1>b, <2>1, <2>2, <2>3, ServedFree
<1> QED
  BY <1>1, <1>2, <1>3, <1>4, <1>5, <1>6, <1>7 DEF Scan

LEMMA RebuildServed ==
    ASSUME AnyInv, NEW p \in Drains, Rebuild(p)
    PROVE  Served(p)
<1>a. pc[p] \notin Free
  BY DEF Rebuild, RebuildUnreachable, RebuildFails, RebuildMissing, RecordRemoved,
         RebuildClears, ClearedVerdict, ClearedStage, RebuildEscalates, Requeue, Free
<1>b. /\ job[p] \in Job /\ Mine(p) \in Row /\ Backed(Mine(p))
      /\ job' = job => Keep(p, job[p])
      /\ row' = row => Write(p, Mine(p))
      /\ Need[job[p].rid] \in Nat \cup {NoInput}
      /\ Honours(Mine(p), Mine(p))
  BY <1>a, AnyFacts, NeedAssumption, StoreHonours
<1>c. /\ \A j : /\ OwesAt("bump", j) /\ OwesAt("removed", j) /\ OwesAt("unwarn", j)
                /\ OwesAt("cleared", j) /\ OwesAt("evidence", j)
      /\ \A j, place : place \notin {"park", "rebuild"} => ReasonedAt(place, j)
  BY DEF OwesAt, Owing, ReasonedAt
<1>d. pc[p] = "rebuild" => ~Owes(p) /\ job[p].was \in Reasons
  BY DEF Owes, OwesAt, Owing, AnyInv, ReasonedAt
<1>e. {"in_review", "too_large"} \subseteq Reasons
  BY DEF Reasons, AutoReasons
<1>f. ASSUME Write(p, ClearPending(Mine(p))), NEW place \in {"removed", "unwarn"},
             Go(p, place), job' = job, crashes' = crashes
      PROVE  Served(p)
  <2>1. ClearPending(Mine(p)) \in Row /\ Honours(Mine(p), ClearPending(Mine(p)))
    BY <1>b, StoreTypes, StoreHonours
  <2> QED
    BY <1>a, <1>b, <1>c, <1>f, <2>1, ServedOn
<1>1. CASE RebuildUnreachable(p)
  <2> DEFINE v == SetPendingReason(Mine(p), job[p].was, FALSE)
             k == [job[p] EXCEPT !.down = TRUE]
  <2>1. Write(p, v) /\ Done(p, k) /\ crashes' = crashes /\ pc[p] = "rebuild"
    BY <1>1 DEF RebuildUnreachable
  <2>2. v \in Row /\ Honours(Mine(p), v) /\ Safe(v)
    BY <1>b, <1>d, <2>1, StoreTypes, StoreHonours, StoreSafe
  <2>3. k \in Job
    BY <1>b DEF Job
  <2> HIDE DEF v, k
  <2> QED
    BY <1>a, <2>1, <2>2, <2>3, ServedBack
<1>2. ASSUME NEW timeout \in BOOLEAN, RebuildFails(p, timeout)
      PROVE  Served(p)
  <2> DEFINE down == job[p].down \/ timeout
             k == [job[p] EXCEPT !.text = 0, !.down = down]
  <2>1. row' = row /\ Keep(p, k) /\ Go(p, "bump") /\ crashes' = crashes
    BY <1>2 DEF RebuildFails
  <2>2. down \in BOOLEAN
    OBVIOUS
  <2> HIDE DEF down
  <2>3. k \in Job /\ k.rid = job[p].rid
    BY <1>b, <2>2 DEF Job
  <2> HIDE DEF k
  <2> QED
    BY <1>a, <1>b, <1>c, <2>1, <2>3, ServedOn
<1>3. CASE RebuildMissing(p)
  <2>1. pc[p] = "rebuild" /\ crashes' = crashes
    BY <1>3 DEF RebuildMissing
  <2>2. CASE Write(p, SetPendingReason(Mine(p), job[p].was, TRUE)) /\ Done(p, job[p])
    <3> DEFINE v == SetPendingReason(Mine(p), job[p].was, TRUE)
    <3>1. v \in Row /\ Honours(Mine(p), v) /\ Safe(v)
      BY <1>b, <1>d, <2>1, StoreTypes, StoreHonours, StoreSafe
    <3> HIDE DEF v
    <3> QED
      BY <1>a, <1>b, <2>1, <2>2, <3>1, ServedBack DEF v
  <2>3. CASE Done(p, job[p]) /\ UNCHANGED row
    BY <1>a, <1>b, <1>d, <2>1, <2>3, ServedBack
  <2>4. CASE Write(p, ClearPending(Mine(p))) /\ Go(p, "removed") /\ UNCHANGED job
    BY <1>f, <2>1, <2>4
  <2> QED
    BY <1>3, <2>2, <2>3, <2>4 DEF RebuildMissing
<1>4. CASE RecordRemoved(p)
  <2> DEFINE v == UpdateStage(Mine(p), "removed_before_scan")
  <2>1. v \in Row /\ Honours(Mine(p), v) /\ Safe(v)
    BY <1>b, StoreTypes, StoreHonours, StoreSafe DEF Stages
  <2> QED
    BY <1>4, <1>a, <1>b, <2>1, ServedBack DEF RecordRemoved
<1>5. CASE RebuildClears(p)
  BY <1>5, <1>f DEF RebuildClears
<1>6. CASE ClearedVerdict(p)
  <2> DEFINE v == ClearUnscannedVerdict(Mine(p))
  <2>1. v \in Row /\ Honours(Mine(p), v)
    BY <1>b, StoreTypes, StoreHonours
  <2> QED
    BY <1>6, <1>a, <1>b, <1>c, <2>1, ServedOn DEF ClearedVerdict
<1>7. CASE ClearedStage(p)
  <2> DEFINE v == [UpdateStage(Mine(p), "triaged") EXCEPT !.escalated = FALSE]
  <2>1. v \in Row
    BY <1>b DEF UpdateStage, Row, Stages
  <2>2. Honours(Mine(p), v) /\ Safe(v)
    BY <1>b, StoreHonours, StoreSafe DEF Stages
  <2>3. Write(p, v) /\ Done(p, job[p]) /\ crashes' = crashes
    BY <1>7 DEF ClearedStage
  <2> HIDE DEF v
  <2> QED
    BY <1>a, <1>b, <2>1, <2>2, <2>3, ServedBack
<1>8. CASE RebuildEscalates(p)
  <2> DEFINE v == [UpdateStage(Mine(p), "pending_review") EXCEPT !.escalated = TRUE]
  <2>1. v \in Row
    BY <1>b DEF UpdateStage, Row, Stages
  <2>2. Honours(Mine(p), v)
    BY <1>b, StoreHonours DEF Stages
  <2>3. Write(p, v) /\ Go(p, "evidence") /\ job' = job /\ crashes' = crashes
    BY <1>8 DEF RebuildEscalates
  <2> HIDE DEF v
  <2> QED
    BY <1>a, <1>b, <1>c, <2>1, <2>2, <2>3, ServedOn
<1>9. CASE Requeue(p)
  <2> DEFINE n == Need[job[p].rid]
             v(why) == ParkForReview(Mine(p), why, n)
             k == [job[p] EXCEPT !.why = "in_review", !.text = n]
  <2>1. \A why \in Reasons : v(why) \in Row /\ Honours(Mine(p), v(why)) /\ Safe(v(why))
    BY <1>b, StoreTypes, StoreHonours, StoreSafe
  <2>2. k \in Job /\ k.rid = job[p].rid
    BY <1>b, <1>e DEF Job
  <2>3. /\ crashes' = crashes
        /\ \/ Write(p, v("too_large")) /\ Done(p, job[p])
           \/ Write(p, v("in_review")) /\ Keep(p, k) /\ Go(p, "unscan")
    BY <1>9 DEF Requeue
  <2> HIDE DEF v, k
  <2>4. CASE Write(p, v("too_large")) /\ Done(p, job[p])
    BY <1>a, <1>b, <1>e, <2>1, <2>3, <2>4, ServedBack
  <2>5. CASE Write(p, v("in_review")) /\ Keep(p, k) /\ Go(p, "unscan")
    BY <1>a, <1>c, <1>e, <2>1, <2>2, <2>3, <2>5, ServedOn
  <2> QED
    BY <2>3, <2>4, <2>5
<1> QED
  BY <1>1, <1>2, <1>3, <1>4, <1>5, <1>6, <1>7, <1>8, <1>9 DEF Rebuild

\* p takes a row it read, leaves it where it is, and goes to work on it.
LEMMA ServedTake ==
    ASSUME AnyInv, NEW p \in Drains, pc[p] \in Free,
           row' = row, NEW place, Go(p, place), NEW k, Keep(p, k) \/ (job' = job /\ k = job[p]),
           ReasonedAt(place, k), UNCHANGED crashes
    PROVE  Served(p)
<1>1. /\ row \in [Releases -> Row] /\ pc \in [Drains -> Places] /\ job \in [Drains -> Job]
      /\ \A r \in Releases : row[r] \in Row /\ Backed(row[r])
  BY AnyFacts DEF AnyInv
<1>2. /\ \A q \in Drains : q # p => pc'[q] = pc[q] /\ job'[q] = job[q]
      /\ pc'[p] = place /\ job'[p] = k
  BY <1>1 DEF Go, Keep
<1>3. \A r \in Releases : Honours(row[r], row'[r])
  BY <1>1, StoreHonours
<1> QED
  BY <1>2, <1>3, ServedFree

LEMMA WalkServed ==
    ASSUME AnyInv, NEW p \in Drains, WalkRows(p)
    PROVE  Served(p)
<1>a. /\ row \in [Releases -> Row] /\ pc \in [Drains -> Places] /\ job \in [Drains -> Job]
      /\ job[p] \in Job /\ \A r \in Releases : row[r] \in Row /\ Backed(row[r])
  BY AnyFacts DEF AnyInv
<1>b. /\ \A j, place : place \notin {"park", "rebuild"} => ReasonedAt(place, j)
      /\ \A j : j.was \in Reasons => ReasonedAt("rebuild", j)
  BY DEF ReasonedAt
<1>c. {"drain", "idle", "page"} \subseteq Free
  BY DEF Free
<1>1. CASE TickDrains(p)
  <2>1. PICK cap \in Caps[p] :
           Keep(p, [Rest EXCEPT !.cap = cap, !.todo = AutoRows(cap)])
    BY <1>1 DEF TickDrains
  <2> QED
    BY <1>1, <1>b, <1>c, <2>1, ServedTake DEF TickDrains
<1>2. CASE TickOnlyScans(p)
  <2>1. PICK mode \in {"offline", "off"} : Keep(p, [Rest EXCEPT !.mode = mode])
    BY <1>2 DEF TickOnlyScans
  <2> QED
    BY <1>2, <1>b, <1>c, <2>1, ServedTake DEF TickOnlyScans
<1>3. CASE StartManual(p)
  <2>1. PICK cap \in Caps[p] : Keep(p, [Rest EXCEPT !.cap = cap])
    BY <1>3 DEF StartManual
  <2> QED
    BY <1>3, <1>b, <1>c, <2>1, ServedTake DEF StartManual
<1>4. CASE NextPage(p)
  <2>1. PICK k, place : Keep(p, k) /\ Go(p, place) /\ place \in {"idle", "drain"}
    BY <1>4 DEF NextPage
  <2> QED
    BY <1>4, <1>b, <1>c, <2>1, ServedTake DEF NextPage
<1>5. CASE EndRows(p)
  <2>1. CASE Go(p, "scan") /\ Keep(p, Rest)
    BY <1>5, <1>b, <1>c, <2>1, ServedTake DEF EndRows
  <2>2. CASE Go(p, "page") /\ UNCHANGED job
    BY <1>5, <1>b, <1>c, <2>2, ServedTake DEF EndRows
  <2> QED
    BY <1>5, <2>1, <2>2 DEF EndRows
<1>6. ASSUME NEW s \in job[p].todo,
             \/ WarnExhausted(p, s) \/ NullRow(p, s) \/ OversizedRow(p, s)
             \/ EmptyRow(p, s) \/ StoredRow(p, s)
      PROVE  Served(p)
  <2>a. s \in Snapshot /\ s.rid \in Releases /\ s.reason \in Reasons
    BY <1>a DEF Job, Snapshot
  <2>b. pc[p] \in Free
    BY <1>6, <1>c DEF WarnExhausted, NullRow, OversizedRow, EmptyRow, StoredRow, IsNext
  <2>c. Try(p, s).was \in Reasons
    BY <1>a, <2>a DEF Try, Take, Skip, Job
  <2>d. ASSUME NEW why \in Reasons,
               row' = [row EXCEPT ![s.rid] = SetPendingReason(@, why, FALSE)]
        PROVE  \A r \in Releases : Honours(row[r], row'[r]) /\ (Safe(row[r]) => Safe(row'[r]))
    <3> DEFINE v == SetPendingReason(row[s.rid], why, FALSE)
    <3>1. Honours(row[s.rid], v) /\ Safe(v)
      BY <1>a, <2>a, StoreHonours, StoreSafe
    <3>2. row'[s.rid] = v /\ \A r \in Releases : r # s.rid => row'[r] = row[r]
      BY <1>a, <2>a, <2>d
    <3> HIDE DEF v
    <3> QED
      BY <1>a, <3>1, <3>2, StoreHonours
  <2>e. {"too_large", "model_busy"} \subseteq Reasons
    BY DEF Reasons, AutoReasons
  <2>f. \A r \in Releases : Honours(row[r], row[r])
    BY <1>a, StoreHonours
  <2>1. CASE WarnExhausted(p, s)
    BY <2>1, <1>b, <2>b, ServedTake DEF WarnExhausted
  <2>2. CASE NullRow(p, s)
    BY <2>2, <1>b, <2>b, ServedTake DEF NullRow
  <2>3. CASE OversizedRow(p, s)
    <3>1. /\ \A q \in Drains : q # p => pc'[q] = pc[q] /\ job'[q] = job[q]
          /\ pc'[p] = "drain" /\ crashes' = crashes
      BY <1>a, <2>3 DEF OversizedRow, IsNext, Keep
    <3>2. \A r \in Releases : Honours(row[r], row'[r]) /\ (Safe(row[r]) => Safe(row'[r]))
      BY <2>3, <2>d, <2>e, <2>f DEF OversizedRow
    <3> QED
      BY <1>b, <2>b, <3>1, <3>2, ServedFree
  <2>4. CASE EmptyRow(p, s)
    <3>1. CASE Keep(p, Skip(p, s)) /\ UNCHANGED <<row, pc, faults>>
      <4>1. /\ \A q \in Drains : q # p => pc'[q] = pc[q] /\ job'[q] = job[q]
            /\ pc'[p] = "drain" /\ crashes' = crashes /\ row' = row
        BY <1>a, <2>4, <3>1 DEF EmptyRow, IsNext, Keep
      <4> QED
        BY <1>b, <2>b, <2>f, <4>1, ServedFree
    <3>2. CASE /\ row' = [row EXCEPT ![s.rid] = SetPendingReason(@, "model_busy", FALSE)]
               /\ Done(p, [Take(p, s) EXCEPT !.goOn = FALSE])
      <4>1. /\ \A q \in Drains : q # p => pc'[q] = pc[q] /\ job'[q] = job[q]
            /\ pc'[p] \in {"drain", "scan", "idle"} /\ crashes' = crashes
        BY <1>a, <2>4, <3>2 DEF EmptyRow, Done, Go, Keep
      <4>2. \A r \in Releases : Honours(row[r], row'[r]) /\ (Safe(row[r]) => Safe(row'[r]))
        BY <2>d, <2>e, <3>2
      <4> QED
        BY <1>b, <2>b, <4>1, <4>2, ServedFree
    <3>3. CASE Keep(p, Try(p, s)) /\ Go(p, "rebuild") /\ UNCHANGED <<row, faults>>
      BY <2>4, <3>3, <1>b, <2>b, <2>c, ServedTake DEF EmptyRow
    <3> QED
      BY <2>4, <3>1, <3>2, <3>3 DEF EmptyRow
  <2>5. CASE StoredRow(p, s)
    <3>1. PICK k, place : Keep(p, k) /\ Go(p, place) /\ place \in {"admit", "bump"}
      BY <2>5 DEF StoredRow
    <3> QED
      BY <2>5, <1>b, <2>b, <3>1, ServedTake DEF StoredRow
  <2> QED
    BY <1>6, <2>1, <2>2, <2>3, <2>4, <2>5
<1> QED
  BY <1>1, <1>2, <1>3, <1>4, <1>5, <1>6 DEF WalkRows

-----------------------------------------------------------------------------
(* The invariant, and the theorems.                                        *)

\* A step of any drain, a kill, a person's word or a prune.
LEMMA AnyStep ==
    ASSUME AnyInv, [Next]_vars
    PROVE  AnyInv' /\ \A r \in Releases : Honours(row[r], row'[r])
<1>a. TypeInv'
  BY NextTypes DEF AnyInv
<1>b. /\ row \in [Releases -> Row] /\ pc \in [Drains -> Places] /\ job \in [Drains -> Job]
      /\ \A r \in Releases : row[r] \in Row /\ Backed(row[r])
  BY DEF AnyInv, TypeInv, TypeOK
<1>c. \A r \in Releases : Honours(row[r], row'[r]) => Backed(row'[r])
  BY DEF Honours
<1>1. ASSUME NEW p \in Drains, Step(p)
      PROVE  AnyInv' /\ \A r \in Releases : Honours(row[r], row'[r])
  <2>1. Served(p)
    BY <1>1, WalkServed, AttemptServed, RecordServed, ScanServed, RebuildServed DEF Step
  <2>2. \A r \in Releases : Honours(row[r], row'[r])
    BY <2>1 DEF Served
  <2>3. \A q \in Drains : ReasonedAt(pc'[q], job'[q])
    BY <2>1 DEF Served, AnyInv
  <2>4. ASSUME crashes' = 0, NEW r \in Releases
        PROVE  Safe(row'[r]) \/ \E q \in Drains : job'[q].rid = r /\ OwesAt(pc'[q], job'[q])
    <3>1. Safe(row[r]) \/ \E q \in Drains : job[q].rid = r /\ Owes(q)
      BY <2>1, <2>4 DEF Served, AnyInv
    <3>2. CASE Safe(row[r]) \/ (job[p].rid = r /\ Owes(p))
      BY <2>1, <3>2 DEF Served
    <3>3. CASE \E q \in Drains : q # p /\ job[q].rid = r /\ Owes(q)
      BY <2>1, <3>3 DEF Served, Owes
    <3> QED
      BY <3>1, <3>2, <3>3
  <2> QED
    BY <1>a, <1>c, <2>2, <2>3, <2>4 DEF AnyInv, Owes
<1>2. ASSUME NEW p \in Drains, Kill(p)
      PROVE  AnyInv' /\ \A r \in Releases : Honours(row[r], row'[r])
  <2>1. row' = row /\ Go(p, "idle") /\ Keep(p, Rest) /\ crashes' = crashes + 1
    BY <1>2 DEF Kill
  <2>2. \A q \in Drains : ReasonedAt(pc'[q], job'[q])
    BY <1>b, <2>1 DEF Go, Keep, AnyInv, ReasonedAt
  <2>3. crashes' # 0
    BY <2>1, BoundsAssumption DEF AnyInv, TypeInv, TypeOK
  <2>4. \A r \in Releases : Honours(row[r], row'[r])
    BY <1>b, <2>1, StoreHonours
  <2> QED
    BY <1>a, <1>c, <2>2, <2>3, <2>4 DEF AnyInv
<1>3. ASSUME UNCHANGED <<pc, job, crashes>>,
             \A r \in Releases : Honours(row[r], row'[r]) /\ (Safe(row[r]) => Safe(row'[r]))
      PROVE  AnyInv'
  BY <1>a, <1>c, <1>3 DEF AnyInv, Owes
<1>4. CASE Person
  <2>1. UNCHANGED <<pc, job, crashes>>
    BY <1>4 DEF Person, Adjudicate, AdjudicationAlert, Prune
  <2>2. ASSUME NEW r \in Releases, NEW v \in Row, row' = [row EXCEPT ![r] = v],
               Honours(row[r], v), Safe(row[r]) => Safe(v)
        PROVE  \A q \in Releases : /\ Honours(row[q], row'[q])
                                   /\ Safe(row[q]) => Safe(row'[q])
    <3>1. row'[r] = v /\ \A q \in Releases : q # r => row'[q] = row[q]
      BY <1>b, <2>2
    <3> QED
      BY <1>b, <2>2, <3>1, StoreHonours
  <2>3. ASSUME NEW r \in Releases, NEW label \in Labels, Adjudicate(r, label)
        PROVE  \A q \in Releases : /\ Honours(row[q], row'[q])
                                   /\ Safe(row[q]) => Safe(row'[q])
    <3> DEFINE v == AdjudicateRow(row[r], label)
    <3>1. v \in Row /\ Honours(row[r], v) /\ Safe(v)
      BY <1>b, LabelsAssumption, StoreTypes, StoreHonours, StoreSafe
    <3>2. row' = [row EXCEPT ![r] = v]
      BY <2>3 DEF Adjudicate
    <3> HIDE DEF v
    <3> QED
      BY <2>2, <3>1, <3>2
  <2>4. ASSUME AdjudicationAlert
        PROVE  \A q \in Releases : /\ Honours(row[q], row'[q])
                                   /\ Safe(row[q]) => Safe(row'[q])
    <3>1. person.rid \in Releases /\ person.label \in Alerts
      BY <2>4 DEF AdjudicationAlert, AnyInv, TypeInv, TypeOK, Labelled, Alerts
    <3> DEFINE v == Emit(row[person.rid], person.label)
    <3>2. v \in Row /\ Honours(row[person.rid], v) /\ (Safe(row[person.rid]) => Safe(v))
      BY <1>b, <3>1, StoreTypes, StoreHonours, StoreSafe
    <3>3. row' = [row EXCEPT ![person.rid] = v]
      BY <2>4 DEF AdjudicationAlert
    <3> HIDE DEF v
    <3> QED
      BY <2>2, <3>1, <3>2, <3>3
  <2>5. ASSUME Prune
        PROVE  \A q \in Releases : /\ Honours(row[q], row'[q])
                                   /\ Safe(row[q]) => Safe(row'[q])
    BY <2>5, PrunedServed DEF Prune
  <2> QED
    BY <1>3, <1>4, <2>1, <2>3, <2>4, <2>5 DEF Person
<1>5. CASE UNCHANGED vars
  <2>1. UNCHANGED <<pc, job, crashes>> /\ row' = row
    BY <1>5 DEF vars
  <2> QED
    BY <1>b, <1>3, <2>1, StoreHonours
<1> QED
  BY <1>1, <1>2, <1>4, <1>5 DEF Next

LEMMA AnyInit ==
    Init => AnyInv
<1> SUFFICES ASSUME Init  PROVE AnyInv
  OBVIOUS
<1>1. TypeInv /\ \A p \in Drains : ReasonedAt(pc[p], job[p])
  BY InitTypes DEF Init, ReasonedAt
<1>2. \A r \in Releases : Backed(row[r]) /\ Safe(row[r])
  BY DEF Init, NewRow, Backed, Safe
<1> QED
  BY <1>1, <1>2 DEF AnyInv

\* UNLABELLED in store.py: whatever drains run, however many are killed and
\* whoever prunes, a label and its verdict row stay once given, and neither
\* _record nor a retry drops the evidence of a labelled release.
THEOREM LabelsKept ==
    Spec => AdjudicationKept
<1>1. AnyInv /\ [Next]_vars =>
        [\A r \in Releases :
            row[r].label # "none" =>
                /\ row'[r].label # "none" /\ row'[r].verdict # "none"
                /\ row[r].evidence => row'[r].evidence \/ Prunable(row[r])]_vars
  BY AnyStep DEF Honours, Backed
<1>2. AnyInv /\ [Next]_vars => AnyInv'
  BY AnyStep
<1> QED
  BY <1>1, <1>2, AnyInit, PTL DEF Spec, AdjudicationKept

\* "Never silently dropped": whichever drains work on the rows at the same time,
\* an escalated release always has a process working on it, a queue reason, a
\* person or a label, or is settled, until the first kill (which may lose one:
\* between _process_fetched's commits nothing but the process knows of it).
THEOREM DroppedByKillOnly ==
    Spec => [](crashes = 0 => NothingDropped)
<1>1. AnyInv => (crashes = 0 => NothingDropped)
  <2> SUFFICES ASSUME AnyInv, crashes = 0, NEW r \in Releases, row[r].stage # "new",
                      ~InHand(r)
               PROVE  \/ Settled(r) \/ InPending(r) \/ row[r].label # "none"
                      \/ row[r].stage = "pending_review" /\ row[r].reason \in Reasons
    BY DEF NothingDropped
  <2>1. Safe(row[r])
    BY DEF AnyInv, InHand
  <2> QED
    BY <2>1 DEF Safe, Settled, InPending
<1>2. AnyInv /\ [Next]_vars => AnyInv'
  BY AnyStep
<1> QED
  BY <1>1, <1>2, AnyInit, PTL DEF Spec

-----------------------------------------------------------------------------
(* Two drains that share no release: the tick, and `review-pending` for     *)
(* what is too large for the model of the tick.                            *)

\* The tick's endpoint is too slow for r, whatever cap the guard computes.
Big(r) == \A cap \in Caps["tick"] : Need[r] > cap

\* `review-pending --reason too_large` beside a tick whose caps agree on what that
\* is: the guard may compute another cap each time (memory), but each release fits
\* all of them or none.  Without this the two can have one release in hand.
Disjoint ==
    /\ Drains = {"tick", "manual"}
    /\ ManualReasons \subseteq {"too_large"}
    /\ \A r \in Releases : Big(r) \/ \A cap \in Caps["tick"] : Need[r] <= cap

\* What holds of every row: only what no model has answered is queued, ...
Filed(w) ==
    /\ w.reason # NoReason => w.stage = "pending_review" /\ w.verdict \notin ModelClasses
    /\ w.stage = "new" => w.reason = NoReason /\ w.verdict = "none"
    /\ w.label = "none" => /\ "malicious" \in w.sent => w.verdict = "malicious"
                           /\ "suspicious|downgraded" \in w.sent => w.verdict = "suspicious"
    /\ w.stage = "reviewed" /\ w.verdict = "malicious" => "malicious" \in w.sent

\* ... with its input or without any, and as too large only what is.
Sized(r, w) ==
    /\ w.reason # NoReason => w.chars \in {0, Need[r]}
    /\ w.reason = "too_large" => w.chars = Need[r] /\ Big(r)

\* Where an answer is asked for; where it is stored; where the release in hand may be
\* another process's too, because it is back in the queue.
Asking == {"admit", "slot", "model", "clear"}
Stating == {"drop", "stage", "alert"}
Storing == Stating \cup {"verdict"}
Soft == {"unscan", "warnverdict", "warn"}

\* What a process at `place` knows of the release it has in hand, ...
Held(place, j, w) ==
    /\ w.stage # "new"
    /\ IF place \in Stating THEN w.verdict = Stored[j.outcome] ELSE w.verdict \notin ModelClasses
    /\ place = "drop" => j.outcome = "benign"
    /\ place = "stage" /\ j.outcome = "malicious" => "malicious" \in w.sent
    /\ place \in Storing \cup {"removed", "unwarn", "cleared"} => w.reason = NoReason
    /\ place \in Texted => j.text \in {0, Need[j.rid]}
    /\ place = "park" => j.why \in AutoReasons \ {"in_review"}

\* ... that it is not closed yet, nor with a person but for its alert, ...
Living(place, j, w) ==
    /\ \/ w.stage \in {"triaged", "pending_review"}
       \/ place = "alert" /\ w.stage = "needs_adjudication"
    /\ w.stage = "triaged" => w.escalated
    /\ place = "alert" => (j.outcome = "malicious" <=> w.stage # "needs_adjudication")

\* ... the tick: of a big one, that it is not queued as such and is not asked about, ...
TickHeld(place, j, w) ==
    /\ Living(place, j, w)
    /\ Big(j.rid) => /\ w.reason # "too_large"
                     /\ place \notin Asking \cup Storing
                     /\ place = "unscan" => j.why # "in_review"
    /\ place = "rebuild" => w.reason # NoReason /\ j.was \in AutoReasons
    /\ place = "requeue" \/ ~j.fresh => j.cap \in Caps["tick"]

\* ... and `review-pending`: that it is big, and queued as such until it is answered.
ManualHeld(place, j, w) ==
    /\ Big(j.rid)
    /\ place \in Asking \cup {"bump", "park"} \cup Soft \cup Storing
    /\ place \in Asking \cup {"bump", "park"} => w.reason = "too_large"
    /\ place \notin Soft => Living(place, j, w)
    /\ place = "unscan" => j.why # "in_review"

HeldBy(p, place, j, w) ==
    /\ Held(place, j, w)
    /\ IF p = "tick" THEN TickHeld(place, j, w) ELSE ManualHeld(place, j, w)

\* What it knows of a row it has read.
ReadBy(p, s) ==
    /\ row[s.rid].reason # NoReason
    /\ p = "tick" => /\ Big(s.rid) => row[s.rid].reason # "too_large"
                     /\ s.chars = 0 => s.reason \in AutoReasons
    /\ p = "manual" => row[s.rid].reason = "too_large"

Own(p) ==
    /\ pc[p] \in Free => job[p].rid = 0
    /\ pc[p] \notin Free => HeldBy(p, pc[p], job[p], Mine(p))
    /\ \A s \in job[p].todo : ReadBy(p, s)
    /\ p = "tick" /\ pc[p] = "drain" => job[p].cap \in Caps["tick"]
    /\ pc[p] = "scan" => p = "tick"
    /\ pc[p] = "page" => p = "manual"

Touches(p, r) == job[p].rid = r \/ \E s \in job[p].todo : s.rid = r

PairInv ==
    /\ InputInv
    /\ \A r \in Releases : Filed(row[r]) /\ Sized(r, row[r])
    /\ \A p \in Drains : Own(p)
    /\ pc["manual"] \in Storing => ~Touches("tick", job["manual"].rid)
    /\ person # Nobody => row[person.rid].label # "none"

-----------------------------------------------------------------------------
(* What a step may do to a row.                                            *)

\* Nothing that matters to whoever has the row, ...
Quiet(w, v) ==
    /\ v.stage = w.stage /\ v.escalated = w.escalated
    /\ v.reason = w.reason /\ v.chars = w.chars
    /\ w.sent \subseteq v.sent
    /\ w.verdict # "none" => v.verdict = w.verdict
    /\ w.verdict \notin ModelClasses => v.verdict \notin ModelClasses

\* ... the UNREVIEWED verdict and its alert, ...
Gentle(w, v) ==
    /\ v.stage = w.stage /\ v.escalated = w.escalated
    /\ v.reason = w.reason /\ v.chars = w.chars
    /\ w.sent \subseteq v.sent
    /\ v.verdict \notin ModelClasses

\* ... and what p at `place` may make of the row it has in hand.
Becomes(p, place, r, w, v) ==
    /\ Filed(v) /\ Sized(r, v)
    /\ Keeps(w, v) /\ Lives(w, v)
    /\ w.stage # "new" => v.stage # "new"
    /\ p = "tick" /\ Big(r) /\ w.verdict \notin ModelClasses => v.verdict \notin ModelClasses
    /\ p = "manual" /\ place \in Soft => Quiet(w, v) \/ Gentle(w, v)

-----------------------------------------------------------------------------
(* Row by row.                                                             *)

LEMMA AttemptBecomes ==
    ASSUME NEW p \in {"tick", "manual"}, NEW j \in Job, j.rid \in Releases, NEW w \in Row,
           Filed(w), Sized(j.rid, w)
    PROVE  /\ \A place \in {"admit", "slot"} : HeldBy(p, place, j, w) =>
                 HeldBy(p, IF place = "admit" THEN "slot" ELSE "model", j, w)
           /\ \A why \in {"model_busy", "endpoint_unreachable"} :
                 HeldBy(p, "admit", j, w) \/ HeldBy(p, "model", j, w) =>
                    HeldBy(p, "park", [j EXCEPT !.why = why, !.goOn = FALSE], w)
           /\ \A outcome \in Outcomes : HeldBy(p, "model", j, w) =>
                 HeldBy(p, "clear", [j EXCEPT !.outcome = outcome], w)
           /\ \A goOn \in BOOLEAN : HeldBy(p, "model", j, w) =>
                 HeldBy(p, "bump", [j EXCEPT !.goOn = goOn], w)
           /\ HeldBy(p, "bump", j, w) =>
                 LET v == BumpReviewAttempts(w)
                 IN  /\ Becomes(p, "bump", j.rid, w, v)
                     /\ \A spent \in BOOLEAN :
                          HeldBy(p, "park", [j EXCEPT !.why = "review_failed", !.spent = spent], v)
           /\ HeldBy(p, "park", j, w) =>
                 LET v == Park(w, j.why, j.text)
                 IN  /\ Becomes(p, "park", j.rid, w, v)
                     /\ HeldBy(p, IF j.spent THEN "warnverdict" ELSE "unscan", j, v)
           /\ HeldBy(p, "unscan", j, w) =>
                 LET v == ClearUnscannedVerdict(w)
                 IN  /\ Becomes(p, "unscan", j.rid, w, v)
                     /\ j.why = "in_review" => HeldBy(p, "admit", j, v)
           /\ HeldBy(p, "warnverdict", j, w) =>
                 LET v == RecordVerdict(w, "unreviewed")
                 IN  Becomes(p, "warnverdict", j.rid, w, v) /\ HeldBy(p, "warn", j, v)
           /\ HeldBy(p, "warn", j, w) =>
                 Becomes(p, "warn", j.rid, w, Emit(w, "unscanned:review_failed"))
<1> USE DEF HeldBy, Held, Living, TickHeld, ManualHeld, Asking, Stating, Storing, Soft, Texted,
            Becomes, Filed, Sized, Gentle, ModelClasses,
            Keeps, Lives, OpenIn, PlaceIn, AnswerIn
<1>1. \A place \in {"admit", "slot"} : HeldBy(p, place, j, w) =>
         HeldBy(p, IF place = "admit" THEN "slot" ELSE "model", j, w)
  OBVIOUS
<1>2. ASSUME NEW why \in {"model_busy", "endpoint_unreachable"},
             HeldBy(p, "admit", j, w) \/ HeldBy(p, "model", j, w)
      PROVE  HeldBy(p, "park", [j EXCEPT !.why = why, !.goOn = FALSE], w)
  BY <1>2 DEF Job, AutoReasons
<1>3. ASSUME NEW outcome \in Outcomes, HeldBy(p, "model", j, w)
      PROVE  HeldBy(p, "clear", [j EXCEPT !.outcome = outcome], w)
  BY <1>3 DEF Job
<1>4. ASSUME NEW goOn \in BOOLEAN, HeldBy(p, "model", j, w)
      PROVE  HeldBy(p, "bump", [j EXCEPT !.goOn = goOn], w)
  BY <1>4 DEF Job
<1>5. ASSUME HeldBy(p, "bump", j, w)
      PROVE  LET v == BumpReviewAttempts(w)
             IN  /\ Becomes(p, "bump", j.rid, w, v)
                 /\ \A spent \in BOOLEAN :
                      HeldBy(p, "park", [j EXCEPT !.why = "review_failed", !.spent = spent], v)
  <2> DEFINE v == BumpReviewAttempts(w)
  <2>1. Becomes(p, "bump", j.rid, w, v)
    BY <1>5 DEF Row, BumpReviewAttempts
  <2>2. ASSUME NEW spent \in BOOLEAN
        PROVE  HeldBy(p, "park", [j EXCEPT !.why = "review_failed", !.spent = spent], v)
    BY <1>5 DEF Row, Job, BumpReviewAttempts, AutoReasons
  <2> QED
    BY <2>1, <2>2
<1>6. ASSUME HeldBy(p, "park", j, w)
      PROVE  LET v == Park(w, j.why, j.text)
             IN  /\ Becomes(p, "park", j.rid, w, v)
                 /\ HeldBy(p, IF j.spent THEN "warnverdict" ELSE "unscan", j, v)
  <2> DEFINE v == ParkForReview(w, j.why, j.text)
  <2>1. Park(w, j.why, j.text) = v /\ j.why \in AutoReasons \ {"in_review"}
    <3>1. j.text \in {0, Need[j.rid]} /\ j.why \in AutoReasons \ {"in_review"}
      BY <1>6
    <3>2. Need[j.rid] \in Nat
      BY NeedAssumption
    <3>3. j.text # NoInput
      BY <3>1, <3>2 DEF NoInput
    <3> QED
      BY <3>1, <3>3 DEF Park
  <2>2. /\ v.stage = "pending_review" /\ v.reason = j.why /\ v.chars = j.text
        /\ v.verdict = w.verdict /\ v.label = w.label /\ v.sent = w.sent
        /\ v.escalated = w.escalated
    BY DEF Row, ParkForReview
  <2>3. j.text \in {0, Need[j.rid]} /\ j.why \notin {NoReason, "too_large", "in_review"}
    BY <1>6, <2>1 DEF AutoReasons, NoReason
  <2> HIDE DEF v
  <2>4. Becomes(p, "park", j.rid, w, v)
    BY <1>6, <2>2, <2>3
  <2>5. HeldBy(p, IF j.spent THEN "warnverdict" ELSE "unscan", j, v)
    BY <1>6, <2>2, <2>3
  <2> QED
    BY <2>1, <2>4, <2>5
<1>7. ASSUME HeldBy(p, "unscan", j, w)
      PROVE  LET v == ClearUnscannedVerdict(w)
             IN  /\ Becomes(p, "unscan", j.rid, w, v)
                 /\ j.why = "in_review" => HeldBy(p, "admit", j, v)
  BY <1>7 DEF Row, ClearUnscannedVerdict
<1>8. ASSUME HeldBy(p, "warnverdict", j, w)
      PROVE  LET v == RecordVerdict(w, "unreviewed")
             IN  Becomes(p, "warnverdict", j.rid, w, v) /\ HeldBy(p, "warn", j, v)
  BY <1>8 DEF Row, RecordVerdict
<1>9. ASSUME HeldBy(p, "warn", j, w)
      PROVE  Becomes(p, "warn", j.rid, w, Emit(w, "unscanned:review_failed"))
  BY <1>9 DEF Row, Emit
<1> HIDE DEF HeldBy, Becomes
<1> QED
  BY <1>1, <1>2, <1>3, <1>4, <1>5, <1>6, <1>7, <1>8, <1>9

LEMMA RecordBecomes ==
    ASSUME NEW p \in {"tick", "manual"}, NEW j \in Job, j.rid \in Releases, NEW w \in Row,
           Filed(w), Sized(j.rid, w), j.outcome \in Outcomes
    PROVE  /\ HeldBy(p, "clear", j, w) =>
                 LET v == ClearPending(w)
                 IN  Becomes(p, "clear", j.rid, w, v) /\ HeldBy(p, "verdict", j, v)
           /\ HeldBy(p, "verdict", j, w) =>
                 LET v == RecordVerdict(w, Stored[j.outcome])
                 IN  /\ Becomes(p, "verdict", j.rid, w, v)
                     /\ j.outcome = "benign" => HeldBy(p, "drop", j, v)
                     /\ j.outcome = "malicious" => HeldBy(p, "alert", j, v)
                     /\ j.outcome \notin {"benign", "malicious"} => HeldBy(p, "stage", j, v)
           /\ HeldBy(p, "drop", j, w) =>
                 LET v == ClearEvidence(w)
                 IN  Becomes(p, "drop", j.rid, w, v) /\ HeldBy(p, "stage", j, v)
           /\ HeldBy(p, "stage", j, w) =>
                 LET v == UpdateStage(w, StageOf[j.outcome])
                 IN  /\ Becomes(p, "stage", j.rid, w, v)
                     /\ j.outcome \in {"no_content", "downgraded"} => HeldBy(p, "alert", j, v)
           /\ HeldBy(p, "alert", j, w) /\ j.outcome \in DOMAIN KeyOf =>
                 LET v == Emit(w, KeyOf[j.outcome])
                 IN  /\ Becomes(p, "alert", j.rid, w, v)
                     /\ j.outcome = "malicious" => HeldBy(p, "stage", j, v)
<1> USE DEF HeldBy, Held, Living, TickHeld, ManualHeld, Asking, Stating, Storing, Soft, Texted,
            Becomes, Filed, Sized, Gentle, ModelClasses,
            Keeps, Lives, OpenIn, PlaceIn, AnswerIn
<1>1. ASSUME HeldBy(p, "clear", j, w)
      PROVE  LET v == ClearPending(w)
             IN  Becomes(p, "clear", j.rid, w, v) /\ HeldBy(p, "verdict", j, v)
  BY <1>1 DEF Row, ClearPending, NoReason
<1>2. ASSUME HeldBy(p, "verdict", j, w)
      PROVE  LET v == RecordVerdict(w, Stored[j.outcome])
             IN  /\ Becomes(p, "verdict", j.rid, w, v)
                 /\ j.outcome = "benign" => HeldBy(p, "drop", j, v)
                 /\ j.outcome = "malicious" => HeldBy(p, "alert", j, v)
                 /\ j.outcome \notin {"benign", "malicious"} => HeldBy(p, "stage", j, v)
  <2> DEFINE c == Stored[j.outcome]
             v == RecordVerdict(w, c)
  <2>1. c # "none"
    BY DEF Outcomes, Stored
  <2> HIDE DEF c
  <2>2. /\ v.stage = w.stage /\ v.reason = w.reason /\ v.chars = w.chars
        /\ v.verdict = c /\ v.label = w.label /\ v.sent = w.sent
        /\ v.escalated = w.escalated
    BY DEF Row, RecordVerdict
  <2> HIDE DEF v
  <2>3. Becomes(p, "verdict", j.rid, w, v)
    BY <1>2, <2>1, <2>2
  <2>4. /\ j.outcome = "benign" => HeldBy(p, "drop", j, v)
        /\ j.outcome = "malicious" => HeldBy(p, "alert", j, v)
        /\ j.outcome \notin {"benign", "malicious"} => HeldBy(p, "stage", j, v)
    BY <1>2, <2>2 DEF c
  <2> QED
    BY <2>3, <2>4 DEF v, c
<1>3. ASSUME HeldBy(p, "drop", j, w)
      PROVE  LET v == ClearEvidence(w)
             IN  Becomes(p, "drop", j.rid, w, v) /\ HeldBy(p, "stage", j, v)
  BY <1>3 DEF Row, ClearEvidence
<1>4. ASSUME HeldBy(p, "stage", j, w)
      PROVE  LET v == UpdateStage(w, StageOf[j.outcome])
             IN  /\ Becomes(p, "stage", j.rid, w, v)
                 /\ j.outcome \in {"no_content", "downgraded"} => HeldBy(p, "alert", j, v)
  <2> DEFINE stage == StageOf[j.outcome]
             v == UpdateStage(w, stage)
  <2>1. /\ stage # "new"
        /\ stage = "reviewed" => /\ j.outcome \in {"benign", "malicious"}
                                  /\ Stored[j.outcome] = j.outcome
        /\ stage = "reviewed_partial" => Stored[j.outcome] \in {"benign", "suspicious"}
        /\ stage = "needs_adjudication" => Stored[j.outcome] \in {"suspicious", "unreviewed"}
        /\ stage \in {"reviewed", "reviewed_partial", "needs_adjudication"}
        /\ j.outcome \in {"no_content", "downgraded"} => stage = "needs_adjudication"
    BY DEF Outcomes, StageOf, Stored
  <2> HIDE DEF stage
  <2>2. /\ v.stage = stage /\ v.reason = w.reason /\ v.chars = w.chars
        /\ v.verdict = w.verdict /\ v.label = w.label /\ v.sent = w.sent
        /\ v.escalated = w.escalated
    BY DEF Row, UpdateStage
  <2> HIDE DEF v
  <2>3. Becomes(p, "stage", j.rid, w, v)
    BY <1>4, <2>1, <2>2
  <2>4. j.outcome \in {"no_content", "downgraded"} => HeldBy(p, "alert", j, v)
    BY <1>4, <2>1, <2>2
  <2> QED
    BY <2>3, <2>4 DEF v, stage
<1>5. ASSUME HeldBy(p, "alert", j, w), j.outcome \in DOMAIN KeyOf
      PROVE  LET v == Emit(w, KeyOf[j.outcome])
             IN  /\ Becomes(p, "alert", j.rid, w, v)
                 /\ j.outcome = "malicious" => HeldBy(p, "stage", j, v)
  <2> DEFINE key == KeyOf[j.outcome]
             v == Emit(w, key)
  <2>1. /\ key = "malicious" => j.outcome = "malicious" /\ Stored[j.outcome] = "malicious"
        /\ j.outcome = "malicious" => key = "malicious"
        /\ key = "suspicious|downgraded" => Stored[j.outcome] = "suspicious"
    BY <1>5 DEF KeyOf, Stored
  <2> HIDE DEF key
  <2>2. /\ v.stage = w.stage /\ v.reason = w.reason /\ v.chars = w.chars
        /\ v.verdict = w.verdict /\ v.label = w.label /\ v.sent = w.sent \cup {key}
        /\ v.escalated = w.escalated
    BY DEF Row, Emit
  <2> HIDE DEF v
  <2>3. Becomes(p, "alert", j.rid, w, v)
    BY <1>5, <2>1, <2>2
  <2>4. j.outcome = "malicious" => HeldBy(p, "stage", j, v)
    BY <1>5, <2>1, <2>2
  <2> QED
    BY <2>3, <2>4 DEF v, key
<1> HIDE DEF HeldBy, Becomes
<1> QED
  BY <1>1, <1>2, <1>3, <1>4, <1>5

LEMMA RebuildBecomes ==
    ASSUME NEW j \in Job, j.rid \in Releases, NEW w \in Row, Filed(w), Sized(j.rid, w), Disjoint
    PROVE  /\ HeldBy("tick", "rebuild", j, w) =>
                 /\ Becomes("tick", "rebuild", j.rid, w, w)
                 /\ \A gone \in BOOLEAN :
                       Becomes("tick", "rebuild", j.rid, w, SetPendingReason(w, j.was, gone))
                 /\ \A down \in BOOLEAN :
                       HeldBy("tick", "bump", [j EXCEPT !.text = 0, !.down = down], w)
                 /\ Becomes("tick", "rebuild", j.rid, w, ClearPending(w))
                 /\ HeldBy("tick", "removed", j, ClearPending(w))
                 /\ HeldBy("tick", "unwarn", j, ClearPending(w))
                 /\ LET v == [UpdateStage(w, "pending_review") EXCEPT !.escalated = TRUE]
                    IN  Becomes("tick", "rebuild", j.rid, w, v) /\ HeldBy("tick", "evidence", j, v)
           /\ HeldBy("tick", "removed", j, w) =>
                 Becomes("tick", "removed", j.rid, w, UpdateStage(w, "removed_before_scan"))
           /\ HeldBy("tick", "unwarn", j, w) =>
                 LET v == ClearUnscannedVerdict(w)
                 IN  Becomes("tick", "unwarn", j.rid, w, v) /\ HeldBy("tick", "cleared", j, v)
           /\ HeldBy("tick", "cleared", j, w) =>
                 Becomes("tick", "cleared", j.rid, w,
                         [UpdateStage(w, "triaged") EXCEPT !.escalated = FALSE])
           /\ HeldBy("tick", "requeue", j, w) =>
                 LET n == Need[j.rid]
                 IN  /\ n > j.cap =>
                          Becomes("tick", "requeue", j.rid, w, ParkForReview(w, "too_large", n))
                     /\ n <= j.cap =>
                          LET v == ParkForReview(w, "in_review", n)
                          IN  /\ Becomes("tick", "requeue", j.rid, w, v)
                              /\ HeldBy("tick", "unscan",
                                        [j EXCEPT !.why = "in_review", !.text = n], v)
<1> USE DEF HeldBy, Held, Living, TickHeld, Asking, Stating, Storing, Soft, Texted, Becomes,
            Filed, Sized, ModelClasses, Keeps, Lives, OpenIn, PlaceIn, AnswerIn
<1>1. ASSUME HeldBy("tick", "rebuild", j, w)
      PROVE  /\ Becomes("tick", "rebuild", j.rid, w, w)
             /\ \A gone \in BOOLEAN :
                   Becomes("tick", "rebuild", j.rid, w, SetPendingReason(w, j.was, gone))
             /\ \A down \in BOOLEAN :
                   HeldBy("tick", "bump", [j EXCEPT !.text = 0, !.down = down], w)
             /\ Becomes("tick", "rebuild", j.rid, w, ClearPending(w))
             /\ HeldBy("tick", "removed", j, ClearPending(w))
             /\ HeldBy("tick", "unwarn", j, ClearPending(w))
             /\ LET v == [UpdateStage(w, "pending_review") EXCEPT !.escalated = TRUE]
                IN  Becomes("tick", "rebuild", j.rid, w, v) /\ HeldBy("tick", "evidence", j, v)
  <2>1. Becomes("tick", "rebuild", j.rid, w, w)
    BY <1>1
  <2>2. ASSUME NEW gone \in BOOLEAN
        PROVE  Becomes("tick", "rebuild", j.rid, w, SetPendingReason(w, j.was, gone))
    BY <1>1 DEF Row, SetPendingReason, AutoReasons, NoReason
  <2>3. ASSUME NEW down \in BOOLEAN
        PROVE  HeldBy("tick", "bump", [j EXCEPT !.text = 0, !.down = down], w)
    BY <1>1 DEF Job
  <2>4. /\ Becomes("tick", "rebuild", j.rid, w, ClearPending(w))
        /\ HeldBy("tick", "removed", j, ClearPending(w))
        /\ HeldBy("tick", "unwarn", j, ClearPending(w))
    BY <1>1 DEF Row, ClearPending, NoReason
  <2>5. LET v == [UpdateStage(w, "pending_review") EXCEPT !.escalated = TRUE]
        IN  Becomes("tick", "rebuild", j.rid, w, v) /\ HeldBy("tick", "evidence", j, v)
    BY <1>1 DEF Row, UpdateStage
  <2> HIDE DEF HeldBy, Becomes
  <2> QED
    BY <2>1, <2>2, <2>3, <2>4, <2>5
<1>2. HeldBy("tick", "removed", j, w) =>
         Becomes("tick", "removed", j.rid, w, UpdateStage(w, "removed_before_scan"))
  BY DEF Row, UpdateStage
<1>3. HeldBy("tick", "unwarn", j, w) =>
         LET v == ClearUnscannedVerdict(w)
         IN  Becomes("tick", "unwarn", j.rid, w, v) /\ HeldBy("tick", "cleared", j, v)
  BY DEF Row, ClearUnscannedVerdict
<1>4. HeldBy("tick", "cleared", j, w) =>
         Becomes("tick", "cleared", j.rid, w,
                 [UpdateStage(w, "triaged") EXCEPT !.escalated = FALSE])
  BY DEF Row, UpdateStage
<1> DEFINE n == Need[j.rid]
<1>5. ASSUME HeldBy("tick", "requeue", j, w), n > j.cap
      PROVE  Becomes("tick", "requeue", j.rid, w, ParkForReview(w, "too_large", n))
  <2>1. Big(j.rid)
    <3>1. j.cap \in Caps["tick"] /\ j.cap \in Nat /\ n \in Nat
      BY <1>5, NeedAssumption DEF Job
    <3>2. ~(n <= j.cap)
      BY <1>5, <3>1
    <3> QED
      BY <3>1, <3>2 DEF Disjoint
  <2> QED
    BY <1>5, <2>1 DEF Row, ParkForReview, NoReason
<1>6. ASSUME HeldBy("tick", "requeue", j, w), n <= j.cap
      PROVE  LET v == ParkForReview(w, "in_review", n)
             IN  /\ Becomes("tick", "requeue", j.rid, w, v)
                 /\ HeldBy("tick", "unscan", [j EXCEPT !.why = "in_review", !.text = n], v)
  <2>1. ~Big(j.rid)
    <3>1. j.cap \in Caps["tick"] /\ j.cap \in Nat /\ n \in Nat
      BY <1>6, NeedAssumption DEF Job
    <3>2. ~(n > j.cap)
      BY <1>6, <3>1
    <3> QED
      BY <3>1, <3>2 DEF Big
  <2> DEFINE v == ParkForReview(w, "in_review", n)
             k == [j EXCEPT !.why = "in_review", !.text = n]
  <2>2. /\ v.stage = "pending_review" /\ v.reason = "in_review" /\ v.chars = n
        /\ v.verdict = w.verdict /\ v.label = w.label /\ v.sent = w.sent
        /\ v.escalated = w.escalated
    BY DEF Row, ParkForReview
  <2>3. k.rid = j.rid /\ k.text = n /\ k.cap = j.cap
    BY DEF Job
  <2> HIDE DEF v, k, n
  <2>4. Becomes("tick", "requeue", j.rid, w, v)
    BY <1>6, <2>2 DEF n
  <2>5. HeldBy("tick", "unscan", k, v)
    BY <1>6, <2>1, <2>2, <2>3 DEF n
  <2> QED
    BY <2>4, <2>5 DEF v, k
<1> HIDE DEF HeldBy, Becomes
<1> QED
  BY <1>1, <1>2, <1>3, <1>4, <1>5, <1>6

LEMMA ScanBecomes ==
    ASSUME NEW j \in Job, NEW w \in Row
    PROVE  /\ \A r \in Releases : w.stage = "new" /\ Filed(w) =>
                 LET v == [UpdateStage(w, "triaged") EXCEPT !.escalated = TRUE]
                 IN  /\ Becomes("tick", "scan", r, w, v)
                     /\ \A place \in {"queue", "evidence"} :
                           HeldBy("tick", place, [j EXCEPT !.rid = r, !.fresh = TRUE], v)
           /\ \A v \in {w, UpdateEvidence(w)} :
                 /\ j.rid \in Releases /\ Filed(w) /\ Sized(j.rid, w)
                 /\ HeldBy("tick", "evidence", j, w)
                 => /\ Becomes("tick", "evidence", j.rid, w, v)
                    /\ HeldBy("tick", IF j.fresh THEN "queue" ELSE "requeue", j, v)
           /\ /\ j.rid \in Releases /\ Filed(w) /\ Sized(j.rid, w)
              /\ HeldBy("tick", "queue", j, w) /\ Disjoint
              => LET n == Need[j.rid]
                 IN  /\ Becomes("tick", "queue", j.rid, w,
                                ParkForReview(w, "reviewer_disabled", 0))
                     /\ HeldBy("tick", "bump", [j EXCEPT !.text = n], w)
                     /\ (\E cap \in Caps["tick"] : n <= cap) =>
                           \A why \in {"in_review", "endpoint_unreachable"} :
                              LET v == ParkForReview(w, why, n)
                              IN  /\ Becomes("tick", "queue", j.rid, w, v)
                                  /\ HeldBy("tick", "unscan",
                                            [j EXCEPT !.why = why, !.text = n], v)
                     /\ (\E cap \in Caps["tick"] : n > cap) =>
                           Becomes("tick", "queue", j.rid, w, ParkForReview(w, "too_large", n))
<1> USE DEF HeldBy, Held, Living, TickHeld, Asking, Stating, Storing, Soft, Texted, Becomes,
            Filed, Sized, ModelClasses, Keeps, Lives, OpenIn, PlaceIn, AnswerIn
<1>1. ASSUME NEW r \in Releases, w.stage = "new", Filed(w)
      PROVE  LET v == [UpdateStage(w, "triaged") EXCEPT !.escalated = TRUE]
             IN  /\ Becomes("tick", "scan", r, w, v)
                 /\ \A place \in {"queue", "evidence"} :
                       HeldBy("tick", place, [j EXCEPT !.rid = r, !.fresh = TRUE], v)
  <2> DEFINE v == [UpdateStage(w, "triaged") EXCEPT !.escalated = TRUE]
             k == [j EXCEPT !.rid = r, !.fresh = TRUE]
  <2>1. /\ v.stage = "triaged" /\ v.reason = w.reason /\ v.chars = w.chars
        /\ v.verdict = w.verdict /\ v.label = w.label /\ v.sent = w.sent
        /\ v.escalated
    BY DEF Row, UpdateStage
  <2>2. k.rid = r /\ k.fresh = TRUE
    BY DEF Job
  <2>3. w.reason = NoReason /\ w.verdict = "none"
    BY <1>1
  <2> HIDE DEF v, k
  <2>4. Becomes("tick", "scan", r, w, v)
    BY <1>1, <2>1, <2>3 DEF NoReason
  <2>5. ASSUME NEW place \in {"queue", "evidence"}  PROVE HeldBy("tick", place, k, v)
    BY <2>1, <2>2, <2>3, <2>5 DEF NoReason
  <2> QED
    BY <2>4, <2>5 DEF v, k
<1>2. ASSUME j.rid \in Releases, Filed(w), Sized(j.rid, w),
             HeldBy("tick", "evidence", j, w), NEW v \in {w, UpdateEvidence(w)}
      PROVE  /\ Becomes("tick", "evidence", j.rid, w, v)
             /\ HeldBy("tick", IF j.fresh THEN "queue" ELSE "requeue", j, v)
  <2>1. /\ v.stage = w.stage /\ v.reason = w.reason /\ v.chars = w.chars
        /\ v.verdict = w.verdict /\ v.label = w.label /\ v.sent = w.sent
        /\ v.escalated = w.escalated
    BY DEF Row, UpdateEvidence
  <2> QED
    BY <1>2, <2>1
<1>3. ASSUME j.rid \in Releases, Filed(w), Sized(j.rid, w), HeldBy("tick", "queue", j, w),
             Disjoint
      PROVE  LET n == Need[j.rid]
             IN  /\ Becomes("tick", "queue", j.rid, w, ParkForReview(w, "reviewer_disabled", 0))
                 /\ HeldBy("tick", "bump", [j EXCEPT !.text = n], w)
                 /\ (\E cap \in Caps["tick"] : n <= cap) =>
                       \A why \in {"in_review", "endpoint_unreachable"} :
                          LET v == ParkForReview(w, why, n)
                          IN  /\ Becomes("tick", "queue", j.rid, w, v)
                              /\ HeldBy("tick", "unscan",
                                        [j EXCEPT !.why = why, !.text = n], v)
                 /\ (\E cap \in Caps["tick"] : n > cap) =>
                       Becomes("tick", "queue", j.rid, w, ParkForReview(w, "too_large", n))
  <2> DEFINE n == Need[j.rid]
  <2>1. Becomes("tick", "queue", j.rid, w, ParkForReview(w, "reviewer_disabled", 0))
    BY <1>3 DEF Row, ParkForReview, NoReason
  <2>2. HeldBy("tick", "bump", [j EXCEPT !.text = n], w)
    BY <1>3 DEF Job
  <2>a. /\ \A cap \in Caps["tick"] : cap \in Nat
        /\ n \in Nat
    BY <1>3, CapsAssumption, NeedAssumption DEF Disjoint
  <2>3. ASSUME \E cap \in Caps["tick"] : n <= cap,
               NEW why \in {"in_review", "endpoint_unreachable"}
        PROVE  LET v == ParkForReview(w, why, n)
               IN  /\ Becomes("tick", "queue", j.rid, w, v)
                   /\ HeldBy("tick", "unscan", [j EXCEPT !.why = why, !.text = n], v)
    <3>1. ~Big(j.rid)
      BY <2>3, <2>a DEF Big
    <3> DEFINE v == ParkForReview(w, why, n)
               k == [j EXCEPT !.why = why, !.text = n]
    <3>2. /\ v.stage = "pending_review" /\ v.reason = why /\ v.chars = n
          /\ v.verdict = w.verdict /\ v.label = w.label /\ v.sent = w.sent
          /\ v.escalated = w.escalated
      BY DEF Row, ParkForReview
    <3>3. k.rid = j.rid /\ k.text = n /\ k.cap = j.cap /\ (k.fresh <=> j.fresh)
      BY DEF Job
    <3> HIDE DEF v, k, n
    <3>4. Becomes("tick", "queue", j.rid, w, v)
      BY <1>3, <2>3, <3>2 DEF n
    <3>5. HeldBy("tick", "unscan", k, v)
      BY <1>3, <3>1, <3>2, <3>3 DEF n
    <3> QED
      BY <3>4, <3>5 DEF v, k
  <2>4. ASSUME \E cap \in Caps["tick"] : n > cap
        PROVE  Becomes("tick", "queue", j.rid, w, ParkForReview(w, "too_large", n))
    <3>1. Big(j.rid)
      BY <1>3, <2>4, <2>a DEF Disjoint
    <3> QED
      BY <1>3, <3>1 DEF Row, ParkForReview, NoReason
  <2> HIDE DEF HeldBy, Becomes
  <2> QED
    BY <2>1, <2>2, <2>3, <2>4
<1> HIDE DEF HeldBy, Becomes
<1> QED
  BY <1>1, <1>2, <1>3

-----------------------------------------------------------------------------
(* What a step has to show, and how it leaves the other process alone.     *)

\* At most one release lives on.
OneRow ==
    \/ \A r \in Releases : Life(row'[r]) = Life(row[r])
    \/ \E r \in Releases : \A q \in Releases \ {r} : row'[q] = row[q]

\* The step of p keeps to the rows p has, and to what the other may rely on.
Moves(p) ==
    /\ \A q \in Drains : q # p => pc'[q] = pc[q] /\ job'[q] = job[q]
    /\ person' = person
    /\ Own(p)'
    /\ \A r \in Releases :
          /\ Becomes(p, pc[p], r, row[r], row'[r])
          /\ \/ Quiet(row[r], row'[r])
             \/ p = "tick" /\ (Touches(p, r) \/ row[r].stage = "new")
             \/ p = "manual" /\ job[p].rid = r
    /\ OneRow
    /\ p = "tick" => \A r \in Releases :
          Touches(p, r)' => \/ Touches(p, r) \/ row[r].stage = "new"
                            \/ row[r].reason # NoReason
    /\ p = "manual" /\ pc'[p] \in Storing =>
          pc[p] \in Storing \cup {"clear"} /\ job'[p].rid = job[p].rid

LEMMA PairFacts ==
    ASSUME PairInv, NEW p \in Drains
    PROVE  /\ row \in [Releases -> Row]
           /\ pc \in [Drains -> Places] /\ job \in [Drains -> Job]
           /\ job[p] \in Job /\ job[p].todo \in SUBSET Snapshot
           /\ \A s \in job[p].todo : s.rid \in Releases /\ s.rid # job[p].rid
           /\ Own(p)
           /\ pc[p] \notin Free =>
                /\ job[p].rid \in Releases /\ Mine(p) \in Row
                /\ Filed(Mine(p)) /\ Sized(job[p].rid, Mine(p))
                /\ HeldBy(p, pc[p], job[p], Mine(p))
                /\ row' = row => Write(p, Mine(p))
           /\ job' = job => Keep(p, job[p])
           /\ pc[p] \in Recording => job[p].outcome \in Outcomes
           /\ pc[p] = "alert" => job[p].outcome \in DOMAIN KeyOf
<1>1. /\ row \in [Releases -> Row]
      /\ pc \in [Drains -> Places] /\ job \in [Drains -> Job]
      /\ job[p] \in Job /\ Own(p)
      /\ pc[p] \notin Free => job[p].rid \in Releases
      /\ pc[p] \in Recording => job[p].outcome \in Outcomes
      /\ pc[p] = "alert" => job[p].outcome \in DOMAIN KeyOf
  BY DEF PairInv, InputInv, TypeInv, TypeOK, LocalsKnown
<1>2. job[p].todo \in SUBSET Snapshot
  BY <1>1 DEF Job
<1>3. \A s \in job[p].todo : s.rid \in Releases /\ s.rid # job[p].rid
  BY <1>2 DEF PairInv, InputInv, Carried, Snapshot
<1>4. ASSUME pc[p] \notin Free
      PROVE  /\ job[p].rid \in Releases /\ Mine(p) \in Row
             /\ Filed(Mine(p)) /\ Sized(job[p].rid, Mine(p))
             /\ HeldBy(p, pc[p], job[p], Mine(p))
             /\ row' = row => Write(p, Mine(p))
  BY <1>1, <1>4 DEF PairInv, Own, Mine, Write
<1>5. job' = job => Keep(p, job[p])
  BY <1>1 DEF Keep
<1> QED
  BY <1>1, <1>2, <1>3, <1>4, <1>5

LEMMA RowStays ==
    ASSUME PairInv, NEW r \in Releases, NEW p, NEW place
    PROVE  Becomes(p, place, r, row[r], row[r]) /\ Quiet(row[r], row[r])
BY DEF PairInv, Becomes, Quiet, Keeps, Lives

\* p keeps its release in hand.
LEMMA MovesOn ==
    ASSUME PairInv, NEW p \in Drains, pc[p] \notin Free,
           NEW v, Write(p, v), Becomes(p, pc[p], job[p].rid, Mine(p), v),
           NEW place \in Places \ Free, Go(p, place),
           NEW k, Keep(p, k), k.rid = job[p].rid, k.todo = job[p].todo,
           HeldBy(p, place, k, v),
           p = "manual" /\ place \in Storing => pc[p] \in Storing \cup {"clear"},
           UNCHANGED person
    PROVE  Moves(p)
<1>a. /\ row \in [Releases -> Row] /\ pc \in [Drains -> Places] /\ job \in [Drains -> Job]
      /\ job[p].rid \in Releases /\ Own(p)
      /\ \A s \in job[p].todo : s.rid \in Releases /\ s.rid # job[p].rid
  BY PairFacts
<1>1. /\ pc'[p] = place /\ job'[p] = k
      /\ \A q \in Drains : q # p => pc'[q] = pc[q] /\ job'[q] = job[q]
  BY <1>a DEF Go, Keep
<1>2. row'[job[p].rid] = v /\ \A r \in Releases : r # job[p].rid => row'[r] = row[r]
  BY <1>a DEF Write
<1>3. Own(p)'
  <2>1. \A s \in k.todo : ReadBy(p, s)'
    BY <1>a, <1>2 DEF Own, ReadBy
  <2>2. Mine(p)' = v
    BY <1>1, <1>2 DEF Mine
  <2>3. place \notin {"drain", "scan", "page"}
    BY DEF Free
  <2> QED
    BY <1>1, <2>1, <2>2, <2>3, Zenon DEF Own
<1>4. ASSUME NEW r \in Releases
      PROVE  /\ Becomes(p, pc[p], r, row[r], row'[r])
             /\ Quiet(row[r], row'[r]) \/ job[p].rid = r
  BY <1>2, RowStays DEF Mine
<1>5. \A r \in Releases : Touches(p, r)' <=> Touches(p, r)
  BY <1>1 DEF Touches
<1>6. p \in {"tick", "manual"}
  BY DrainsAssumption
<1>7. \A r \in Releases : job[p].rid = r => Touches(p, r)
  BY DEF Touches
<1>8. OneRow
  BY <1>a, <1>2 DEF OneRow
<1> QED
  BY <1>1, <1>3, <1>4, <1>5, <1>6, <1>7, <1>8, Zenon DEF Moves

\* p hands its release back.
LEMMA MovesBack ==
    ASSUME PairInv, NEW p \in Drains, pc[p] \notin Free,
           NEW v, Write(p, v), Becomes(p, pc[p], job[p].rid, Mine(p), v),
           NEW j \in Job, Done(p, j), j.todo = job[p].todo,
           j.cap = job[p].cap, j.fresh <=> job[p].fresh,
           UNCHANGED person
    PROVE  Moves(p)
<1>a. /\ row \in [Releases -> Row] /\ pc \in [Drains -> Places] /\ job \in [Drains -> Job]
      /\ job[p].rid \in Releases /\ Own(p)
      /\ \A s \in job[p].todo : s.rid \in Releases /\ s.rid # job[p].rid
      /\ HeldBy(p, pc[p], job[p], Mine(p))
  BY PairFacts
<1> DEFINE away == [j EXCEPT !.rid = 0, !.fresh = FALSE, !.was = NoReason,
                          !.wasGone = FALSE, !.why = NoReason,
                          !.text = NoInput, !.spent = FALSE, !.goOn = TRUE,
                          !.outcome = "none"]
           end == [Rest EXCEPT !.mode = j.mode]
<1>1. away.rid = 0 /\ away.todo = job[p].todo /\ away.cap = job[p].cap
  BY DEF Job
<1>2. Rest.rid = 0 /\ Rest.todo = {} /\ end.rid = 0 /\ end.todo = {}
  BY DEF Rest
<1>3. /\ \/ Go(p, "drain") /\ Keep(p, away) /\ ~job[p].fresh
         \/ Go(p, "scan") /\ Keep(p, end) /\ p = "tick"
         \/ Go(p, "idle") /\ Keep(p, Rest)
  BY DEF Done
<1> HIDE DEF away, end
<1>4. /\ \/ pc'[p] = "drain" /\ job'[p] = away /\ ~job[p].fresh
         \/ pc'[p] = "scan" /\ job'[p] = end /\ p = "tick"
         \/ pc'[p] = "idle" /\ job'[p] = Rest
      /\ \A q \in Drains : q # p => pc'[q] = pc[q] /\ job'[q] = job[q]
  BY <1>a, <1>3 DEF Go, Keep
<1>5. /\ pc'[p] \in {"drain", "scan", "idle"} /\ job'[p].rid = 0
      /\ job'[p].todo \subseteq job[p].todo
  BY <1>1, <1>2, <1>4
<1>6. row'[job[p].rid] = v /\ \A r \in Releases : r # job[p].rid => row'[r] = row[r]
  BY <1>a DEF Write
<1>7. Own(p)'
  <2>1. \A s \in job[p].todo : ReadBy(p, s)'
    BY <1>a, <1>6 DEF Own, ReadBy
  <2>2. p = "tick" /\ ~job[p].fresh => job[p].cap \in Caps["tick"]
    BY <1>a DEF HeldBy, TickHeld
  <2>3. {"drain", "scan", "idle"} \subseteq Free
    BY DEF Free
  <2>4. p = "tick" /\ pc'[p] = "drain" => job'[p].cap \in Caps["tick"]
    BY <1>1, <1>4, <2>2
  <2>5. pc'[p] = "scan" => p = "tick"
    BY <1>4
  <2> QED
    BY <1>5, <2>1, <2>3, <2>4, <2>5 DEF Own
<1>8. ASSUME NEW r \in Releases
      PROVE  /\ Becomes(p, pc[p], r, row[r], row'[r])
             /\ Quiet(row[r], row'[r]) \/ job[p].rid = r
  BY <1>6, RowStays DEF Mine
<1>9. \A r \in Releases : Touches(p, r)' => Touches(p, r)
  BY <1>5, ReleasesAssumption DEF Touches
<1>10. p \in {"tick", "manual"} /\ pc'[p] \notin Storing
  BY <1>5, DrainsAssumption DEF Storing, Stating
<1>11. \A r \in Releases : job[p].rid = r => Touches(p, r)
  BY DEF Touches
<1>12. OneRow
  BY <1>a, <1>6 DEF OneRow
<1> QED
  BY <1>4, <1>7, <1>8, <1>9, <1>10, <1>11, <1>12, Zenon DEF Moves

\* p has nothing in hand, and leaves the rows alone.
LEMMA MovesFree ==
    ASSUME PairInv, NEW p \in Drains, row' = row,
           NEW place, Go(p, place), NEW k, Keep(p, k), Own(p)',
           p = "tick" => \A r \in Releases :
               Touches(p, r)' => Touches(p, r) \/ row[r].reason # NoReason,
           place \notin Storing, UNCHANGED person
    PROVE  Moves(p)
<1>a. pc \in [Drains -> Places] /\ job \in [Drains -> Job]
  BY PairFacts
<1>1. /\ pc'[p] = place /\ \A q \in Drains : q # p => pc'[q] = pc[q] /\ job'[q] = job[q]
  BY <1>a DEF Go, Keep
<1>2. \A r \in Releases : /\ Becomes(p, pc[p], r, row[r], row'[r])
                          /\ Quiet(row[r], row'[r])
  BY RowStays
<1>3. OneRow
  BY DEF OneRow
<1> QED
  BY <1>1, <1>2, <1>3, Zenon DEF Moves

\* What others may do to a row in hand.
LEMMA HeldStays ==
    ASSUME NEW place \in Places, NEW j \in Job, NEW w, NEW v,
           place \in Recording => j.outcome \in Outcomes
    PROVE  /\ \A p : HeldBy(p, place, j, w) /\ Quiet(w, v) => HeldBy(p, place, j, v)
           /\ HeldBy("tick", place, j, w) /\ Big(j.rid) /\ Gentle(w, v) =>
                 HeldBy("tick", place, j, v)
           /\ /\ HeldBy("manual", place, j, w) /\ place \in Soft
              /\ v.stage # "new" /\ v.verdict \notin ModelClasses
              => HeldBy("manual", place, j, v)
<1> USE DEF HeldBy, Held, Living, TickHeld, ManualHeld, Stating, Storing, Asking
<1>1. place \in Stating => Stored[j.outcome] # "none"
  BY DEF Recording, Outcomes, Stored
<1>2. ASSUME NEW p, HeldBy(p, place, j, w), Quiet(w, v)  PROVE HeldBy(p, place, j, v)
  BY <1>1, <1>2 DEF Quiet
<1>3. ASSUME HeldBy("tick", place, j, w), Big(j.rid), Gentle(w, v)
      PROVE  HeldBy("tick", place, j, v)
  BY <1>3 DEF Gentle
<1>4. ASSUME HeldBy("manual", place, j, w), place \in Soft,
             v.stage # "new", v.verdict \notin ModelClasses
      PROVE  HeldBy("manual", place, j, v)
  BY <1>4 DEF Soft
<1> QED
  BY <1>2, <1>3, <1>4

\* What p's step does to a row the other has: nothing that matters, or, where
\* `review-pending` is past reviewing its release, no more than a model's verdict.
LEMMA RowsShared ==
    ASSUME PairInv, Disjoint, NEW p \in Drains, NEW q \in Drains, q # p, Moves(p),
           NEW r \in Releases, Touches(q, r)
    PROVE  \/ Quiet(row[r], row'[r])
           \/ /\ q = "tick" /\ Big(r) /\ Gentle(row[r], row'[r])
           \/ /\ q = "manual" /\ job[q].rid = r /\ pc[q] \in Soft
              /\ \A s \in job[q].todo : s.rid # r
              /\ row'[r].stage # "new" /\ row'[r].verdict \notin ModelClasses
<1>a. /\ row \in [Releases -> Row] /\ Own(p) /\ Own(q)
      /\ \A s \in job[q].todo : s.rid \in Releases /\ s.rid # job[q].rid
      /\ r # 0 /\ Filed(row[r]) /\ Sized(r, row[r])
  BY PairFacts, ReleasesAssumption DEF PairInv
<1>b. job[q].rid = r => pc[q] \notin Free /\ HeldBy(q, pc[q], job[q], row[r])
  BY <1>a DEF Own, Mine
<1>c. /\ Becomes(p, pc[p], r, row[r], row'[r])
      /\ \/ Quiet(row[r], row'[r])
         \/ p = "tick" /\ (Touches(p, r) \/ row[r].stage = "new")
         \/ p = "manual" /\ job[p].rid = r
  BY DEF Moves
\* Where the manual drain has r and is not past reviewing it, r is queued as too large.
<1>d. ASSUME "manual" \in Drains, Touches("manual", r)
      PROVE  \/ row[r].reason = "too_large" /\ Big(r)
             \/ job["manual"].rid = r /\ pc["manual"] \in Storing
             \/ /\ job["manual"].rid = r /\ pc["manual"] \in Soft
                /\ Big(r) /\ row[r].verdict \notin ModelClasses
  <2>1. CASE job["manual"].rid = r
    <3>1. HeldBy("manual", pc["manual"], job["manual"], row[r])
      BY <1>a, <1>d, <2>1, PairFacts DEF PairInv, Own, Mine
    <3> QED
      BY <2>1, <3>1 DEF HeldBy, Held, ManualHeld, Soft, Stating
  <2>2. CASE \E s \in job["manual"].todo : s.rid = r
    <3>1. row[r].reason = "too_large"
      BY <1>d, <2>2 DEF PairInv, Own, ReadBy
    <3> QED
      BY <1>a, <3>1 DEF Sized
  <2> QED
    BY <1>d, <2>1, <2>2 DEF Touches
\* Where the tick has a big r, r is not queued as too large.
<1>e. ASSUME "tick" \in Drains, Touches("tick", r), Big(r)
      PROVE  row[r].reason # "too_large"
  <2>1. CASE job["tick"].rid = r
    <3>1. HeldBy("tick", pc["tick"], job["tick"], row[r])
      BY <1>a, <1>e, <2>1 DEF PairInv, Own, Mine
    <3> QED
      BY <1>e, <2>1, <3>1 DEF HeldBy, TickHeld
  <2>2. CASE \E s \in job["tick"].todo : s.rid = r
    BY <1>e, <2>2 DEF PairInv, Own, ReadBy
  <2> QED
    BY <1>e, <2>1, <2>2 DEF Touches
<1>f. Touches("tick", r) => ~(job["manual"].rid = r /\ pc["manual"] \in Storing)
  BY DEF PairInv
<1>1. CASE p = "manual" /\ q = "tick"
  <2> SUFFICES ASSUME ~Quiet(row[r], row'[r])
               PROVE  Big(r) /\ Gentle(row[r], row'[r])
    BY <1>1
  <2>1. job[p].rid = r /\ Touches(p, r)
    BY <1>1, <1>c DEF Touches
  <2>2. Big(r) /\ pc[p] \in Soft
    BY <1>1, <1>d, <1>e, <1>f, <2>1
  <2> QED
    BY <1>1, <1>c, <2>2 DEF Becomes
<1>2. CASE p = "tick" /\ q = "manual"
  <2> SUFFICES ASSUME ~Quiet(row[r], row'[r])
               PROVE  /\ job[q].rid = r /\ pc[q] \in Soft
                      /\ \A s \in job[q].todo : s.rid # r
                      /\ row'[r].stage # "new" /\ row'[r].verdict \notin ModelClasses
    BY <1>2
  <2>1. row[r].stage # "new"
    <3>1. CASE job[q].rid = r
      BY <1>b, <3>1 DEF HeldBy, Held
    <3>2. CASE \E s \in job[q].todo : s.rid = r
      BY <1>2, <1>a, <3>2 DEF Own, ReadBy, Filed, NoReason
    <3> QED
      BY <3>1, <3>2 DEF Touches
  <2>2. Touches("tick", r)
    BY <1>2, <1>c, <2>1
  <2>3. /\ job[q].rid = r /\ pc[q] \in Soft
        /\ Big(r) /\ row[r].verdict \notin ModelClasses
    BY <1>2, <1>d, <1>e, <1>f, <2>2
  <2>4. \A s \in job[q].todo : s.rid # r
    BY <1>a, <2>3
  <2> QED
    BY <1>2, <1>c, <2>1, <2>3, <2>4 DEF Becomes
<1> QED
  BY <1>1, <1>2 DEF Disjoint

\* The other process is left alone.
LEMMA Undisturbed ==
    ASSUME PairInv, Disjoint, NEW p \in Drains, NEW q \in Drains, q # p, Moves(p)
    PROVE  Own(q)' /\ Carried(q)'
<1>a. /\ job[q] \in Job /\ Own(q) /\ pc[q] \in Places
      /\ \A s \in job[q].todo : s.rid \in Releases /\ s.rid # job[q].rid
      /\ pc[q] \notin Free => job[q].rid \in Releases /\ HeldBy(q, pc[q], job[q], Mine(q))
      /\ pc[q] \in Recording => job[q].outcome \in Outcomes
      /\ Carried(q)
  BY PairFacts DEF PairInv, InputInv
<1>b. pc'[q] = pc[q] /\ job'[q] = job[q]
  BY DEF Moves
<1>1. ASSUME NEW s \in job[q].todo
      PROVE  row'[s.rid].reason = row[s.rid].reason /\ row'[s.rid].chars = row[s.rid].chars
  <2>1. s.rid \in Releases /\ Touches(q, s.rid)
    BY <1>a DEF Touches
  <2> QED
    BY <2>1, RowsShared DEF Quiet, Gentle
<1>2. ASSUME pc[q] \notin Free
      PROVE  /\ HeldBy(q, pc[q], job[q], row'[job[q].rid])
             /\ pc[q] = "rebuild" => row'[job[q].rid].chars = row[job[q].rid].chars
  <2> DEFINE r == job[q].rid
             w == row[r]
             v == row'[r]
  <2>1. r \in Releases /\ Touches(q, r) /\ HeldBy(q, pc[q], job[q], w)
    BY <1>a, <1>2 DEF Touches, Mine
  <2>2. \/ Quiet(w, v)
        \/ q = "tick" /\ Big(r) /\ Gentle(w, v)
        \/ /\ q = "manual" /\ pc[q] \in Soft
           /\ v.stage # "new" /\ v.verdict \notin ModelClasses
    BY <2>1, RowsShared
  <2>3. pc[q] \in Soft => pc[q] # "rebuild"
    BY DEF Soft
  <2> HIDE DEF w, v
  <2>4. HeldBy(q, pc[q], job[q], v)
    BY <1>a, <2>1, <2>2, HeldStays
  <2>5. pc[q] = "rebuild" => v.chars = w.chars
    BY <2>2, <2>3 DEF Quiet, Gentle
  <2> QED
    BY <2>4, <2>5 DEF w, v
<1>3. Own(q)'
  <2>1. \A s \in job[q].todo : ReadBy(q, s)'
    BY <1>a, <1>1 DEF Own, ReadBy
  <2>2. pc[q] \notin Free => HeldBy(q, pc[q], job[q], Mine(q)')
    BY <1>b, <1>2 DEF Mine
  <2> QED
    BY <1>a, <1>b, <2>1, <2>2, Zenon DEF Own
<1>4. Carried(q)'
  <2>1. pc[q] = "rebuild" => Mine(q)'.chars = Mine(q).chars
    BY <1>b, <1>2 DEF Mine, Free
  <2> QED
    BY <1>a, <1>b, <1>1, <2>1 DEF Carried
<1> QED
  BY <1>3, <1>4

-----------------------------------------------------------------------------
(* The steps of a drain, one lemma per group of actions.                   *)

LEMMA RecordMoves ==
    ASSUME PairInv, NEW p \in Drains, Record(p)
    PROVE  Moves(p)
<1>a. pc[p] \notin Free
  BY DEF Record, Unpark, StoreVerdict, DropEvidence, SetStage, Alert, Free
<1> DEFINE j == job[p]
           w == Mine(p)
<1>b. /\ j \in Job /\ j.rid \in Releases /\ w \in Row /\ Filed(w) /\ Sized(j.rid, w)
      /\ HeldBy(p, pc[p], j, w) /\ (job' = job => Keep(p, j))
      /\ pc[p] \in Recording => j.outcome \in Outcomes
      /\ pc[p] = "alert" => j.outcome \in DOMAIN KeyOf
      /\ p \in {"tick", "manual"}
  BY <1>a, PairFacts, DrainsAssumption
<1>c. j.outcome \in Outcomes
  BY <1>b DEF Record, Unpark, StoreVerdict, DropEvidence, SetStage, Alert, Recording
<1>d. /\ {"verdict", "drop", "stage", "alert"} = Storing
      /\ Storing \subseteq Places \ Free
  BY DEF Storing, Stating, Places, Free
<1>1. CASE Unpark(p)
  <2> DEFINE v == ClearPending(w)
  <2>1. /\ pc[p] = "clear" /\ Write(p, v) /\ Go(p, "verdict") /\ Keep(p, j)
        /\ person' = person
    BY <1>1, <1>b DEF Unpark
  <2>2. Becomes(p, "clear", j.rid, w, v) /\ HeldBy(p, "verdict", j, v)
    BY <1>b, <1>c, <2>1, RecordBecomes
  <2> HIDE DEF v, w
  <2> QED
    BY <1>a, <1>b, <1>d, <2>1, <2>2, MovesOn DEF w
<1>2. CASE StoreVerdict(p)
  <2> DEFINE v == RecordVerdict(w, Stored[j.outcome])
             place == CASE j.outcome = "benign"    -> "drop"
                        [] j.outcome = "malicious" -> "alert"
                        [] OTHER                   -> "stage"
  <2>1. /\ pc[p] = "verdict" /\ Write(p, v) /\ Go(p, place) /\ Keep(p, j)
        /\ person' = person
    BY <1>2, <1>b DEF StoreVerdict
  <2>2. Becomes(p, "verdict", j.rid, w, v) /\ HeldBy(p, place, j, v) /\ place \in Storing
    BY <1>b, <1>c, <1>d, <2>1, RecordBecomes
  <2> HIDE DEF v, w, place
  <2> QED
    BY <1>a, <1>b, <1>d, <2>1, <2>2, MovesOn DEF w
<1>3. CASE DropEvidence(p)
  <2> DEFINE v == ClearEvidence(w)
  <2>1. /\ pc[p] = "drop" /\ Write(p, v) /\ Go(p, "stage") /\ Keep(p, j)
        /\ person' = person
    BY <1>3, <1>b DEF DropEvidence
  <2>2. Becomes(p, "drop", j.rid, w, v) /\ HeldBy(p, "stage", j, v)
    BY <1>b, <1>c, <2>1, RecordBecomes
  <2> HIDE DEF v, w
  <2> QED
    BY <1>a, <1>b, <1>d, <2>1, <2>2, MovesOn DEF w
<1>4. CASE SetStage(p)
  <2> DEFINE v == UpdateStage(w, StageOf[j.outcome])
  <2>1. /\ pc[p] = "stage" /\ Write(p, v) /\ person' = person
    BY <1>4 DEF SetStage
  <2>2. /\ Becomes(p, "stage", j.rid, w, v)
        /\ j.outcome \in {"no_content", "downgraded"} => HeldBy(p, "alert", j, v)
    BY <1>b, <1>c, <2>1, RecordBecomes
  <2>3. \/ /\ j.outcome \in {"no_content", "downgraded"} /\ Go(p, "alert") /\ Keep(p, j)
        \/ Done(p, j)
    BY <1>4, <1>b DEF SetStage
  <2> HIDE DEF v, w
  <2>4. CASE j.outcome \in {"no_content", "downgraded"} /\ Go(p, "alert") /\ Keep(p, j)
    BY <1>a, <1>b, <1>d, <2>1, <2>2, <2>4, MovesOn DEF w
  <2>5. CASE Done(p, j)
    BY <1>a, <1>b, <2>1, <2>2, <2>5, MovesBack DEF w
  <2> QED
    BY <2>3, <2>4, <2>5
<1>5. CASE Alert(p)
  <2> DEFINE v == Emit(w, KeyOf[j.outcome])
  <2>1. /\ pc[p] = "alert" /\ Write(p, v) /\ person' = person
    BY <1>5 DEF Alert
  <2>2. /\ Becomes(p, "alert", j.rid, w, v)
        /\ j.outcome = "malicious" => HeldBy(p, "stage", j, v)
    BY <1>b, <1>c, <2>1, RecordBecomes
  <2>3. \/ j.outcome = "malicious" /\ Go(p, "stage") /\ Keep(p, j)
        \/ Done(p, j)
    BY <1>5, <1>b DEF Alert
  <2> HIDE DEF v, w
  <2>4. CASE j.outcome = "malicious" /\ Go(p, "stage") /\ Keep(p, j)
    BY <1>a, <1>b, <1>d, <2>1, <2>2, <2>4, MovesOn DEF w
  <2>5. CASE Done(p, j)
    BY <1>a, <1>b, <2>1, <2>2, <2>5, MovesBack DEF w
  <2> QED
    BY <2>3, <2>4, <2>5
<1> QED
  BY <1>1, <1>2, <1>3, <1>4, <1>5 DEF Record

LEMMA AttemptMoves ==
    ASSUME PairInv, NEW p \in Drains, AttemptReview(p)
    PROVE  Moves(p)
<1>a. pc[p] \notin Free
  BY DEF AttemptReview, Admitted, Refused, EnterSlot, Answer, EndpointDown, ReviewFails,
         CountAttempt, ParkAgain, DropUnreviewed, WarnVerdict, Warn, Free
<1> DEFINE j == job[p]
           w == Mine(p)
           r == j.rid
<1>b. /\ j \in Job /\ r \in Releases /\ w \in Row /\ Filed(w) /\ Sized(r, w)
      /\ HeldBy(p, pc[p], j, w) /\ (job' = job => Keep(p, j)) /\ (row' = row => Write(p, w))
      /\ p \in {"tick", "manual"}
  BY <1>a, PairFacts, DrainsAssumption
<1>c. Becomes(p, pc[p], r, w, w)
  BY <1>b, RowStays DEF Mine
<1>d. {"admit", "slot", "model", "bump", "park", "clear", "unscan", "warnverdict", "warn"}
         \subseteq (Places \ Free) \ Storing
  BY DEF Storing, Stating, Places, Free
\* The row stays as it is, and the release in hand.
<1>e. ASSUME row' = row, NEW place \in (Places \ Free) \ Storing, Go(p, place),
             NEW k, Keep(p, k), k.rid = r, k.todo = j.todo, HeldBy(p, place, k, w),
             person' = person
      PROVE  Moves(p)
  <2> HIDE DEF w
  <2> QED
    BY <1>a, <1>b, <1>c, <1>e, MovesOn DEF w
<1>1. CASE Admitted(p)
  <2>1. HeldBy(p, "slot", j, w)
    BY <1>1, <1>b, AttemptBecomes DEF Admitted
  <2> QED
    BY <1>1, <1>b, <1>d, <1>e, <2>1 DEF Admitted
<1>2. CASE EnterSlot(p)
  <2>1. HeldBy(p, "model", j, w)
    <3>1. pc[p] = "slot"
      BY <1>2 DEF EnterSlot
    <3>2. \A place \in {"admit", "slot"} : HeldBy(p, place, j, w) =>
             HeldBy(p, IF place = "admit" THEN "slot" ELSE "model", j, w)
      BY <1>b, AttemptBecomes
    <3> QED
      BY <1>b, <3>1, <3>2
  <2> QED
    BY <1>2, <1>b, <1>d, <1>e, <2>1 DEF EnterSlot
<1>3. CASE Refused(p) \/ EndpointDown(p)
  <2>1. PICK why \in {"model_busy", "endpoint_unreachable"} :
           Keep(p, [j EXCEPT !.why = why, !.goOn = FALSE])
    BY <1>3 DEF Refused, EndpointDown
  <2> DEFINE k == [j EXCEPT !.why = why, !.goOn = FALSE]
  <2>2. k.rid = r /\ k.todo = j.todo
    BY <1>b DEF Job
  <2>3. row' = row /\ Go(p, "park") /\ person' = person /\ pc[p] \in {"admit", "model"}
    BY <1>3 DEF Refused, EndpointDown
  <2>4. HeldBy(p, "park", k, w)
    BY <1>b, <2>3, AttemptBecomes
  <2> HIDE DEF k
  <2> QED
    BY <1>d, <1>e, <2>1, <2>2, <2>3, <2>4 DEF k
<1>4. ASSUME NEW outcome \in Outcomes, Answer(p, outcome)  PROVE Moves(p)
  <2> DEFINE k == [j EXCEPT !.outcome = outcome]
  <2>1. k.rid = r /\ k.todo = j.todo
    BY <1>b DEF Job
  <2>2. row' = row /\ Keep(p, k) /\ Go(p, "clear") /\ person' = person /\ pc[p] = "model"
    BY <1>4 DEF Answer
  <2>3. HeldBy(p, "clear", k, w)
    BY <1>b, <2>2, AttemptBecomes
  <2> HIDE DEF k
  <2> QED
    BY <1>d, <1>e, <2>1, <2>2, <2>3
<1>5. ASSUME NEW timeout \in BOOLEAN, ReviewFails(p, timeout)  PROVE Moves(p)
  <2> DEFINE goOn == ~timeout
             k == [j EXCEPT !.goOn = goOn]
  <2>1. k.rid = r /\ k.todo = j.todo
    BY <1>b DEF Job
  <2>2. row' = row /\ Keep(p, k) /\ Go(p, "bump") /\ person' = person /\ pc[p] = "model"
    BY <1>5 DEF ReviewFails
  <2>3. HeldBy(p, "bump", k, w)
    <3>1. goOn \in BOOLEAN
      OBVIOUS
    <3> HIDE DEF goOn
    <3> QED
      BY <1>b, <2>2, <3>1, AttemptBecomes
  <2> HIDE DEF k
  <2> QED
    BY <1>d, <1>e, <2>1, <2>2, <2>3
<1>6. CASE CountAttempt(p)
  <2> DEFINE v == BumpReviewAttempts(w)
             spent == row'[r].attempts >= MaxAttempts
             k == [j EXCEPT !.why = "review_failed", !.spent = spent]
  <2>1. /\ Write(p, v) /\ Keep(p, k) /\ Go(p, "park") /\ person' = person /\ pc[p] = "bump"
    BY <1>6 DEF CountAttempt
  <2>2. k.rid = r /\ k.todo = j.todo
    BY <1>b DEF Job
  <2>3. Becomes(p, "bump", r, w, v) /\ HeldBy(p, "park", k, v)
    <3>1. spent \in BOOLEAN
      OBVIOUS
    <3> HIDE DEF spent
    <3> QED
      BY <1>b, <2>1, <3>1, AttemptBecomes
  <2> HIDE DEF v, w, k
  <2> QED
    BY <1>a, <1>d, <2>1, <2>2, <2>3, MovesOn DEF w
<1>7. CASE ParkAgain(p)
  <2> DEFINE v == Park(w, j.why, j.text)
             place == IF j.spent THEN "warnverdict" ELSE "unscan"
  <2>1. Write(p, v) /\ Keep(p, j) /\ Go(p, place) /\ person' = person /\ pc[p] = "park"
    BY <1>7, <1>b DEF ParkAgain
  <2>2. Becomes(p, "park", r, w, v) /\ HeldBy(p, place, j, v)
    BY <1>b, <2>1, AttemptBecomes
  <2>3. place \in (Places \ Free) \ Storing
    BY <1>d
  <2> HIDE DEF v, w, place
  <2> QED
    BY <1>a, <2>1, <2>2, <2>3, MovesOn DEF w
<1>8. CASE DropUnreviewed(p)
  <2> DEFINE v == ClearUnscannedVerdict(w)
  <2>1. Write(p, v) /\ person' = person /\ pc[p] = "unscan"
    BY <1>8 DEF DropUnreviewed
  <2>2. /\ Becomes(p, "unscan", r, w, v)
        /\ j.why = "in_review" => HeldBy(p, "admit", j, v)
    BY <1>b, <2>1, AttemptBecomes
  <2>3. \/ j.why = "in_review" /\ Go(p, "admit") /\ Keep(p, j)
        \/ Done(p, j)
    BY <1>8, <1>b DEF DropUnreviewed
  <2> HIDE DEF v, w
  <2>4. CASE j.why = "in_review" /\ Go(p, "admit") /\ Keep(p, j)
    BY <1>a, <1>d, <2>1, <2>2, <2>4, MovesOn DEF w
  <2>5. CASE Done(p, j)
    BY <1>a, <1>b, <2>1, <2>2, <2>5, MovesBack DEF w
  <2> QED
    BY <2>3, <2>4, <2>5
<1>9. CASE WarnVerdict(p)
  <2> DEFINE v == RecordVerdict(w, "unreviewed")
  <2>1. Write(p, v) /\ Keep(p, j) /\ Go(p, "warn") /\ person' = person /\ pc[p] = "warnverdict"
    BY <1>9, <1>b DEF WarnVerdict
  <2>2. Becomes(p, "warnverdict", r, w, v) /\ HeldBy(p, "warn", j, v)
    BY <1>b, <2>1, AttemptBecomes
  <2> HIDE DEF v, w
  <2> QED
    BY <1>a, <1>d, <2>1, <2>2, MovesOn DEF w
<1>10. CASE Warn(p)
  <2> DEFINE v == Emit(w, "unscanned:review_failed")
  <2>1. Write(p, v) /\ Done(p, j) /\ person' = person /\ pc[p] = "warn"
    BY <1>10 DEF Warn
  <2>2. Becomes(p, "warn", r, w, v)
    BY <1>b, <2>1, AttemptBecomes
  <2> HIDE DEF v, w
  <2> QED
    BY <1>a, <1>b, <2>1, <2>2, MovesBack DEF w
<1> QED
  BY <1>1, <1>2, <1>3, <1>4, <1>5, <1>6, <1>7, <1>8, <1>9, <1>10 DEF AttemptReview

LEMMA RebuildMoves ==
    ASSUME PairInv, Disjoint, NEW p \in Drains, Rebuild(p)
    PROVE  Moves(p)
<1>a. pc[p] \notin Free
  BY DEF Rebuild, RebuildUnreachable, RebuildFails, RebuildMissing, RecordRemoved,
         RebuildClears, ClearedVerdict, ClearedStage, RebuildEscalates, Requeue, Free
<1> DEFINE j == job[p]
           w == Mine(p)
           r == j.rid
<1>b. /\ j \in Job /\ r \in Releases /\ w \in Row /\ Filed(w) /\ Sized(r, w)
      /\ HeldBy(p, pc[p], j, w) /\ (job' = job => Keep(p, j)) /\ (row' = row => Write(p, w))
  BY <1>a, PairFacts
<1>c. p = "tick"
  <2>1. pc[p] \in {"rebuild", "removed", "unwarn", "cleared", "requeue"}
    BY DEF Rebuild, RebuildUnreachable, RebuildFails, RebuildMissing, RecordRemoved,
           RebuildClears, ClearedVerdict, ClearedStage, RebuildEscalates, Requeue
  <2>2. p # "tick" => ManualHeld(pc[p], j, w)
    BY <1>b DEF HeldBy
  <2> QED
    BY <2>1, <2>2 DEF ManualHeld, Asking, Soft, Storing, Stating
<1>d. {"bump", "removed", "unwarn", "cleared", "evidence", "unscan"} \subseteq Places \ Free
  BY DEF Places, Free
\* The release stays in hand, or is handed back.
<1>e. ASSUME NEW v, Write(p, v), Becomes("tick", pc[p], r, w, v),
             NEW place \in Places \ Free, Go(p, place),
             NEW k, Keep(p, k), k.rid = r, k.todo = j.todo, HeldBy("tick", place, k, v),
             person' = person
      PROVE  Moves(p)
  <2> HIDE DEF w
  <2> QED
    BY <1>a, <1>c, <1>e, MovesOn DEF w
<1>f. ASSUME NEW v, Write(p, v), Becomes("tick", pc[p], r, w, v),
             NEW k \in Job, Done(p, k), k.todo = j.todo, k.cap = j.cap, k.fresh <=> j.fresh,
             person' = person
      PROVE  Moves(p)
  <2> HIDE DEF w
  <2> QED
    BY <1>a, <1>c, <1>f, MovesBack DEF w
<1>g. HeldBy("tick", pc[p], j, w)
  BY <1>b, <1>c
<1> HIDE DEF w
<1>1. CASE RebuildUnreachable(p)
  <2> DEFINE v == SetPendingReason(w, j.was, FALSE)
             k == [j EXCEPT !.down = TRUE]
  <2>1. Write(p, v) /\ Done(p, k) /\ person' = person /\ pc[p] = "rebuild"
    BY <1>1 DEF RebuildUnreachable, w
  <2>2. Becomes("tick", "rebuild", r, w, v)
    BY <1>b, <1>g, <2>1, RebuildBecomes
  <2>3. k \in Job /\ k.todo = j.todo /\ k.cap = j.cap /\ (k.fresh <=> j.fresh)
    BY <1>b DEF Job
  <2> HIDE DEF v, k
  <2> QED
    BY <1>f, <2>1, <2>2, <2>3
<1>2. ASSUME NEW timeout \in BOOLEAN, RebuildFails(p, timeout)  PROVE Moves(p)
  <2> DEFINE down == j.down \/ timeout
             k == [j EXCEPT !.text = 0, !.down = down]
  <2>1. /\ Keep(p, k) /\ Go(p, "bump") /\ Write(p, w) /\ person' = person
        /\ pc[p] = "rebuild"
    BY <1>2, <1>b DEF RebuildFails
  <2>2. Becomes("tick", "rebuild", r, w, w) /\ HeldBy("tick", "bump", k, w)
    <3>1. down \in BOOLEAN
      OBVIOUS
    <3> HIDE DEF down
    <3> QED
      BY <1>b, <1>g, <2>1, <3>1, RebuildBecomes
  <2>3. k.rid = r /\ k.todo = j.todo
    BY <1>b DEF Job
  <2> HIDE DEF k
  <2> QED
    BY <1>d, <1>e, <2>1, <2>2, <2>3
<1>3. CASE RebuildMissing(p)
  <2> DEFINE gone == SetPendingReason(w, j.was, TRUE)
             v == ClearPending(w)
  <2>1. /\ person' = person /\ pc[p] = "rebuild"
        /\ \/ Write(p, gone) /\ Done(p, j)
           \/ Write(p, w) /\ Done(p, j)
           \/ Write(p, v) /\ Go(p, "removed") /\ Keep(p, j)
    BY <1>3, <1>b DEF RebuildMissing, w
  <2>2. /\ Becomes("tick", "rebuild", r, w, w) /\ Becomes("tick", "rebuild", r, w, gone)
        /\ Becomes("tick", "rebuild", r, w, v) /\ HeldBy("tick", "removed", j, v)
    BY <1>b, <1>g, <2>1, RebuildBecomes
  <2> HIDE DEF gone, v
  <2>3. CASE Write(p, gone) /\ Done(p, j)
    BY <1>b, <1>f, <2>1, <2>2, <2>3
  <2>4. CASE Write(p, w) /\ Done(p, j)
    BY <1>b, <1>f, <2>1, <2>2, <2>4
  <2>5. CASE Write(p, v) /\ Go(p, "removed") /\ Keep(p, j)
    BY <1>d, <1>e, <2>1, <2>2, <2>5
  <2> QED
    BY <2>1, <2>3, <2>4, <2>5
<1>4. CASE RecordRemoved(p)
  <2> DEFINE v == UpdateStage(w, "removed_before_scan")
  <2>1. Write(p, v) /\ Done(p, j) /\ person' = person /\ pc[p] = "removed"
    BY <1>4 DEF RecordRemoved, w
  <2>2. Becomes("tick", "removed", r, w, v)
    BY <1>b, <1>g, <2>1, RebuildBecomes
  <2> HIDE DEF v
  <2> QED
    BY <1>b, <1>f, <2>1, <2>2
<1>5. CASE RebuildClears(p)
  <2> DEFINE v == ClearPending(w)
  <2>1. /\ Write(p, v) /\ Go(p, "unwarn") /\ Keep(p, j) /\ person' = person
        /\ pc[p] = "rebuild"
    BY <1>5, <1>b DEF RebuildClears, w
  <2>2. Becomes("tick", "rebuild", r, w, v) /\ HeldBy("tick", "unwarn", j, v)
    BY <1>b, <1>g, <2>1, RebuildBecomes
  <2> HIDE DEF v
  <2> QED
    BY <1>d, <1>e, <2>1, <2>2
<1>6. CASE ClearedVerdict(p)
  <2> DEFINE v == ClearUnscannedVerdict(w)
  <2>1. /\ Write(p, v) /\ Go(p, "cleared") /\ Keep(p, j) /\ person' = person
        /\ pc[p] = "unwarn"
    BY <1>6, <1>b DEF ClearedVerdict, w
  <2>2. Becomes("tick", "unwarn", r, w, v) /\ HeldBy("tick", "cleared", j, v)
    BY <1>b, <1>g, <2>1, RebuildBecomes
  <2> HIDE DEF v
  <2> QED
    BY <1>d, <1>e, <2>1, <2>2
<1>7. CASE ClearedStage(p)
  <2> DEFINE v == [UpdateStage(w, "triaged") EXCEPT !.escalated = FALSE]
  <2>1. Write(p, v) /\ Done(p, j) /\ person' = person /\ pc[p] = "cleared"
    BY <1>7 DEF ClearedStage, w
  <2>2. Becomes("tick", "cleared", r, w, v)
    BY <1>b, <1>g, <2>1, RebuildBecomes
  <2> HIDE DEF v
  <2> QED
    BY <1>b, <1>f, <2>1, <2>2
<1>8. CASE RebuildEscalates(p)
  <2> DEFINE v == [UpdateStage(w, "pending_review") EXCEPT !.escalated = TRUE]
  <2>1. /\ Write(p, v) /\ Go(p, "evidence") /\ Keep(p, j) /\ person' = person
        /\ pc[p] = "rebuild"
    BY <1>8, <1>b DEF RebuildEscalates, w
  <2>2. Becomes("tick", "rebuild", r, w, v) /\ HeldBy("tick", "evidence", j, v)
    BY <1>b, <1>g, <2>1, RebuildBecomes
  <2> HIDE DEF v
  <2> QED
    BY <1>d, <1>e, <2>1, <2>2
<1>9. CASE Requeue(p)
  <2> DEFINE n == Need[r]
             large == ParkForReview(w, "too_large", n)
             v == ParkForReview(w, "in_review", n)
             k == [j EXCEPT !.why = "in_review", !.text = n]
  <2>1. /\ person' = person /\ pc[p] = "requeue"
        /\ \/ n > j.cap /\ Write(p, large) /\ Done(p, j)
           \/ n <= j.cap /\ Write(p, v) /\ Keep(p, k) /\ Go(p, "unscan")
    BY <1>9 DEF Requeue, w
  <2>2. /\ n > j.cap => Becomes("tick", "requeue", r, w, large)
        /\ n <= j.cap => Becomes("tick", "requeue", r, w, v) /\ HeldBy("tick", "unscan", k, v)
    BY <1>b, <1>g, <2>1, RebuildBecomes
  <2>3. k.rid = r /\ k.todo = j.todo
    BY <1>b DEF Job
  <2> HIDE DEF large, v, k, n
  <2>4. CASE n > j.cap /\ Write(p, large) /\ Done(p, j)
    BY <1>b, <1>f, <2>1, <2>2, <2>4
  <2>5. CASE n <= j.cap /\ Write(p, v) /\ Keep(p, k) /\ Go(p, "unscan")
    BY <1>d, <1>e, <2>1, <2>2, <2>3, <2>5
  <2> QED
    BY <2>1, <2>4, <2>5
<1> QED
  BY <1>1, <1>2, <1>3, <1>4, <1>5, <1>6, <1>7, <1>8, <1>9 DEF Rebuild

\* Pruning changes nothing that matters here.
LEMMA PrunedQuiet ==
    ASSUME PairInv, NEW r \in Releases, row' \in {row, Pruned}, NEW p, NEW place
    PROVE  /\ Becomes(p, place, r, row[r], row'[r]) /\ Quiet(row[r], row'[r])
           /\ Life(row'[r]) = Life(row[r])
<1> DEFINE w == row[r]
           v == row'[r]
<1>1. w \in Row /\ Filed(w) /\ Sized(r, w)
  BY DEF PairInv, InputInv, TypeInv, TypeOK
<1>2. v \in {w, [w EXCEPT !.evidence = FALSE]}
  BY DEF Pruned
<1> HIDE DEF w, v
<1>3. /\ v.stage = w.stage /\ v.reason = w.reason /\ v.chars = w.chars
      /\ v.verdict = w.verdict /\ v.label = w.label /\ v.sent = w.sent
      /\ v.escalated = w.escalated
  BY <1>1, <1>2 DEF Row
<1>4. Quiet(w, v)
  BY <1>3 DEF Quiet
<1>5. Becomes(p, place, r, w, v)
  BY <1>1, <1>3, <1>4 DEF Becomes, Filed, Sized, Keeps, Lives, PlaceIn, AnswerIn
<1>6. Life(v) = Life(w)
  BY <1>3 DEF Life, PlaceIn, AnswerIn
<1> QED
  BY <1>4, <1>5, <1>6 DEF w, v

LEMMA ScanMoves ==
    ASSUME PairInv, Disjoint, NEW p \in Drains, Scan(p)
    PROVE  Moves(p)
<1> DEFINE j == job[p]
           w == Mine(p)
<1>a. /\ row \in [Releases -> Row] /\ pc \in [Drains -> Places] /\ job \in [Drains -> Job]
      /\ j \in Job /\ Own(p)
      /\ pc[p] \notin Free =>
           /\ j.rid \in Releases /\ w \in Row /\ Filed(w) /\ Sized(j.rid, w)
           /\ HeldBy(p, pc[p], j, w) /\ (row' = row => Write(p, w))
      /\ job' = job => Keep(p, j)
  BY PairFacts
<1>b. /\ p = "tick"
      /\ pc[p] \in {"evidence", "queue"} => HeldBy("tick", pc[p], j, w)
  <2>1. pc[p] \in {"scan", "evidence", "queue"}
    BY DEF Scan, Triage, StoreEvidence, QueueDisabled, QueueFitting, QueueTooLarge,
           QueueRaises, EndTick
  <2>2. pc[p] = "scan" => p = "tick"
    BY <1>a DEF Own
  <2>3. pc[p] # "scan" => HeldBy(p, pc[p], j, w)
    BY <1>a, <2>1 DEF Free
  <2>4. p # "tick" /\ pc[p] # "scan" => ManualHeld(pc[p], j, w)
    BY <2>3 DEF HeldBy
  <2>5. p = "tick"
    BY <2>1, <2>2, <2>4 DEF ManualHeld, Asking, Soft, Storing, Stating
  <2> QED
    BY <2>3, <2>5
<1>c. /\ {"evidence", "queue", "requeue", "unscan", "bump"} \subseteq Places \ Free
      /\ {"evidence", "queue", "idle"} \cap Storing = {}
  BY DEF Places, Free, Storing, Stating
<1>1. ASSUME NEW r \in Releases, Triage(p, r)  PROVE Moves(p)
  <2> DEFINE v == [UpdateStage(row[r], "triaged") EXCEPT !.escalated = TRUE]
             k == [j EXCEPT !.rid = r, !.fresh = TRUE]
             place == IF j.mode = "off" THEN "queue" ELSE "evidence"
  <2>1. /\ pc[p] = "scan" /\ row[r].stage = "new" /\ row' = [row EXCEPT ![r] = v]
        /\ Keep(p, k) /\ Go(p, place) /\ person' = person
    BY <1>1 DEF Triage
  <2>2. place \in {"queue", "evidence"}
    OBVIOUS
  <2>3. Becomes("tick", "scan", r, row[r], v) /\ HeldBy("tick", place, k, v)
    <3>1. row[r] \in Row /\ Filed(row[r])
      BY <1>a DEF PairInv
    <3> HIDE DEF place
    <3> QED
      BY <1>a, <2>1, <2>2, <3>1, ScanBecomes
  <2>4. j.todo = {}
    BY <2>1 DEF PairInv, InputInv, Carried
  <2>5. k.rid = r /\ k.todo = {}
    BY <1>a, <2>4 DEF Job
  <2> HIDE DEF v, k, place
  <2>6. /\ pc'[p] = place /\ job'[p] = k
        /\ \A q \in Drains : q # p => pc'[q] = pc[q] /\ job'[q] = job[q]
        /\ row'[r] = v /\ \A q \in Releases : q # r => row'[q] = row[q]
    BY <1>a, <2>1 DEF Go, Keep
  <2>7. Own(p)'
    <3>1. Mine(p)' = v
      BY <2>5, <2>6 DEF Mine
    <3>2. place \notin Free \cup {"drain", "scan", "page"}
      BY <2>2 DEF Free
    <3> QED
      BY <1>b, <2>3, <2>5, <2>6, <3>1, <3>2 DEF Own
  <2>8. ASSUME NEW q \in Releases
        PROVE  /\ Becomes(p, pc[p], q, row[q], row'[q])
               /\ Quiet(row[q], row'[q]) \/ row[q].stage = "new"
    BY <1>b, <2>1, <2>3, <2>6, RowStays
  <2>9. \A q \in Releases : Touches(p, q)' => row[q].stage = "new"
    BY <2>1, <2>5, <2>6 DEF Touches
  <2>10. OneRow
    BY <2>6 DEF OneRow
  <2> QED
    BY <1>b, <2>1, <2>6, <2>7, <2>8, <2>9, <2>10 DEF Moves
<1>2. CASE StoreEvidence(p)
  <2> DEFINE v == IF j.rid \in Coded THEN UpdateEvidence(w) ELSE w
             place == IF j.fresh THEN "queue" ELSE "requeue"
  <2>1. /\ pc[p] = "evidence" /\ Write(p, v) /\ Go(p, place) /\ Keep(p, j) /\ person' = person
    BY <1>2, <1>a DEF StoreEvidence
  <2>2. Becomes("tick", "evidence", j.rid, w, v) /\ HeldBy("tick", place, j, v)
    <3>1. v \in {w, UpdateEvidence(w)}
      OBVIOUS
    <3> HIDE DEF v
    <3> QED
      BY <1>a, <1>b, <2>1, <3>1, ScanBecomes DEF Free
  <2>3. place \in Places \ Free /\ pc[p] \notin Free
    BY <1>c, <2>1
  <2> HIDE DEF v, w, place
  <2> QED
    BY <1>b, <2>1, <2>2, <2>3, MovesOn DEF w
<1> DEFINE n == Need[j.rid]
<1>d. ASSUME pc[p] = "queue"
      PROVE  /\ pc[p] \notin Free
             /\ Becomes("tick", "queue", j.rid, w, ParkForReview(w, "reviewer_disabled", 0))
             /\ Becomes("tick", "queue", j.rid, w, w)
             /\ HeldBy("tick", "bump", [j EXCEPT !.text = n], w)
             /\ (\E cap \in Caps["tick"] : n <= cap) =>
                   \A why \in {"in_review", "endpoint_unreachable"} :
                      LET v == ParkForReview(w, why, n)
                      IN  /\ Becomes("tick", "queue", j.rid, w, v)
                          /\ HeldBy("tick", "unscan", [j EXCEPT !.why = why, !.text = n], v)
             /\ (\E cap \in Caps["tick"] : n > cap) =>
                   Becomes("tick", "queue", j.rid, w, ParkForReview(w, "too_large", n))
  <2>1. pc[p] \notin Free
    BY <1>d DEF Free
  <2>2. Becomes("tick", "queue", j.rid, w, w)
    BY <1>a, <2>1, RowStays DEF Mine
  <2> HIDE DEF w
  <2> QED
    BY <1>a, <1>b, <1>d, <2>1, <2>2, ScanBecomes
<1>3. CASE QueueDisabled(p)
  <2> DEFINE v == ParkForReview(w, "reviewer_disabled", 0)
  <2>1. pc[p] = "queue" /\ Write(p, v) /\ Done(p, j) /\ person' = person
    BY <1>3 DEF QueueDisabled
  <2>2. Becomes("tick", "queue", j.rid, w, v) /\ pc[p] \notin Free
    BY <1>d, <2>1
  <2> HIDE DEF v, w
  <2> QED
    BY <1>a, <1>b, <2>1, <2>2, MovesBack DEF w
<1>4. CASE QueueFitting(p)
  <2>1. PICK why \in {"in_review", "endpoint_unreachable"} :
           /\ Write(p, ParkForReview(w, why, n))
           /\ Keep(p, [j EXCEPT !.why = why, !.text = n])
    BY <1>4 DEF QueueFitting
  <2> DEFINE v == ParkForReview(w, why, n)
             k == [j EXCEPT !.why = why, !.text = n]
  <2>2. /\ pc[p] = "queue" /\ Go(p, "unscan") /\ person' = person
        /\ \E cap \in Caps["tick"] : n <= cap
    BY <1>4, <1>b DEF QueueFitting
  <2>3. /\ Becomes("tick", "queue", j.rid, w, v) /\ HeldBy("tick", "unscan", k, v)
        /\ pc[p] \notin Free
    BY <1>d, <2>2
  <2>4. k.rid = j.rid /\ k.todo = j.todo
    BY <1>a DEF Job
  <2>5. Write(p, v) /\ Keep(p, k)
    BY <2>1
  <2> HIDE DEF v, w, k, n
  <2> QED
    BY <1>b, <1>c, <2>2, <2>3, <2>4, <2>5, MovesOn DEF w
<1>5. CASE QueueTooLarge(p)
  <2> DEFINE v == ParkForReview(w, "too_large", n)
  <2>1. /\ pc[p] = "queue" /\ Write(p, v) /\ Done(p, j) /\ person' = person
        /\ \E cap \in Caps["tick"] : n > cap
    BY <1>5, <1>b DEF QueueTooLarge
  <2>2. Becomes("tick", "queue", j.rid, w, v) /\ pc[p] \notin Free
    BY <1>d, <2>1
  <2> HIDE DEF v, w
  <2> QED
    BY <1>a, <1>b, <2>1, <2>2, MovesBack DEF w
<1>6. CASE QueueRaises(p)
  <2> DEFINE k == [j EXCEPT !.text = n]
  <2>1. pc[p] = "queue" /\ Keep(p, k) /\ Go(p, "bump") /\ row' = row /\ person' = person
    BY <1>6 DEF QueueRaises
  <2>2. /\ Becomes("tick", "queue", j.rid, w, w) /\ HeldBy("tick", "bump", k, w)
        /\ pc[p] \notin Free
    BY <1>d, <2>1
  <2>3. k.rid = j.rid /\ k.todo = j.todo /\ Write(p, w)
    BY <1>a, <2>1, <2>2 DEF Job
  <2> HIDE DEF w, k
  <2> QED
    BY <1>b, <1>c, <2>1, <2>2, <2>3, MovesOn DEF w
<1>7. CASE EndTick(p)
  <2>1. /\ pc[p] = "scan" /\ Go(p, "idle") /\ Keep(p, Rest) /\ row' \in {row, Pruned}
        /\ person' = person
    BY <1>7 DEF EndTick
  <2>2. /\ pc'[p] = "idle" /\ job'[p] = Rest
        /\ \A q \in Drains : q # p => pc'[q] = pc[q] /\ job'[q] = job[q]
    BY <1>a, <2>1 DEF Go, Keep
  <2>3. Rest.rid = 0 /\ Rest.todo = {}
    BY DEF Rest
  <2>4. Own(p)'
    BY <2>2, <2>3 DEF Own, Free
  <2>5. ASSUME NEW r \in Releases
        PROVE  /\ Becomes(p, pc[p], r, row[r], row'[r]) /\ Quiet(row[r], row'[r])
               /\ Life(row'[r]) = Life(row[r])
    BY <1>b, <2>1, <2>5, PrunedQuiet
  <2>6. \A r \in Releases : ~Touches(p, r)'
    BY <2>2, <2>3, ReleasesAssumption DEF Touches
  <2> QED
    BY <1>b, <2>1, <2>2, <2>4, <2>5, <2>6 DEF Moves, OneRow
<1> QED
  BY <1>1, <1>2, <1>3, <1>4, <1>5, <1>6, <1>7 DEF Scan

\* The drains read different rows.
LEMMA ReadsApart ==
    ASSUME PairInv, Disjoint
    PROVE  /\ \A cap \in Caps["tick"] : \A s \in AutoRows(cap) :
                 s.rid \in Releases /\ ReadBy("tick", s)
           /\ \A last : \A s \in ManualPage(last) : s.rid \in Releases /\ ReadBy("manual", s)
<1>a. \A r \in Releases : /\ row[r] \in Row /\ Filed(row[r]) /\ Sized(r, row[r])
                          /\ Need[r] \in Nat /\ Need[r] # 0
                          /\ SnapshotOf(r).rid = r /\ SnapshotOf(r).chars = row[r].chars
                          /\ SnapshotOf(r).reason = row[r].reason
  BY NeedAssumption DEF PairInv, InputInv, TypeInv, TypeOK, SnapshotOf
<1>1. ASSUME NEW cap \in Caps["tick"], NEW s \in AutoRows(cap)
      PROVE  s.rid \in Releases /\ ReadBy("tick", s)
  <2>1. \/ \E r \in Parked(AutoReasons) : s = SnapshotOf(r)
        \/ \E r \in Parked({"too_large"}) : row[r].chars \in 0..cap /\ s = SnapshotOf(r)
    BY Zenon DEF AutoRows, FirstRows
  <2>2. CASE \E r \in Parked(AutoReasons) : s = SnapshotOf(r)
    <3>1. PICK r \in Releases : row[r].reason \in AutoReasons /\ s = SnapshotOf(r)
      BY <2>2 DEF Parked
    <3>2. row[r].reason \notin {NoReason, "too_large"}
      BY <3>1 DEF AutoReasons, NoReason
    <3> QED
      BY <1>a, <3>1, <3>2 DEF ReadBy
  <2>3. CASE \E r \in Parked({"too_large"}) : row[r].chars \in 0..cap /\ s = SnapshotOf(r)
    <3>1. PICK r \in Releases : /\ row[r].reason = "too_large" /\ row[r].chars \in 0..cap
                                /\ s = SnapshotOf(r)
      BY <2>3 DEF Parked
    <3>2. row[r].chars = Need[r] /\ Big(r)
      BY <1>a, <3>1 DEF Sized
    <3>3. cap \in Nat /\ Need[r] <= cap /\ Need[r] > cap
      BY <1>a, <3>1, <3>2, CapsAssumption DEF Big, Disjoint
    <3> QED
      BY <1>a, <3>3
  <2> QED
    BY <2>1, <2>2, <2>3
<1>2. ASSUME NEW last, NEW s \in ManualPage(last)
      PROVE  s.rid \in Releases /\ ReadBy("manual", s)
  <2>1. \E r \in Parked(ManualReasons) : s = SnapshotOf(r)
    BY Zenon DEF ManualPage
  <2>2. PICK r \in Releases : row[r].reason = "too_large" /\ s = SnapshotOf(r)
    BY <2>1 DEF Parked, Disjoint
  <2> QED
    BY <1>a, <2>2 DEF ReadBy, NoReason
<1> QED
  BY <1>1, <1>2

\* What p knows of s when it takes it up.
LEMMA TakenUp ==
    ASSUME PairInv, Disjoint, NEW p \in Drains, pc[p] = "drain", NEW s \in job[p].todo,
           NEW k, k.rid = s.rid, k.cap = job[p].cap, k.was = s.reason
    PROVE  /\ s.rid \in Releases /\ row[s.rid].chars = s.chars
           /\ HeldBy(p, "warnverdict", k, row[s.rid])
           /\ s.chars = 0 => p = "tick" /\ HeldBy(p, "rebuild", k, row[s.rid])
           /\ s.chars \in 1..job[p].cap /\ k.text = s.chars =>
                 HeldBy(p, "admit", k, row[s.rid])
           /\ s.chars > job[p].cap /\ p = "tick" => s.chars = Need[s.rid] /\ Big(s.rid)
<1> DEFINE r == s.rid
           w == row[r]
<1>a. /\ r \in Releases /\ w \in Row /\ Filed(w) /\ Sized(r, w) /\ ReadBy(p, s)
      /\ w.chars = s.chars /\ job[p].cap \in Nat /\ Need[r] \in Nat /\ Need[r] # 0
      /\ p = "tick" => job[p].cap \in Caps["tick"]
      /\ p \in {"tick", "manual"}
  <2>1. Own(p) /\ row \in [Releases -> Row] /\ r \in Releases /\ job[p] \in Job
    BY PairFacts
  <2>2. w.chars = s.chars
    BY DEF PairInv, InputInv, Carried
  <2>3. Need[r] \in Nat /\ Need[r] # 0
    BY <2>1, NeedAssumption
  <2>4. p \in {"tick", "manual"} /\ job[p].cap \in Nat
    BY <2>1, DrainsAssumption DEF Job
  <2> QED
    BY <2>1, <2>2, <2>3, <2>4 DEF Own, PairInv
<1>b. /\ w.reason # NoReason /\ w.stage = "pending_review" /\ w.verdict \notin ModelClasses
      /\ w.chars \in {0, Need[r]}
      /\ w.reason = "too_large" => w.chars = Need[r] /\ Big(r)
      /\ p = "tick" => (Big(r) => w.reason # "too_large")
      /\ p = "tick" => (s.chars = 0 => s.reason \in AutoReasons)
      /\ p = "manual" => w.reason = "too_large"
  BY <1>a DEF ReadBy, Filed, Sized
<1> HIDE DEF w
<1>1. HeldBy(p, "warnverdict", k, w)
  BY <1>a, <1>b
     DEF HeldBy, Held, Living, TickHeld, ManualHeld, Asking, Stating, Storing, Soft, Texted
<1>2. ASSUME s.chars = 0  PROVE p = "tick" /\ HeldBy(p, "rebuild", k, w)
  <2>1. p = "tick"
    BY <1>a, <1>b, <1>2
  <2> QED
    BY <1>a, <1>b, <1>2, <2>1 DEF HeldBy, Held, Living, TickHeld, Asking, Stating, Storing, Texted
<1>3. ASSUME s.chars \in 1..job[p].cap, k.text = s.chars  PROVE HeldBy(p, "admit", k, w)
  <2>1. s.chars = Need[r] /\ Need[r] <= job[p].cap
    BY <1>a, <1>b, <1>3
  <2>2. p = "tick" => ~Big(r)
    BY <1>a, <2>1 DEF Big
  <2> QED
    BY <1>a, <1>b, <1>3, <2>1, <2>2
       DEF HeldBy, Held, Living, TickHeld, ManualHeld, Asking, Stating, Storing, Soft, Texted
<1>4. ASSUME s.chars > job[p].cap, p = "tick"  PROVE s.chars = Need[r] /\ Big(r)
  <2>1. s.chars = Need[r] /\ ~(Need[r] <= job[p].cap)
    BY <1>a, <1>b, <1>4
  <2> QED
    BY <1>a, <1>4, <2>1 DEF Disjoint
<1> QED
  BY <1>a, <1>1, <1>2, <1>3, <1>4 DEF w

\* The drain takes s up, or skips it, and leaves the rows alone.
LEMMA MovesTake ==
    ASSUME PairInv, NEW p \in Drains, pc[p] = "drain", NEW s \in job[p].todo, row' = row,
           NEW place \in (Places \ {"page", "scan"}) \ Storing, Go(p, place),
           NEW k, Keep(p, k), k.todo = job[p].todo \ {s},
           IF place \in Free THEN k.rid = 0 /\ k.cap = job[p].cap
           ELSE k.rid = s.rid /\ HeldBy(p, place, k, row[s.rid]),
           UNCHANGED person
    PROVE  Moves(p)
<1>a. pc \in [Drains -> Places] /\ job \in [Drains -> Job] /\ Own(p)
  BY PairFacts
<1>1. pc'[p] = place /\ job'[p] = k
  BY <1>a DEF Go, Keep
<1>2. Own(p)'
  <2>1. \A t \in k.todo : ReadBy(p, t)'
    BY <1>a DEF Own, ReadBy
  <2>2. place \notin Free => HeldBy(p, place, k, Mine(p)')
    BY <1>1 DEF Mine
  <2>3. p = "tick" /\ place = "drain" => k.cap \in Caps["tick"]
    BY <1>a DEF Own, Free
  <2> QED
    BY <1>1, <2>1, <2>2, <2>3, Zenon DEF Own
<1>3. \A r \in Releases : Touches(p, r)' => Touches(p, r)
  <2>1. k.rid \in {0, s.rid}
    OBVIOUS
  <2> QED
    BY <1>1, <2>1, ReleasesAssumption DEF Touches
<1> QED
  BY <1>2, <1>3, MovesFree

\* The tick puts s back under another reason, and goes on or ends its drain.
LEMMA MovesAside ==
    ASSUME PairInv, NEW p \in Drains, p = "tick", pc[p] = "drain", NEW s \in job[p].todo,
           NEW v, row' = [row EXCEPT ![s.rid] = v],
           Becomes(p, "drain", s.rid, row[s.rid], v),
           \A q \in Drains : q # p => pc'[q] = pc[q] /\ job'[q] = job[q],
           pc'[p] \in {"drain", "scan", "idle"}, job'[p].rid = 0,
           job'[p].todo \subseteq job[p].todo \ {s},
           pc'[p] = "drain" => job'[p].cap = job[p].cap,
           UNCHANGED person
    PROVE  Moves(p)
<1>a. /\ row \in [Releases -> Row] /\ Own(p) /\ s.rid \in Releases
      /\ \A t \in job[p].todo : t.rid \in Releases
      /\ \A t \in job[p].todo : t.rid = s.rid => t = s
  BY PairFacts DEF PairInv, InputInv, Carried
<1>1. row'[s.rid] = v /\ \A r \in Releases : r # s.rid => row'[r] = row[r]
  BY <1>a
<1>2. Own(p)'
  <2>1. \A t \in job'[p].todo : ReadBy(p, t)'
    BY <1>a, <1>1 DEF Own, ReadBy
  <2>2. {"drain", "scan", "idle"} \subseteq Free
    BY DEF Free
  <2>3. pc'[p] = "drain" => job'[p].cap \in Caps["tick"]
    BY <1>a DEF Own
  <2> QED
    BY <2>1, <2>2, <2>3 DEF Own
<1>3. ASSUME NEW r \in Releases
      PROVE  /\ Becomes(p, pc[p], r, row[r], row'[r])
             /\ Quiet(row[r], row'[r]) \/ Touches(p, r)
  BY <1>1, RowStays DEF Touches
<1>4. \A r \in Releases : Touches(p, r)' => Touches(p, r)
  BY ReleasesAssumption DEF Touches
<1> QED
  BY <1>1, <1>2, <1>3, <1>4 DEF Moves, OneRow

LEMMA WalkMoves ==
    ASSUME PairInv, Disjoint, NEW p \in Drains, WalkRows(p)
    PROVE  Moves(p)
<1>a. /\ row \in [Releases -> Row] /\ pc \in [Drains -> Places] /\ job \in [Drains -> Job]
      /\ job[p] \in Job /\ Own(p)
  BY PairFacts
<1>b. /\ {"drain", "scan", "idle", "page"} \subseteq Free
      /\ {"drain", "scan", "idle", "page"} \cap Storing = {}
      /\ {"drain", "warnverdict", "rebuild", "admit"}
            \subseteq (Places \ {"page", "scan"}) \ Storing
      /\ {"warnverdict", "rebuild", "admit"} \cap Free = {}
  BY DEF Places, Free, Storing, Stating
\* Nothing in hand, and nothing left of what was read.
<1>c. ASSUME NEW place \in {"scan", "idle", "page"}, Go(p, place),
             NEW j, Keep(p, j), j.todo = {}, j.rid = 0, row' = row, person' = person,
             place = "scan" => p = "tick", place = "page" => p = "manual"
      PROVE  Moves(p)
  <2>1. pc'[p] = place /\ job'[p] = j
    BY <1>a, <1>c DEF Go, Keep
  <2>2. Own(p)'
    BY <1>b, <1>c, <2>1 DEF Own
  <2>3. \A r \in Releases : ~Touches(p, r)'
    BY <1>c, <2>1, ReleasesAssumption DEF Touches
  <2> QED
    BY <1>b, <1>c, <2>2, <2>3, MovesFree
\* Rows just read.
<1>d. ASSUME Go(p, "drain"), NEW j, Keep(p, j), j.rid = 0, row' = row, person' = person,
             \A s \in j.todo : s.rid \in Releases /\ ReadBy(p, s),
             p = "tick" => j.cap \in Caps["tick"]
      PROVE  Moves(p)
  <2>1. pc'[p] = "drain" /\ job'[p] = j
    BY <1>a, <1>d DEF Go, Keep
  <2>2. Own(p)'
    BY <1>b, <1>d, <2>1 DEF Own, ReadBy
  <2>3. \A r \in Releases : Touches(p, r)' => row[r].reason # NoReason
    BY <1>d, <2>1, ReleasesAssumption DEF Touches, ReadBy
  <2> QED
    BY <1>b, <1>d, <2>2, <2>3, MovesFree
<1>1. CASE TickDrains(p)
  <2>1. PICK cap \in Caps["tick"] : Keep(p, [Rest EXCEPT !.cap = cap, !.todo = AutoRows(cap)])
    BY <1>1 DEF TickDrains
  <2> DEFINE j == [Rest EXCEPT !.cap = cap, !.todo = AutoRows(cap)]
  <2>2. j.rid = 0 /\ j.todo = AutoRows(cap) /\ j.cap = cap
    BY DEF Rest
  <2>3. p = "tick" /\ Keep(p, j) /\ Go(p, "drain") /\ row' = row /\ person' = person
    BY <1>1, <2>1 DEF TickDrains
  <2> HIDE DEF j
  <2> QED
    BY <1>d, <2>2, <2>3, ReadsApart
<1>2. CASE TickOnlyScans(p)
  <2>1. PICK mode : Keep(p, [Rest EXCEPT !.mode = mode])
    BY <1>2 DEF TickOnlyScans
  <2>2. [Rest EXCEPT !.mode = mode].todo = {} /\ [Rest EXCEPT !.mode = mode].rid = 0
    BY DEF Rest
  <2> QED
    BY <1>2, <1>c, <2>1, <2>2 DEF TickOnlyScans
<1>3. CASE StartManual(p)
  <2>1. PICK cap : Keep(p, [Rest EXCEPT !.cap = cap])
    BY <1>3 DEF StartManual
  <2>2. [Rest EXCEPT !.cap = cap].todo = {} /\ [Rest EXCEPT !.cap = cap].rid = 0
    BY DEF Rest
  <2> QED
    BY <1>3, <1>c, <2>1, <2>2 DEF StartManual
<1>4. CASE NextPage(p)
  <2>1. p = "manual" /\ job[p].rid = 0
    BY <1>4, <1>a, <1>b DEF NextPage, Own
  <2>2. Rest.todo = {} /\ Rest.rid = 0
    BY DEF Rest
  <2> DEFINE page == ManualPage(job[p].last)
  <2>3. CASE Go(p, "idle") /\ Keep(p, Rest)
    BY <1>4, <1>c, <2>2, <2>3 DEF NextPage
  <2>4. ASSUME NEW last, Go(p, "drain"),
               Keep(p, [job[p] EXCEPT !.todo = page, !.last = last])
        PROVE  Moves(p)
    <3> DEFINE j == [job[p] EXCEPT !.todo = page, !.last = last]
    <3>1. j.todo = page /\ j.rid = 0
      BY <1>a, <2>1 DEF Job
    <3>2. Keep(p, j) /\ row' = row /\ person' = person
      BY <1>4, <2>4 DEF NextPage
    <3> HIDE DEF j
    <3> QED
      BY <1>d, <2>1, <2>4, <3>1, <3>2, ReadsApart
  <2> QED
    BY <1>4, <2>3, <2>4 DEF NextPage
<1>5. CASE EndRows(p)
  <2>1. Rest.todo = {} /\ Rest.rid = 0 /\ job[p].rid = 0
    BY <1>5, <1>a, <1>b DEF Rest, EndRows, Own
  <2>2. CASE p = "tick" /\ Go(p, "scan") /\ Keep(p, Rest)
    BY <1>5, <1>c, <2>1, <2>2 DEF EndRows
  <2>3. CASE p = "manual" /\ job[p].todo = {} /\ Go(p, "page") /\ UNCHANGED job
    <3>1. Keep(p, job[p])
      BY <1>a, <2>3 DEF Keep
    <3> QED
      BY <1>5, <1>c, <2>1, <2>3, <3>1 DEF EndRows
  <2> QED
    BY <1>5, <2>2, <2>3 DEF EndRows
<1>6. ASSUME NEW s \in job[p].todo,
             \/ WarnExhausted(p, s) \/ NullRow(p, s) \/ OversizedRow(p, s)
             \/ EmptyRow(p, s) \/ StoredRow(p, s)
      PROVE  Moves(p)
  <2>a. /\ pc[p] = "drain" /\ job[p].rid = 0
        /\ s \in Snapshot /\ s.chars # NoInput /\ row[s.rid].chars = s.chars
    <3>1. pc[p] = "drain"
      BY <1>6 DEF WarnExhausted, NullRow, OversizedRow, EmptyRow, StoredRow, IsNext
    <3>2. s \in Snapshot
      BY <1>a DEF Job
    <3> QED
      BY <1>a, <1>b, <3>1, <3>2 DEF Own, PairInv, InputInv, Carried
  <2>b. /\ Take(p, s) \in Job /\ Try(p, s) \in Job /\ s.rid \in Releases
    BY TakeTypes DEF PairInv, InputInv
  <2>c. /\ \A j \in {Take(p, s), Try(p, s)} :
              /\ j.todo = job[p].todo \ {s} /\ j.rid = s.rid
              /\ j.cap = job[p].cap /\ j.was = s.reason
        /\ Skip(p, s).todo = job[p].todo \ {s} /\ Skip(p, s).rid = 0
        /\ Skip(p, s).cap = job[p].cap
    BY <1>a, <2>a DEF Try, Take, Skip, Job
  \* s is put back under another reason.
  <2>d. ASSUME p = "tick", NEW why \in {"too_large", "model_busy"},
               why = "too_large" => s.chars = Need[s.rid] /\ Big(s.rid)
        PROVE  Becomes(p, "drain", s.rid, row[s.rid], SetPendingReason(row[s.rid], why, FALSE))
    <3> DEFINE w == row[s.rid]
               v == SetPendingReason(w, why, FALSE)
    <3>1. w \in Row /\ Filed(w) /\ Sized(s.rid, w) /\ w.reason # NoReason /\ w.chars = s.chars
      BY <1>a, <2>a, <2>b DEF PairInv, Own, ReadBy
    <3>2. /\ v.stage = "pending_review" /\ v.reason = why /\ v.chars = w.chars
          /\ v.verdict = w.verdict /\ v.label = w.label /\ v.sent = w.sent
          /\ v.escalated = w.escalated
      BY <3>1 DEF Row, SetPendingReason
    <3> HIDE DEF v, w
    <3>3. Becomes(p, "drain", s.rid, w, v)
      BY <2>d, <3>1, <3>2
         DEF Becomes, Filed, Sized, Keeps, Lives, OpenIn, PlaceIn, AnswerIn
    <3> QED
      BY <3>3 DEF v, w
  <2>1. CASE WarnExhausted(p, s)
    <3> DEFINE k == Take(p, s)
    <3>1. Keep(p, k) /\ Go(p, "warnverdict") /\ row' = row /\ person' = person
      BY <2>1 DEF WarnExhausted
    <3> HIDE DEF k
    <3>2. k.todo = job[p].todo \ {s} /\ k.rid = s.rid /\ HeldBy(p, "warnverdict", k, row[s.rid])
      BY <2>a, <2>c, TakenUp DEF k
    <3> QED
      BY <1>b, <2>a, <3>1, <3>2, MovesTake
  <2>2. CASE NullRow(p, s)
    BY <2>2, <2>a DEF NullRow
  <2>3. CASE OversizedRow(p, s)
    <3> DEFINE v == SetPendingReason(row[s.rid], "too_large", FALSE)
    <3>1. /\ s.chars > job[p].cap /\ Keep(p, Skip(p, s)) /\ UNCHANGED <<pc, person>>
          /\ row' = IF p = "tick" THEN [row EXCEPT ![s.rid] = v] ELSE row
      BY <2>3 DEF OversizedRow
    <3>2. CASE p = "tick"
      <4>1. s.chars = Need[s.rid] /\ Big(s.rid)
        <5> DEFINE k == Take(p, s)
        <5>1. k.rid = s.rid /\ k.cap = job[p].cap /\ k.was = s.reason
          BY <2>c
        <5> HIDE DEF k
        <5> QED
          BY <2>a, <3>1, <3>2, <5>1, TakenUp
      <4>2. Becomes(p, "drain", s.rid, row[s.rid], v)
        BY <2>d, <3>2, <4>1
      <4>3. /\ \A q \in Drains : q # p => pc'[q] = pc[q] /\ job'[q] = job[q]
            /\ pc'[p] = "drain" /\ job'[p] = Skip(p, s)
        BY <1>a, <2>a, <3>1 DEF Keep
      <4> HIDE DEF v
      <4> QED
        BY <2>a, <2>c, <3>1, <3>2, <4>2, <4>3, MovesAside
    <3>3. CASE p # "tick"
      <4>1. Go(p, "drain")
        BY <1>a, <2>a, <3>1 DEF Go
      <4> QED
        BY <1>b, <2>a, <2>c, <3>1, <3>3, <4>1, MovesTake
    <3> QED
      BY <3>2, <3>3
  <2>4. CASE EmptyRow(p, s)
    <3>a. s.chars = 0 /\ person' = person
      BY <2>4 DEF EmptyRow
    <3>b. /\ p = "tick"
          /\ HeldBy(p, "rebuild", Try(p, s), row[s.rid])
      <4> DEFINE k == Try(p, s)
      <4>1. k.rid = s.rid /\ k.cap = job[p].cap /\ k.was = s.reason
        BY <2>c
      <4> HIDE DEF k
      <4>2. p = "tick" /\ HeldBy(p, "rebuild", k, row[s.rid])
        BY <2>a, <3>a, <4>1, TakenUp
      <4> QED
        BY <4>2 DEF k
    <3>1. CASE Keep(p, Skip(p, s)) /\ UNCHANGED <<row, pc, faults>>
      <4>1. Go(p, "drain")
        BY <1>a, <2>a, <3>1 DEF Go
      <4> QED
        BY <1>b, <2>a, <2>c, <3>a, <3>1, <4>1, MovesTake
    <3>2. CASE /\ row' = [row EXCEPT ![s.rid] = SetPendingReason(@, "model_busy", FALSE)]
               /\ Done(p, [Take(p, s) EXCEPT !.goOn = FALSE])
      <4>1. [Take(p, s) EXCEPT !.goOn = FALSE].goOn = FALSE
        BY <2>b DEF Job
      <4>2. PICK place, mode :
               /\ place \in {"scan", "idle"} /\ Go(p, place)
               /\ Keep(p, Rest) \/ Keep(p, [Rest EXCEPT !.mode = mode])
        BY <3>2, <4>1 DEF Done
      <4>3. /\ pc'[p] \in {"scan", "idle"} /\ job'[p].todo = {} /\ job'[p].rid = 0
            /\ \A q \in Drains : q # p => pc'[q] = pc[q] /\ job'[q] = job[q]
        BY <1>a, <4>2 DEF Go, Keep, Rest
      <4> DEFINE v == SetPendingReason(row[s.rid], "model_busy", FALSE)
      <4>4. Becomes(p, "drain", s.rid, row[s.rid], v)
        BY <2>d, <3>b
      <4>5. row' = [row EXCEPT ![s.rid] = v]
        BY <3>2
      <4> HIDE DEF v
      <4> QED
        BY <2>a, <3>a, <3>b, <4>3, <4>4, <4>5, MovesAside
    <3>3. CASE Keep(p, Try(p, s)) /\ Go(p, "rebuild") /\ UNCHANGED row
      BY <1>b, <2>a, <2>c, <3>a, <3>b, <3>3, MovesTake
    <3> QED
      BY <2>4, <3>1, <3>2, <3>3 DEF EmptyRow
  <2>5. CASE StoredRow(p, s)
    <3> DEFINE k == [Try(p, s) EXCEPT !.text = row[s.rid].chars]
    <3>1. /\ s.chars \in 1..job[p].cap /\ person' = person /\ row' = row
          /\ Keep(p, k) /\ Go(p, "admit")
      <4>1. s.chars \in 1..job[p].cap /\ person' = person /\ row' = row
        BY <2>5 DEF StoredRow
      <4>2. ~(row[s.rid].chars <= 0)
        BY <1>a, <2>a, <4>1 DEF Job
      <4> QED
        BY <2>5, <4>1, <4>2 DEF StoredRow
    <3>2. /\ k.todo = job[p].todo \ {s} /\ k.rid = s.rid /\ k.cap = job[p].cap
          /\ k.was = s.reason /\ k.text = s.chars
      BY <2>a, <2>b, <2>c DEF Job
    <3> HIDE DEF k
    <3>3. HeldBy(p, "admit", k, row[s.rid])
      BY <2>a, <3>1, <3>2, TakenUp
    <3> QED
      BY <1>b, <2>a, <3>1, <3>2, <3>3, MovesTake
  <2> QED
    BY <1>6, <2>1, <2>2, <2>3, <2>4, <2>5
<1> QED
  BY <1>1, <1>2, <1>3, <1>4, <1>5, <1>6 DEF WalkRows

-----------------------------------------------------------------------------
(* The steps of everybody else, and the theorems about two drains.         *)

\* A process that does not move is left alone by whatever only does quiet things.
LEMMA LeftAlone ==
    ASSUME PairInv, NEW q \in Drains, pc'[q] = pc[q], job'[q] = job[q],
           \A r \in Releases : Quiet(row[r], row'[r])
    PROVE  Own(q)' /\ Carried(q)'
<1>a. /\ job[q] \in Job /\ Own(q) /\ pc[q] \in Places
      /\ \A s \in job[q].todo : s.rid \in Releases
      /\ pc[q] \notin Free => job[q].rid \in Releases /\ HeldBy(q, pc[q], job[q], Mine(q))
      /\ pc[q] \in Recording => job[q].outcome \in Outcomes
      /\ Carried(q)
  BY PairFacts DEF PairInv, InputInv
<1>1. \A r \in Releases : row'[r].reason = row[r].reason /\ row'[r].chars = row[r].chars
  BY DEF Quiet
<1>2. pc[q] \notin Free => HeldBy(q, pc[q], job[q], Mine(q)')
  <2>1. pc[q] \notin Free => Quiet(Mine(q), Mine(q)')
    BY <1>a DEF Mine
  <2> QED
    BY <1>a, <2>1, HeldStays
<1>3. \A s \in job[q].todo : ReadBy(q, s)'
  BY <1>a, <1>1 DEF Own, ReadBy
<1>4. Own(q)'
  BY <1>a, <1>2, <1>3, Zenon DEF Own
<1>5. Carried(q)'
  <2>1. pc[q] = "rebuild" => Mine(q)'.chars = Mine(q).chars
    BY <1>a, <1>1 DEF Mine, Free
  <2> QED
    BY <1>a, <1>1, <2>1 DEF Carried
<1> QED
  BY <1>4, <1>5

\* A person labels a release or alerts about it, or somebody prunes.
LEMMA PersonQuiet ==
    ASSUME PairInv, Person
    PROVE  /\ \A q \in Releases :
                /\ Filed(row'[q]) /\ Sized(q, row'[q]) /\ Quiet(row[q], row'[q])
                /\ row[q].verdict \in ModelClasses => row'[q].verdict = row[q].verdict
           /\ person' # Nobody => row'[person'.rid].label # "none"
           /\ pc' = pc /\ job' = job
<1>a. /\ row \in [Releases -> Row] /\ person \in {Nobody} \cup Labelled
      /\ person # Nobody => row[person.rid].label # "none"
      /\ \A q \in Releases : Filed(row[q]) /\ Sized(q, row[q])
  BY DEF PairInv, InputInv, TypeInv, TypeOK
<1>b. \A q \in Releases : Quiet(row[q], row[q])
  BY DEF Quiet
<1>1. ASSUME NEW r \in Releases, NEW label \in Labels, Adjudicate(r, label)
      PROVE  /\ \A q \in Releases :
                  /\ Filed(row'[q]) /\ Sized(q, row'[q]) /\ Quiet(row[q], row'[q])
                  /\ row[q].verdict \in ModelClasses => row'[q].verdict = row[q].verdict
             /\ person' # Nobody => row'[person'.rid].label # "none"
             /\ pc' = pc /\ job' = job
  <2> DEFINE w == row[r]
             v == AdjudicateRow(w, label)
  <2>1. label # "none" /\ row[r].stage # "new"
    BY <1>1, LabelsAssumption DEF ModelClasses, Adjudicate
  <2>2. /\ v.stage = w.stage /\ v.escalated = w.escalated
        /\ v.reason = w.reason /\ v.chars = w.chars
        /\ v.sent = w.sent /\ v.label = label
        /\ v.verdict = IF w.verdict = "none" THEN "unreviewed" ELSE w.verdict
    BY <1>a DEF AdjudicateRow, Row
  <2>3. /\ row' = [row EXCEPT ![r] = v] /\ pc' = pc /\ job' = job
        /\ person' = Nobody \/ person'.rid = r
    BY <1>1 DEF Adjudicate
  <2> HIDE DEF v
  <2>4. /\ Filed(v) /\ Sized(r, v) /\ Quiet(w, v)
        /\ w.verdict \in ModelClasses => v.verdict = w.verdict
    <3>1. "unreviewed" \notin ModelClasses /\ "none" \notin ModelClasses
      BY DEF ModelClasses
    <3>2. Filed(w) /\ Sized(r, w)
      BY <1>a
    <3> QED
      BY <2>1, <2>2, <3>1, <3>2 DEF Filed, Sized, Quiet
  <2>5. row'[r] = v /\ \A q \in Releases : q # r => row'[q] = row[q]
    BY <1>a, <2>3
  <2> QED
    BY <1>a, <1>b, <2>1, <2>2, <2>3, <2>4, <2>5
<1>2. CASE AdjudicationAlert
  <2> DEFINE r == person.rid
             w == row[r]
             v == Emit(w, person.label)
  <2>1. r \in Releases /\ w.label # "none"
    BY <1>2, <1>a DEF AdjudicationAlert, Labelled
  <2>2. /\ v.stage = w.stage /\ v.escalated = w.escalated
        /\ v.reason = w.reason /\ v.chars = w.chars
        /\ w.sent \subseteq v.sent /\ v.label = w.label /\ v.verdict = w.verdict
    BY <1>a, <2>1 DEF Emit, Row
  <2>3. row' = [row EXCEPT ![r] = v] /\ pc' = pc /\ job' = job /\ person' = Nobody
    BY <1>2 DEF AdjudicationAlert
  <2> HIDE DEF v
  <2>4. Filed(v) /\ Sized(r, v) /\ Quiet(w, v)
    BY <1>a, <2>1, <2>2 DEF Filed, Sized, Quiet
  <2>5. row'[r] = v /\ \A q \in Releases : q # r => row'[q] = row[q]
    BY <1>a, <2>1, <2>3
  <2> HIDE DEF r
  <2> QED
    BY <1>a, <1>b, <2>1, <2>2, <2>3, <2>4, <2>5
<1>3. CASE Prune
  <2>1. row' = Pruned /\ person' = person /\ pc' = pc /\ job' = job
    BY <1>3 DEF Prune
  <2>2. ASSUME NEW q \in Releases
        PROVE  /\ Becomes("tick", "idle", q, row[q], row'[q]) /\ Quiet(row[q], row'[q])
               /\ row'[q].label = row[q].label
    <3>1. Pruned[q] \in {row[q], [row[q] EXCEPT !.evidence = FALSE]} /\ row[q] \in Row
      BY <1>a DEF Pruned
    <3>2. Pruned[q].label = row[q].label
      BY <3>1 DEF Row
    <3> QED
      BY <2>1, <3>2, PrunedQuiet
  <2>3. person # Nobody => person.rid \in Releases
    BY <1>a DEF Labelled
  <2> QED
    BY <1>a, <2>1, <2>2, <2>3 DEF Becomes, Keeps
<1> QED
  BY <1>1, <1>2, <1>3 DEF Person

\* What a step of a drain leaves behind it.
LEMMA DrainPair ==
    ASSUME PairInv, Disjoint, TypeInv', NEW p \in Drains, Moves(p), Kept', Carried(p)'
    PROVE  PairInv'
<1>a. /\ person \in {Nobody} \cup Labelled /\ person' = person
      /\ Own("manual") /\ Own("tick") /\ {"manual", "tick"} = Drains
      /\ job \in [Drains -> Job]
  BY DEF PairInv, InputInv, TypeInv, TypeOK, Moves, Disjoint
<1>1. \A q \in Drains : Own(q)' /\ Carried(q)'
  <2>1. \A q \in Drains : q # p => Own(q)' /\ Carried(q)'
    BY Undisturbed
  <2>2. Own(p)' /\ Carried(p)'
    BY DEF Moves
  <2> QED
    BY <2>1, <2>2, Zenon
<1>2. ASSUME NEW r \in Releases
      PROVE  /\ Filed(row'[r]) /\ Sized(r, row'[r])
             /\ row[r].label # "none" => row'[r].label # "none"
  BY DEF Moves, Becomes, Keeps
<1>3. person' # Nobody => row'[person'.rid].label # "none"
  BY <1>a, <1>2 DEF PairInv, Labelled
<1>4. ASSUME pc'["manual"] \in Storing  PROVE ~Touches("tick", job["manual"].rid)'
  <2> DEFINE r == job'["manual"].rid
  <2>a. Storing \cap Free = {} /\ "clear" \notin Free
    BY DEF Storing, Stating, Free
  <2>1. CASE p = "manual"
    <3>1. /\ pc["manual"] \in Storing \cup {"clear"} /\ r = job["manual"].rid
          /\ job'["tick"] = job["tick"]
      BY <1>4, <1>a, <2>1 DEF Moves
    <3>2. ASSUME pc["manual"] = "clear"  PROVE ~Touches("tick", r)
      <4>1. HeldBy("manual", "clear", job["manual"], row[r])
        BY <1>a, <2>a, <3>1, <3>2 DEF Own, Mine
      <4>2. Big(r) /\ row[r].reason = "too_large"
        BY <3>1, <4>1 DEF HeldBy, ManualHeld, Asking
      <4>3. r \in Releases
        BY <1>a, <2>a, <3>1, <3>2, PairFacts
      <4>4. job["tick"].rid # r
        <5>1. ASSUME job["tick"].rid = r  PROVE FALSE
          <6>1. pc["tick"] \notin Free
            BY <1>a, <4>3, <5>1, ReleasesAssumption DEF Own
          <6>2. TickHeld(pc["tick"], job["tick"], row[r])
            BY <1>a, <5>1, <6>1 DEF Own, Mine, HeldBy
          <6> QED
            BY <4>2, <5>1, <6>2 DEF TickHeld
        <5> QED
          BY <5>1
      <4>5. \A s \in job["tick"].todo : s.rid # r
        BY <1>a, <4>2 DEF Own, ReadBy
      <4> QED
        BY <4>4, <4>5 DEF Touches
    <3>3. ~Touches("tick", r)
      BY <3>1, <3>2 DEF PairInv
    <3> QED
      BY <3>1, <3>3 DEF Touches
  <2>2. CASE p = "tick"
    <3>1. pc'["manual"] = pc["manual"] /\ job'["manual"] = job["manual"]
      BY <1>a, <2>2 DEF Moves
    <3>2. pc["manual"] \in Storing /\ job["manual"].rid \in Releases
      BY <1>4, <1>a, <2>a, <3>1, PairFacts
    <3>3. PICK x \in Releases : x = job["manual"].rid
      BY <3>2
    <3>4. ~Touches("tick", x) /\ row[x].stage # "new" /\ row[x].reason = NoReason
      <4>1. HeldBy("manual", pc["manual"], job["manual"], row[x])
        BY <1>a, <2>a, <3>2, <3>3, PairFacts DEF Mine
      <4> QED
        BY <3>2, <3>3, <4>1 DEF HeldBy, Held, PairInv
    <3>5. ~Touches("tick", x)'
      BY <2>2, <3>4 DEF Moves
    <3> QED
      BY <3>1, <3>3, <3>5 DEF Touches
  <2> QED
    BY <1>a, <2>1, <2>2
<1> QED
  BY <1>1, <1>2, <1>3, <1>4 DEF PairInv, InputInv

LEMMA StepMoves ==
    ASSUME PairInv, Disjoint, NEW p \in Drains, Step(p)
    PROVE  Moves(p)
BY WalkMoves, AttemptMoves, RecordMoves, ScanMoves, RebuildMoves DEF Step

LEMMA PairStep ==
    ASSUME PairInv, Disjoint, [Next]_vars
    PROVE  /\ PairInv'
           /\ \A r \in Releases : row[r].verdict \in ModelClasses
                                      => row'[r].verdict = row[r].verdict
<1>a. InputInv /\ TypeInv'
  BY NextTypes DEF PairInv, InputInv
<1>1. ASSUME NEW p \in Drains, Step(p)
      PROVE  /\ PairInv'
             /\ \A r \in Releases : row[r].verdict \in ModelClasses
                                        => row'[r].verdict = row[r].verdict
  <2>1. Moves(p)
    BY <1>1, StepMoves
  <2>2. Kept' /\ Carried(p)'
    BY <1>a, <1>1, WalkKeeps, ReviewKeeps, RecordKeeps, ScanKeeps, RebuildKeeps DEF Step
  <2>3. PairInv'
    BY <1>a, <2>1, <2>2, DrainPair
  <2> QED
    BY <2>1, <2>3 DEF Moves, Becomes, Keeps
<1>2. ASSUME NEW p \in Drains, Kill(p)
      PROVE  PairInv' /\ row' = row
  <2>1. /\ row' = row /\ person' = person /\ pc'[p] = "idle" /\ job'[p] = Rest
        /\ \A q \in Drains : q # p => pc'[q] = pc[q] /\ job'[q] = job[q]
    BY <1>2 DEF Kill, Go, Keep, PairInv, InputInv, TypeInv, TypeOK
  <2>2. \A r \in Releases : Quiet(row[r], row'[r])
    BY <2>1, RowStays
  <2>3. \A q \in Drains : q # p => Own(q)' /\ Carried(q)'
    BY <2>1, <2>2, LeftAlone
  <2>4. Own(p)' /\ Carried(p)'
    BY <2>1 DEF Own, Carried, Rest, Free, Texted
  <2>5. \A q \in Drains : Own(q)' /\ Carried(q)'
    BY <2>3, <2>4, Zenon
  <2>6. ASSUME pc'["manual"] \in Storing  PROVE ~Touches("tick", job["manual"].rid)'
    <3>1. p # "manual"
      BY <1>2, <2>1, <2>6 DEF Storing, Stating
    <3>2. pc'["manual"] = pc["manual"] /\ job'["manual"] = job["manual"]
      BY <2>1, <3>1 DEF Disjoint
    <3>3. ~Touches("tick", job["manual"].rid) /\ job["manual"].rid \in Releases
      BY <2>6, <3>2, PairFacts DEF PairInv, Storing, Stating, Free, Disjoint
    <3>4. CASE p = "tick"
      BY <2>1, <3>2, <3>3, <3>4, ReleasesAssumption DEF Touches, Rest
    <3> QED
      BY <3>1, <3>4 DEF Disjoint
  <2> QED
    BY <1>a, <2>1, <2>5, <2>6 DEF PairInv, InputInv, Kept
<1>3. CASE Person
  <2>1. /\ \A q \in Releases :
             /\ Filed(row'[q]) /\ Sized(q, row'[q]) /\ Quiet(row[q], row'[q])
             /\ row[q].verdict \in ModelClasses => row'[q].verdict = row[q].verdict
        /\ person' # Nobody => row'[person'.rid].label # "none"
        /\ pc' = pc /\ job' = job
    BY <1>3, PersonQuiet
  <2>2. \A p \in Drains : Own(p)' /\ Carried(p)'
    BY <2>1, LeftAlone
  <2>3. Kept'
    BY <1>a, <2>1 DEF InputInv, Kept, Sound, Quiet
  <2>4. \A r : Touches("tick", r)' <=> Touches("tick", r)
    BY <2>1 DEF Touches
  <2>5. pc'["manual"] \in Storing => ~Touches("tick", job["manual"].rid)'
    BY <2>1 DEF Touches, PairInv
  <2> QED
    BY <1>a, <2>1, <2>2, <2>3, <2>5 DEF PairInv, InputInv
<1>4. CASE UNCHANGED vars
  <2>1. row' = row /\ pc' = pc /\ job' = job /\ person' = person
    BY <1>4 DEF vars
  <2>2. \A p \in Drains : Own(p)' /\ Carried(p)'
    BY <2>1, LeftAlone, RowStays
  <2>3. pc'["manual"] \in Storing => ~Touches("tick", job["manual"].rid)'
    BY <2>1 DEF Touches, PairInv
  <2> QED
    BY <1>a, <2>1, <2>2, <2>3 DEF PairInv, InputInv, Kept
<1> QED
  BY <1>1, <1>2, <1>3, <1>4 DEF Next

LEMMA PairInit ==
    ASSUME Disjoint, Init
    PROVE  PairInv
<1>1. InputInv
  BY InitTypes DEF Init, InputInv, Kept, Sound, NewRow, Carried, Rest, Texted
<1>2. \A r \in Releases : Filed(row[r]) /\ Sized(r, row[r])
  BY DEF Init, NewRow, Filed, Sized, NoReason
<1>3. ASSUME NEW p \in Drains  PROVE pc[p] = "idle" /\ job[p] = Rest /\ Own(p)
  BY DEF Init, Own, Rest, Free
<1>4. pc["manual"] \notin Storing
  BY <1>3 DEF Disjoint, Storing, Stating
<1>5. person = Nobody
  BY DEF Init
<1> QED
  BY <1>1, <1>2, <1>3, <1>4, <1>5 DEF PairInv

LEMMA PairAlways ==
    ASSUME Disjoint
    PROVE  Spec => []PairInv
<1>1. Init => PairInv
  BY PairInit
<1>2. PairInv /\ [Next]_vars => PairInv'
  BY PairStep
<1> QED
  BY <1>1, <1>2, PTL DEF Spec

\* park_for_review, with `review-pending --reason too_large` run beside watch: a
\* queued release keeps its review input until it leaves the queue, wherever and
\* however often the two are killed, whoever labels or prunes meanwhile.
THEOREM InputKeptByTwo ==
    ASSUME Disjoint
    PROVE  Spec => []QueuedHasInput
<1>1. PairInv => QueuedHasInput
  BY DEF PairInv, InputInv, Kept, Sound, QueuedHasInput
<1> QED
  BY <1>1, PairAlways, PTL

\* _record and _review_failed, the same two processes: neither replaces what a
\* model answered the other, although the tick may have read a row before
\* `review-pending` took it (the run queue_lost_verdict shows an overlap doing so).
THEOREM VerdictsFinalByTwo ==
    ASSUME Disjoint
    PROVE  Spec => VerdictFinal
<1>1. PairInv /\ [Next]_vars =>
        [\A r \in Releases : row[r].verdict \in ModelClasses
                                 => row'[r].verdict = row[r].verdict]_vars
  BY PairStep
<1> QED
  BY <1>1, PairAlways, PTL DEF Spec, VerdictFinal

\* _record's order of commits, the same two processes: an alert about a release
\* has the verdict it reports behind it, and what is settled as malicious has
\* alerted, though each of the two writes rows the other may be warning about.
THEOREM AlertsMatchByTwo ==
    ASSUME Disjoint
    PROVE  Spec => []AlertsMatchVerdicts
<1>1. PairInv => AlertsMatchVerdicts
  BY DEF PairInv, Filed, AlertsMatchVerdicts
<1> QED
  BY <1>1, PairAlways, PTL

\* Nobody labels a release: every step lives by the abstract life.
LEMMA PairLived ==
    ASSUME PairInv, Disjoint, Labels = {}, person = Nobody, [Next]_vars
    PROVE  Lived /\ person' = Nobody
<1>a. \A q \in Releases : Keeps(row[q], row[q])
  BY DEF Keeps
<1>1. ASSUME NEW p \in Drains, Step(p)  PROVE Lived /\ person' = Nobody
  <2>1. Moves(p)
    BY <1>1, StepMoves
  <2>2. /\ OneRow /\ person' = person
        /\ \A q \in Releases : Keeps(row[q], row'[q]) /\ Lives(row[q], row'[q])
    BY <2>1 DEF Moves, Becomes
  <2> QED
    BY <2>2, Zenon DEF Lived, OneRow
<1>2. ASSUME NEW p \in Drains, Kill(p)  PROVE Lived /\ person' = Nobody
  <2>1. row' = row /\ person' = person
    BY <1>2 DEF Kill
  <2> QED
    BY <1>a, <2>1 DEF Lived
<1>3. CASE Person
  <2>1. Prune
    BY <1>3 DEF Person, AdjudicationAlert
  <2>2. row' \in {row, Pruned} /\ person' = person
    BY <2>1 DEF Prune
  <2>3. \A q \in Releases : /\ Life(row'[q]) = Life(row[q])
                           /\ Becomes("tick", "idle", q, row[q], row'[q])
    BY <2>2, PrunedQuiet
  <2> QED
    BY <2>2, <2>3 DEF Lived, Becomes
<1>4. CASE UNCHANGED vars
  BY <1>a, <1>4 DEF vars, Lived
<1> QED
  BY <1>1, <1>2, <1>3, <1>4 DEF Next

\* The refinement, the same two processes and nobody labelling: what a model
\* concluded and what is closed stay whichever of the two concluded it, a
\* release leaves the queue only for a person, for good or on a model's answer,
\* and it is closed as malicious only after its alert (_record, _rebuild_removed).
THEOREM PairImplementsOutcome ==
    ASSUME Disjoint, Labels = {}
    PROVE  Spec => ImplementsOutcome
<1>1. Init => PairInv /\ person = Nobody
  BY PairInit DEF Init
<1>2. PairInv /\ person = Nobody /\ [Next]_vars => (PairInv /\ person = Nobody)'
  BY PairStep, PairLived
<1>3. Init => Outcome!Init
  BY DEF Init, Outcome!Init, PlaceOf, AnswerOf, Settled, NewRow
<1>4. PairInv /\ person = Nobody /\ [Next]_vars => [Outcome!Next]_Outcome!vars
  BY PairLived, MappedStep
<1> QED
  BY <1>1, <1>2, <1>3, <1>4, PTL DEF Spec, ImplementsOutcome, Outcome!Spec

=============================================================================
