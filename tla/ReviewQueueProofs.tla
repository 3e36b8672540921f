-------------------------- MODULE ReviewQueueProofs --------------------------
(***************************************************************************)
(* Proofs about ReviewQueue: type correctness and mutual exclusion at the  *)
(* model for any drains, and that a queued release keeps its review input  *)
(* when one drain runs at a time, wherever that drain is killed; and how a *)
(* step of the queue, row by row, is a step of ReleaseOutcome.             *)
(***************************************************************************)
EXTENDS ReviewQueue, TLAPS

-----------------------------------------------------------------------------
(* Every store function maps a row to a row.                               *)

LEMMA StoreTypes ==
    ASSUME NEW w \in Row
    PROVE  /\ \A stage \in Stages : UpdateStage(w, stage) \in Row
           /\ \A why \in Reasons \cup {NoReason}, n \in Nat \cup {NoInput} :
                 /\ ParkForReview(w, why, n) \in Row
                 /\ Park(w, why, n) \in Row
           /\ \A why \in Reasons \cup {NoReason}, gone \in BOOLEAN :
                 SetPendingReason(w, why, gone) \in Row
           /\ ClearPending(w) \in Row
           /\ BumpReviewAttempts(w) \in Row
           /\ \A verdict \in Verdicts : RecordVerdict(w, verdict) \in Row
           /\ ClearUnscannedVerdict(w) \in Row
           /\ ClearEvidence(w) \in Row
           /\ UpdateEvidence(w) \in Row
           /\ \A key \in Alerts : Emit(w, key) \in Row
           /\ \A label \in ModelClasses : AdjudicateRow(w, label) \in Row
<1> USE DEF Row
<1>1. \A stage \in Stages : UpdateStage(w, stage) \in Row
  BY DEF UpdateStage
<1>2. \A why \in Reasons \cup {NoReason}, n \in Nat \cup {NoInput} :
         ParkForReview(w, why, n) \in Row
  BY DEF ParkForReview, Stages
<1>3. \A why \in Reasons \cup {NoReason}, gone \in BOOLEAN :
         SetPendingReason(w, why, gone) \in Row
  BY DEF SetPendingReason, Stages
<1>4. \A why \in Reasons \cup {NoReason}, n \in Nat \cup {NoInput} :
         Park(w, why, n) \in Row
  BY <1>2, <1>3 DEF Park
<1>5. ClearPending(w) \in Row
  BY DEF ClearPending
<1>6. BumpReviewAttempts(w) \in Row
  BY BoundsAssumption DEF BumpReviewAttempts
<1>7. \A verdict \in Verdicts : RecordVerdict(w, verdict) \in Row
  BY DEF RecordVerdict
<1>8. ClearUnscannedVerdict(w) \in Row
  BY DEF ClearUnscannedVerdict, Verdicts
<1>9. ClearEvidence(w) \in Row /\ UpdateEvidence(w) \in Row
  BY DEF ClearEvidence, UpdateEvidence
<1>10. \A key \in Alerts : Emit(w, key) \in Row
  BY DEF Emit
<1>11. \A label \in ModelClasses : AdjudicateRow(w, label) \in Row
  BY DEF AdjudicateRow, Verdicts
<1> QED
  BY <1>1, <1>2, <1>3, <1>4, <1>5, <1>6, <1>7, <1>8, <1>9, <1>10, <1>11

\* Pruning changes nothing but evidence.
LEMMA PrunedRows ==
    ASSUME row \in [Releases -> Row]
    PROVE  /\ Pruned \in [Releases -> Row]
           /\ \A r \in Releases : /\ Pruned[r].chars = row[r].chars
                                  /\ Pruned[r].reason = row[r].reason
<1>1. ASSUME NEW r \in Releases
      PROVE  /\ Pruned[r] \in Row
             /\ Pruned[r].chars = row[r].chars
             /\ Pruned[r].reason = row[r].reason
  BY <1>1 DEF Pruned, Row
<1> QED
  BY <1>1 DEF Pruned

LEMMA SnapshotTypes ==
    ASSUME row \in [Releases -> Row]
    PROVE  /\ \A r \in Releases : row[r].reason \in Reasons => SnapshotOf(r) \in Snapshot
           /\ \A cap \in Nat : AutoRows(cap) \in SUBSET Snapshot
           /\ \A last \in Nat : ManualPage(last) \in SUBSET Snapshot
<1>1. \A r \in Releases : row[r].reason \in Reasons => SnapshotOf(r) \in Snapshot
  BY DEF Row, SnapshotOf, Snapshot
<1>2. ASSUME NEW cap \in Nat  PROVE AutoRows(cap) \in SUBSET Snapshot
  <2>1. \A r \in Parked(AutoReasons) : SnapshotOf(r) \in Snapshot
    BY <1>1 DEF Parked, Reasons
  <2>2. \A r \in Parked({"too_large"}) : SnapshotOf(r) \in Snapshot
    BY <1>1 DEF Parked, Reasons
  <2> QED
    BY <2>1, <2>2, Zenon DEF AutoRows, FirstRows
<1>3. ASSUME NEW last \in Nat  PROVE ManualPage(last) \in SUBSET Snapshot
  <2>1. \A r \in Parked(ManualReasons) : SnapshotOf(r) \in Snapshot
    BY <1>1, ReasonsAssumption DEF Parked
  <2> QED
    BY <2>1, Zenon DEF ManualPage
<1> QED
  BY <1>1, <1>2, <1>3

-----------------------------------------------------------------------------
(* Type correctness.  Which locals of a process mean something depends on   *)
(* where it is, so the invariant carries that along.                       *)

\* Where a process has no release in hand.
Free == {"idle", "page", "drain", "scan"}

Recording == {"clear", "verdict", "drop", "stage", "alert"}

LocalsKnown ==
    \A p \in Drains :
        /\ pc[p] \notin Free => job[p].rid \in Releases
        /\ pc[p] \in Recording => job[p].outcome \in Outcomes
        /\ pc[p] = "alert" => job[p].outcome \in DOMAIN KeyOf

TypeInv == TypeOK /\ LocalsKnown

LEMMA WriteTypes ==
    ASSUME row \in [Releases -> Row], NEW p \in Drains, NEW w,
           job[p].rid \in Releases => w \in Row,
           Write(p, w)
    PROVE  row' \in [Releases -> Row]
BY DEF Write

LEMMA MineTypes ==
    ASSUME TypeOK, NEW p \in Drains, job[p].rid \in Releases
    PROVE  Mine(p) \in Row
BY DEF Mine, TypeOK

LEMMA StepTypes ==
    ASSUME TypeInv, NEW p \in Drains, NEW place \in Places, NEW j \in Job,
           Go(p, place), Keep(p, j),
           place \notin Free => j.rid \in Releases,
           place \in Recording => j.outcome \in Outcomes,
           place = "alert" => j.outcome \in DOMAIN KeyOf
    PROVE  /\ pc' \in [Drains -> Places]
           /\ job' \in [Drains -> Job]
           /\ LocalsKnown'
<1>1. pc' \in [Drains -> Places] /\ job' \in [Drains -> Job]
  BY DEF TypeInv, TypeOK, Go, Keep
<1>2. \A q \in Drains : q # p => pc'[q] = pc[q] /\ job'[q] = job[q]
  BY DEF TypeInv, TypeOK, Go, Keep
<1>3. pc'[p] = place /\ job'[p] = j
  BY DEF TypeInv, TypeOK, Go, Keep
<1> QED
  BY <1>1, <1>2, <1>3 DEF TypeInv, LocalsKnown

LEMMA FaultTypes ==
    ASSUME TypeInv, Fault
    PROVE  faults' \in 0..MaxFaults
BY BoundsAssumption DEF TypeInv, TypeOK, Fault

LEMMA RestType == Rest \in Job
BY DEF Rest, Job

LEMMA DoneTypes ==
    ASSUME TypeInv, NEW p \in Drains, NEW j \in Job, Done(p, j)
    PROVE  /\ pc' \in [Drains -> Places]
           /\ job' \in [Drains -> Job]
           /\ LocalsKnown'
<1> DEFINE away == [j EXCEPT !.rid = 0, !.fresh = FALSE, !.was = NoReason,
                          !.wasGone = FALSE, !.why = NoReason,
                          !.text = NoInput, !.spent = FALSE, !.goOn = TRUE,
                          !.outcome = "none"]
<1>1. away \in Job
  BY DEF Job
<1>2. [Rest EXCEPT !.mode = j.mode] \in Job
  BY DEF Rest, Job
<1>3. {"drain", "scan", "idle"} \subseteq (Places \ Recording) \cap Free
  BY DEF Places, Recording, Free
<1> HIDE DEF away
<1>4. CASE Go(p, "drain") /\ Keep(p, away)
  BY <1>1, <1>3, <1>4, StepTypes
<1>5. CASE Go(p, "scan") /\ Keep(p, [Rest EXCEPT !.mode = j.mode])
  BY <1>2, <1>3, <1>5, StepTypes
<1>6. CASE Go(p, "idle") /\ Keep(p, Rest)
  BY RestType, <1>3, <1>6, StepTypes
<1> QED
  BY <1>4, <1>5, <1>6 DEF Done, away

LEMMA GoTypes ==
    ASSUME TypeInv, NEW p \in Drains, NEW place \in Places,
           Go(p, place), UNCHANGED job,
           place \notin Free => job[p].rid \in Releases,
           place \in Recording => job[p].outcome \in Outcomes,
           place = "alert" => job[p].outcome \in DOMAIN KeyOf
    PROVE  /\ pc' \in [Drains -> Places]
           /\ job' \in [Drains -> Job]
           /\ LocalsKnown'
<1>1. job[p] \in Job /\ Keep(p, job[p])
  BY DEF TypeInv, TypeOK, Keep
<1> QED
  BY <1>1, StepTypes

LEMMA JobUpdates ==
    ASSUME NEW j \in Job
    PROVE  /\ \A todo \in SUBSET Snapshot : [j EXCEPT !.todo = todo] \in Job
           /\ \A outcome \in Outcomes :
                 LET k == [j EXCEPT !.outcome = outcome]
                 IN  k \in Job /\ k.rid = j.rid
           /\ \A why \in Reasons, goOn \in BOOLEAN :
                 LET k == [j EXCEPT !.why = why, !.goOn = goOn]
                 IN  k \in Job /\ k.rid = j.rid
           /\ \A why \in Reasons, n \in Nat :
                 LET k == [j EXCEPT !.why = why, !.text = n]
                 IN  k \in Job /\ k.rid = j.rid
           /\ \A why \in Reasons, spent \in BOOLEAN :
                 LET k == [j EXCEPT !.why = why, !.spent = spent]
                 IN  k \in Job /\ k.rid = j.rid
           /\ \A n \in Nat, down \in BOOLEAN :
                 LET k == [j EXCEPT !.text = n, !.down = down]
                 IN  k \in Job /\ k.rid = j.rid
           /\ \A n \in Nat :
                 LET k == [j EXCEPT !.text = n]
                 IN  k \in Job /\ k.rid = j.rid
           /\ \A down \in BOOLEAN : [j EXCEPT !.down = down] \in Job
           /\ \A goOn \in BOOLEAN :
                 LET k == [j EXCEPT !.goOn = goOn]
                 IN  k \in Job /\ k.rid = j.rid
           /\ \A r \in Releases :
                 LET k == [j EXCEPT !.rid = r, !.fresh = TRUE]
                 IN  k \in Job /\ k.rid = r
<1>1. \A todo \in SUBSET Snapshot : [j EXCEPT !.todo = todo] \in Job
  BY DEF Job
<1>2. \A outcome \in Outcomes :
       LET k == [j EXCEPT !.outcome = outcome]
       IN  k \in Job /\ k.rid = j.rid
  BY DEF Job
<1>3. \A why \in Reasons, goOn \in BOOLEAN :
       LET k == [j EXCEPT !.why = why, !.goOn = goOn]
       IN  k \in Job /\ k.rid = j.rid
  BY DEF Job
<1>4. \A why \in Reasons, n \in Nat :
       LET k == [j EXCEPT !.why = why, !.text = n]
       IN  k \in Job /\ k.rid = j.rid
  BY DEF Job
<1>5. \A why \in Reasons, spent \in BOOLEAN :
       LET k == [j EXCEPT !.why = why, !.spent = spent]
       IN  k \in Job /\ k.rid = j.rid
  BY DEF Job
<1>6. \A n \in Nat, down \in BOOLEAN :
       LET k == [j EXCEPT !.text = n, !.down = down]
       IN  k \in Job /\ k.rid = j.rid
  BY DEF Job
<1>7. \A n \in Nat :
       LET k == [j EXCEPT !.text = n]
       IN  k \in Job /\ k.rid = j.rid
  BY DEF Job
<1>8. \A down \in BOOLEAN : [j EXCEPT !.down = down] \in Job
  BY DEF Job
<1>9. \A goOn \in BOOLEAN :
       LET k == [j EXCEPT !.goOn = goOn]
       IN  k \in Job /\ k.rid = j.rid
  BY DEF Job
<1>10. \A r \in Releases :
       LET k == [j EXCEPT !.rid = r, !.fresh = TRUE]
       IN  k \in Job /\ k.rid = r
  BY DEF Job
<1> QED
  BY <1>1, <1>2, <1>3, <1>4, <1>5, <1>6, <1>7, <1>8, <1>9, <1>10

LEMMA TakeTypes ==
    ASSUME TypeInv, NEW p \in Drains, NEW s \in job[p].todo
    PROVE  /\ s \in Snapshot /\ s.rid \in Releases
           /\ Skip(p, s) \in Job /\ Take(p, s) \in Job /\ Try(p, s) \in Job
           /\ Take(p, s).rid = s.rid /\ Try(p, s).rid = s.rid
<1>1. job[p] \in Job /\ job[p].todo \in SUBSET Snapshot
  BY DEF TypeInv, TypeOK, Job
<1>2. s \in Snapshot
  BY <1>1
<1>3. Skip(p, s) \in Job
  BY <1>1, JobUpdates DEF Skip
<1>4. Take(p, s) \in Job /\ Take(p, s).rid = s.rid
  BY <1>2, <1>3 DEF Take, Job, Snapshot
<1>5. Try(p, s) \in Job /\ Try(p, s).rid = s.rid
  BY <1>4 DEF Try, Job
<1> QED
  BY <1>2, <1>3, <1>4, <1>5 DEF Snapshot

LEMMA WalkRowsTypes ==
    ASSUME TypeInv, NEW p \in Drains, WalkRows(p)
    PROVE  TypeInv'
<1> USE DEF TypeInv
<1>a. job[p] \in Job
  BY DEF TypeOK
<1>b. row \in [Releases -> Row]
  BY DEF TypeOK
<1>c. {"idle", "page", "drain", "scan", "rebuild", "admit", "bump",
       "warnverdict"} \subseteq Places \ Recording
  BY DEF Places, Recording
<1>d. "alert" \in Recording /\ {"idle", "page", "drain", "scan"} \subseteq Free
  BY DEF Recording, Free
<1> HIDE DEF TypeInv
<1> SUFFICES /\ row' \in [Releases -> Row]
             /\ pc' \in [Drains -> Places] /\ job' \in [Drains -> Job]
             /\ LocalsKnown'
             /\ faults' \in 0..MaxFaults
             /\ UNCHANGED <<slot, person, crashes>>
  BY DEF TypeInv, TypeOK
<1>1. CASE TickDrains(p)
  <2>1. PICK cap \in Caps[p] :
           Keep(p, [Rest EXCEPT !.cap = cap, !.todo = AutoRows(cap)])
    BY <1>1 DEF TickDrains
  <2>2. cap \in Nat
    BY CapsAssumption
  <2>3. [Rest EXCEPT !.cap = cap, !.todo = AutoRows(cap)] \in Job
    BY <1>b, <2>2, RestType, SnapshotTypes DEF Job
  <2> QED
    BY <1>1, <1>b, <1>c, <1>d, <2>1, <2>3, StepTypes DEF TickDrains, TypeInv, TypeOK
<1>2. CASE TickOnlyScans(p)
  <2>1. PICK mode \in {"offline", "off"} : Keep(p, [Rest EXCEPT !.mode = mode])
    BY <1>2 DEF TickOnlyScans
  <2>2. [Rest EXCEPT !.mode = mode] \in Job
    BY RestType DEF Job
  <2> QED
    BY <1>2, <1>b, <1>c, <1>d, <2>1, <2>2, StepTypes, BoundsAssumption
    DEF TickOnlyScans, Fault, TypeInv, TypeOK
<1>3. CASE StartManual(p)
  <2>1. PICK cap \in Caps[p] : Keep(p, [Rest EXCEPT !.cap = cap])
    BY <1>3 DEF StartManual
  <2>2. [Rest EXCEPT !.cap = cap] \in Job
    BY RestType, CapsAssumption DEF Job
  <2> QED
    BY <1>3, <1>b, <1>c, <1>d, <2>1, <2>2, StepTypes DEF StartManual, TypeInv, TypeOK
<1>4. CASE NextPage(p)
  <2> DEFINE page == ManualPage(job[p].last)
  <2>1. page \in SUBSET Snapshot
    BY <1>a, <1>b, SnapshotTypes DEF Job
  <2>2. CASE Go(p, "idle") /\ Keep(p, Rest)
    BY <1>4, <1>b, <1>c, <1>d, <2>2, RestType, StepTypes DEF NextPage, TypeInv, TypeOK
  <2>3. ASSUME NEW s \in page, Go(p, "drain"),
               Keep(p, [job[p] EXCEPT !.todo = page, !.last = s.rid])
        PROVE  /\ pc' \in [Drains -> Places] /\ job' \in [Drains -> Job]
               /\ LocalsKnown'
    <3>1. [job[p] EXCEPT !.todo = page, !.last = s.rid] \in Job
      BY <1>a, <2>1, ReleasesAssumption DEF Job, Snapshot
    <3> QED
      BY <1>c, <1>d, <2>3, <3>1, StepTypes
  <2>4. row' = row /\ UNCHANGED <<slot, person, faults, crashes>>
    BY <1>4 DEF NextPage
  <2> QED
    BY <1>4, <1>b, <2>2, <2>3, <2>4 DEF NextPage, TypeInv, TypeOK
<1>5. CASE EndRows(p)
  <2>1. CASE Go(p, "scan") /\ Keep(p, Rest)
    BY <1>5, <1>b, <1>c, <1>d, <2>1, RestType, StepTypes DEF EndRows, TypeInv, TypeOK
  <2>2. CASE Go(p, "page") /\ UNCHANGED job
    BY <1>5, <1>b, <1>c, <1>d, <2>2, GoTypes DEF EndRows, TypeInv, TypeOK
  <2> QED
    BY <1>5, <2>1, <2>2 DEF EndRows
<1>6. ASSUME NEW s \in job[p].todo,
             \/ WarnExhausted(p, s) \/ NullRow(p, s) \/ OversizedRow(p, s)
             \/ EmptyRow(p, s) \/ StoredRow(p, s)
      PROVE  /\ row' \in [Releases -> Row]
             /\ pc' \in [Drains -> Places] /\ job' \in [Drains -> Job]
             /\ LocalsKnown'
             /\ faults' \in 0..MaxFaults
             /\ UNCHANGED <<slot, person, crashes>>
  <2>a. /\ s \in Snapshot /\ s.rid \in Releases
        /\ Skip(p, s) \in Job /\ Take(p, s) \in Job /\ Try(p, s) \in Job
        /\ Take(p, s).rid = s.rid /\ Try(p, s).rid = s.rid
    BY TakeTypes
  <2>b. faults \in 0..MaxFaults
    BY DEF TypeInv, TypeOK
  <2>1. CASE WarnExhausted(p, s)
    BY <2>1, <2>a, <2>b, <1>b, <1>c, <1>d, StepTypes DEF WarnExhausted
  <2>2. CASE NullRow(p, s)
    BY <2>2, <2>a, <2>b, <1>b, <1>c, <1>d, StepTypes DEF NullRow
  <2>3. CASE OversizedRow(p, s)
    <3>1. /\ UNCHANGED <<pc, slot, person, faults, crashes>>
          /\ Keep(p, Skip(p, s)) /\ pc[p] = "drain"
          /\ \/ row' = row
             \/ row' = [row EXCEPT ![s.rid] =
                            SetPendingReason(row[s.rid], "too_large", FALSE)]
      BY <2>3 DEF OversizedRow, IsNext
    <3>2. SetPendingReason(row[s.rid], "too_large", FALSE) \in Row
      BY <1>b, <2>a, StoreTypes DEF Reasons
    <3>3. row' \in [Releases -> Row]
      BY <1>b, <3>1, <3>2
    <3>4. Go(p, "drain")
      BY <3>1 DEF Go, TypeInv, TypeOK
    <3> QED
      BY <1>c, <1>d, <2>a, <2>b, <3>1, <3>3, <3>4, StepTypes
  <2>4. CASE EmptyRow(p, s)
    <3>1. CASE Keep(p, Skip(p, s)) /\ UNCHANGED <<row, pc, faults>>
      <4>1. Go(p, "drain")
        BY <2>4, <3>1 DEF Go, TypeInv, TypeOK, EmptyRow, IsNext
      <4> QED
        BY <1>b, <1>c, <1>d, <2>4, <2>a, <2>b, <3>1, <4>1, StepTypes DEF EmptyRow
    <3>2. CASE /\ Fault
               /\ row' = [row EXCEPT ![s.rid] =
                             SetPendingReason(@, "model_busy", FALSE)]
               /\ Done(p, [Take(p, s) EXCEPT !.goOn = FALSE])
      <4>1. SetPendingReason(row[s.rid], "model_busy", FALSE) \in Row
        BY <1>b, <2>a, StoreTypes DEF Reasons, AutoReasons
      <4>2. row' \in [Releases -> Row]
        BY <1>b, <3>2, <4>1
      <4>3. [Take(p, s) EXCEPT !.goOn = FALSE] \in Job
        BY <2>a, JobUpdates
      <4>4. faults' \in 0..MaxFaults
        BY <2>b, <3>2, BoundsAssumption DEF Fault
      <4> QED
        BY <2>4, <3>2, <4>2, <4>3, <4>4, DoneTypes DEF EmptyRow
    <3>3. CASE /\ Keep(p, Try(p, s)) /\ Go(p, "rebuild")
               /\ UNCHANGED <<row, faults>>
      BY <1>b, <1>c, <1>d, <2>4, <2>a, <2>b, <3>3, StepTypes DEF EmptyRow
    <3> QED
      BY <2>4, <3>1, <3>2, <3>3 DEF EmptyRow
  <2>5. CASE StoredRow(p, s)
    <3>1. row[s.rid].chars > 0 => row[s.rid].chars \in Nat
      BY <1>b, <2>a DEF Row, NoInput
    <3>2. row[s.rid].chars > 0 =>
             /\ [Try(p, s) EXCEPT !.text = row[s.rid].chars] \in Job
             /\ [Try(p, s) EXCEPT !.text = row[s.rid].chars].rid = s.rid
      BY <2>a, <3>1, JobUpdates
    <3>3. row' = row /\ UNCHANGED <<slot, person, faults, crashes>>
      BY <2>5 DEF StoredRow
    <3>4. \/ /\ row[s.rid].chars > 0 /\ Go(p, "admit")
             /\ Keep(p, [Try(p, s) EXCEPT !.text = row[s.rid].chars])
          \/ Keep(p, Try(p, s)) /\ Go(p, "bump")
      BY <2>5 DEF StoredRow
    <3> QED
      BY <1>b, <1>c, <1>d, <2>a, <2>b, <3>2, <3>3, <3>4, StepTypes
  <2> QED
    BY <1>6, <2>1, <2>2, <2>3, <2>4, <2>5
<1> QED
  BY <1>1, <1>2, <1>3, <1>4, <1>5, <1>6 DEF WalkRows

LEMMA AttemptReviewTypes ==
    ASSUME TypeInv, NEW p \in Drains, AttemptReview(p)
    PROVE  TypeInv'
<1>a. job[p] \in Job /\ row \in [Releases -> Row]
  BY DEF TypeInv, TypeOK
<1>b. {"admit", "slot", "model", "bump", "park", "unscan", "warnverdict",
       "warn"} \subseteq Places \ Recording
  BY DEF Places, Recording
<1>c. "alert" \in Recording /\ "clear" \in Places /\ "clear" # "alert"
  BY DEF Recording, Places
<1>g. job[p].rid \in Releases
  <2>1. pc[p] \notin Free
    BY DEF AttemptReview, Admitted, Refused, EnterSlot, Answer, EndpointDown,
           ReviewFails, CountAttempt, ParkAgain, DropUnreviewed, WarnVerdict,
           Warn, Free
  <2> QED
    BY <2>1 DEF TypeInv, LocalsKnown
<1>d. /\ slot \in Drains \cup {"free"} /\ person \in {Nobody} \cup Labelled
      /\ faults \in 0..MaxFaults /\ crashes \in 0..MaxCrashes
  BY DEF TypeInv, TypeOK
<1>e. Mine(p) \in Row
  BY <1>g, MineTypes DEF TypeInv
<1>f. {"model_busy", "endpoint_unreachable", "review_failed"} \subseteq Reasons
  BY DEF Reasons, AutoReasons
<1> SUFFICES /\ row' \in [Releases -> Row]
             /\ pc' \in [Drains -> Places] /\ job' \in [Drains -> Job]
             /\ LocalsKnown'
             /\ slot' \in Drains \cup {"free"}
             /\ faults' \in 0..MaxFaults
             /\ UNCHANGED <<person, crashes>>
  BY <1>d DEF TypeInv, TypeOK
<1>1. CASE Admitted(p)
  BY <1>1, <1>a, <1>b, <1>c, <1>g, <1>d, GoTypes DEF Admitted
<1>2. CASE Refused(p)
  <2> DEFINE k == [job[p] EXCEPT !.why = "model_busy", !.goOn = FALSE]
  <2>1. k \in Job /\ k.rid = job[p].rid
    BY <1>a, <1>f, JobUpdates
  <2>2. Keep(p, k) /\ Go(p, "park") /\ Fault
    BY <1>2 DEF Refused
  <2> HIDE DEF k
  <2>3. /\ pc' \in [Drains -> Places] /\ job' \in [Drains -> Job]
        /\ LocalsKnown'
    BY <1>b, <1>c, <1>g, <2>1, <2>2, StepTypes
  <2> QED
    BY <1>2, <1>a, <1>d, <2>2, <2>3, FaultTypes DEF Refused
<1>3. CASE EnterSlot(p)
  BY <1>3, <1>a, <1>b, <1>c, <1>g, <1>d, GoTypes DEF EnterSlot
<1>4. ASSUME NEW outcome \in Outcomes, Answer(p, outcome)
      PROVE  /\ pc' \in [Drains -> Places] /\ job' \in [Drains -> Job]
             /\ LocalsKnown' /\ slot' = "free"
             /\ UNCHANGED <<row, person, faults, crashes>>
  <2> DEFINE k == [job[p] EXCEPT !.outcome = outcome]
  <2>1. k \in Job /\ k.rid = job[p].rid
    BY <1>a, JobUpdates
  <2>2. k.outcome = outcome
    BY <1>a DEF Job
  <2> QED
    BY <1>4, <1>c, <1>g, <2>1, <2>2, StepTypes DEF Answer
<1>5. CASE EndpointDown(p)
  <2> DEFINE k == [job[p] EXCEPT !.why = "endpoint_unreachable", !.goOn = FALSE]
  <2>1. k \in Job /\ k.rid = job[p].rid
    BY <1>a, <1>f, JobUpdates
  <2>2. Keep(p, k) /\ Go(p, "park") /\ Fault
    BY <1>5 DEF EndpointDown
  <2> HIDE DEF k
  <2>3. /\ pc' \in [Drains -> Places] /\ job' \in [Drains -> Job]
        /\ LocalsKnown'
    BY <1>b, <1>c, <1>g, <2>1, <2>2, StepTypes
  <2> QED
    BY <1>5, <1>a, <1>d, <2>2, <2>3, FaultTypes DEF EndpointDown
<1>6. ASSUME NEW timeout \in BOOLEAN, ReviewFails(p, timeout)
      PROVE  /\ pc' \in [Drains -> Places] /\ job' \in [Drains -> Job]
             /\ LocalsKnown' /\ slot' = "free"
             /\ UNCHANGED <<row, person, faults, crashes>>
  <2> DEFINE k == [job[p] EXCEPT !.goOn = ~timeout]
  <2>1. k \in Job /\ k.rid = job[p].rid
    BY <1>a, JobUpdates
  <2> QED
    BY <1>6, <1>b, <1>c, <1>g, <2>1, StepTypes DEF ReviewFails
<1>7. CASE CountAttempt(p)
  <2>1. row' \in [Releases -> Row]
    BY <1>7, <1>a, <1>e, StoreTypes, WriteTypes DEF CountAttempt
  <2> DEFINE spent == row'[job[p].rid].attempts >= MaxAttempts
             k == [job[p] EXCEPT !.why = "review_failed", !.spent = spent]
  <2>2. Keep(p, k) /\ Go(p, "park")
    BY <1>7 DEF CountAttempt
  <2>3. spent \in BOOLEAN
    OBVIOUS
  <2> HIDE DEF spent
  <2>4. k \in Job /\ k.rid = job[p].rid
    BY <1>a, <1>f, <2>3 DEF Job
  <2> HIDE DEF k
  <2>5. /\ pc' \in [Drains -> Places] /\ job' \in [Drains -> Job]
        /\ LocalsKnown'
    BY <1>b, <1>c, <1>g, <2>2, <2>4, StepTypes
  <2> QED
    BY <1>7, <1>d, <2>1, <2>5 DEF CountAttempt
<1>8. CASE ParkAgain(p)
  <2>1. Park(Mine(p), job[p].why, job[p].text) \in Row
    BY <1>a, <1>e, StoreTypes DEF Job
  <2>2. row' \in [Releases -> Row]
    BY <1>8, <1>a, <2>1, WriteTypes DEF ParkAgain
  <2> QED
    BY <1>8, <1>b, <1>c, <1>g, <1>d, <2>2, GoTypes DEF ParkAgain
<1>9. CASE DropUnreviewed(p)
  <2>1. row' \in [Releases -> Row]
    BY <1>9, <1>a, <1>e, StoreTypes, WriteTypes DEF DropUnreviewed
  <2>2. CASE Go(p, "admit") /\ UNCHANGED job
    BY <1>9, <1>b, <1>c, <1>g, <1>d, <2>1, <2>2, GoTypes DEF DropUnreviewed
  <2>3. CASE Done(p, job[p])
    BY <1>9, <1>a, <1>d, <2>1, <2>3, DoneTypes DEF DropUnreviewed
  <2> QED
    BY <1>9, <2>2, <2>3 DEF DropUnreviewed
<1>10. CASE WarnVerdict(p)
  <2>1. row' \in [Releases -> Row]
    BY <1>10, <1>a, <1>e, StoreTypes, WriteTypes DEF WarnVerdict, Verdicts
  <2> QED
    BY <1>10, <1>b, <1>c, <1>g, <1>d, <2>1, GoTypes DEF WarnVerdict
<1>11. CASE Warn(p)
  <2>1. row' \in [Releases -> Row]
    BY <1>11, <1>a, <1>e, StoreTypes, WriteTypes DEF Warn, Alerts
  <2> QED
    BY <1>11, <1>a, <1>d, <2>1, DoneTypes DEF Warn
<1> QED
  BY <1>1, <1>2, <1>3, <1>4, <1>5, <1>6, <1>7, <1>8, <1>9, <1>10, <1>11, <1>a,
     <1>d DEF AttemptReview

LEMMA RecordTypes ==
    ASSUME TypeInv, NEW p \in Drains, Record(p)
    PROVE  TypeInv'
<1>a. job[p] \in Job /\ row \in [Releases -> Row]
  BY DEF TypeInv, TypeOK
<1>b. Recording \subseteq Places
  BY DEF Places, Recording
<1>c. /\ pc[p] \in Recording => job[p].outcome \in Outcomes
      /\ pc[p] = "alert" => job[p].outcome \in DOMAIN KeyOf
  BY DEF TypeInv, LocalsKnown
<1>e. job[p].rid \in Releases
  <2>1. pc[p] \notin Free
    BY DEF Record, Unpark, StoreVerdict, DropEvidence, SetStage, Alert, Free
  <2> QED
    BY <2>1 DEF TypeInv, LocalsKnown
<1>d. Mine(p) \in Row
  BY <1>e, MineTypes DEF TypeInv
<1> SUFFICES /\ row' \in [Releases -> Row]
             /\ pc' \in [Drains -> Places] /\ job' \in [Drains -> Job]
             /\ LocalsKnown'
             /\ UNCHANGED <<slot, person, faults, crashes>>
  BY DEF TypeInv, TypeOK
<1>1. CASE Unpark(p)
  <2>1. row' \in [Releases -> Row]
    BY <1>1, <1>a, <1>d, StoreTypes, WriteTypes DEF Unpark
  <2> QED
    BY <1>1, <1>b, <1>c, <2>1, <1>e, GoTypes DEF Unpark, Recording
<1>2. CASE StoreVerdict(p)
  <2>1. job[p].outcome \in Outcomes
    BY <1>2, <1>c DEF StoreVerdict, Recording
  <2>2. Stored[job[p].outcome] \in Verdicts
    BY <2>1 DEF Stored, Outcomes, Verdicts, ModelClasses
  <2>3. row' \in [Releases -> Row]
    BY <1>2, <1>a, <1>d, <2>2, StoreTypes, WriteTypes DEF StoreVerdict
  <2>4. PICK place \in {"drop", "alert", "stage"} :
           /\ Go(p, place)
           /\ place = "alert" => job[p].outcome = "malicious"
    BY <1>2 DEF StoreVerdict
  <2>5. "malicious" \in DOMAIN KeyOf
    BY DEF KeyOf
  <2> QED
    BY <1>2, <1>b, <2>1, <2>3, <2>4, <2>5, <1>e, GoTypes DEF StoreVerdict, Recording
<1>3. CASE DropEvidence(p)
  <2>1. row' \in [Releases -> Row]
    BY <1>3, <1>a, <1>d, StoreTypes, WriteTypes DEF DropEvidence
  <2> QED
    BY <1>3, <1>b, <1>c, <2>1, <1>e, GoTypes DEF DropEvidence, Recording
<1>4. CASE SetStage(p)
  <2>1. job[p].outcome \in Outcomes
    BY <1>4, <1>c DEF SetStage, Recording
  <2>2. StageOf[job[p].outcome] \in Stages
    BY <2>1 DEF StageOf, Outcomes, Stages
  <2>3. row' \in [Releases -> Row]
    BY <1>4, <1>a, <1>d, <2>2, StoreTypes, WriteTypes DEF SetStage
  <2>4. CASE /\ job[p].outcome \in {"no_content", "downgraded"}
             /\ Go(p, "alert") /\ UNCHANGED job
    <3>1. job[p].outcome \in DOMAIN KeyOf
      BY <2>4 DEF KeyOf
    <3> QED
      BY <1>4, <1>b, <2>1, <2>3, <2>4, <3>1, <1>e, GoTypes DEF SetStage, Recording
  <2>5. CASE Done(p, job[p])
    BY <1>4, <1>a, <2>3, <2>5, DoneTypes DEF SetStage
  <2> QED
    BY <1>4, <2>4, <2>5 DEF SetStage
<1>5. CASE Alert(p)
  <2>1. /\ job[p].outcome \in Outcomes
        /\ job[p].outcome \in {"no_content", "downgraded", "malicious"}
    BY <1>5, <1>c DEF Alert, Recording, KeyOf
  <2>2. KeyOf[job[p].outcome] \in Alerts
    BY <2>1 DEF KeyOf, Alerts
  <2>3. row' \in [Releases -> Row]
    BY <1>5, <1>a, <1>d, <2>2, StoreTypes, WriteTypes DEF Alert
  <2>4. CASE Go(p, "stage") /\ UNCHANGED job
    BY <1>5, <1>b, <2>1, <2>3, <2>4, <1>e, GoTypes DEF Alert, Recording
  <2>5. CASE Done(p, job[p])
    BY <1>5, <1>a, <2>3, <2>5, DoneTypes DEF Alert
  <2> QED
    BY <1>5, <2>4, <2>5 DEF Alert
<1> QED
  BY <1>1, <1>2, <1>3, <1>4, <1>5 DEF Record

LEMMA ScanTypes ==
    ASSUME TypeInv, NEW p \in Drains, Scan(p)
    PROVE  TypeInv'
<1>a. job[p] \in Job /\ row \in [Releases -> Row]
  BY DEF TypeInv, TypeOK
<1>b. {"queue", "evidence", "requeue", "unscan", "bump", "idle"}
         \subseteq Places \ Recording
  BY DEF Places, Recording
<1>c. "alert" \in Recording /\ "idle" \in Free
  BY DEF Recording, Free
<1>d. /\ pc[p] \notin Free => job[p].rid \in Releases
      /\ job[p].rid \in Releases => Mine(p) \in Row
  BY MineTypes DEF TypeInv, LocalsKnown
<1>e. \A r \in Releases : Need[r] \in Nat
  BY NeedAssumption
<1>f. {"in_review", "endpoint_unreachable", "reviewer_disabled", "too_large"}
         \subseteq Reasons
  BY DEF Reasons, AutoReasons
<1> SUFFICES /\ row' \in [Releases -> Row]
             /\ pc' \in [Drains -> Places] /\ job' \in [Drains -> Job]
             /\ LocalsKnown'
             /\ UNCHANGED <<slot, person, faults, crashes>>
  BY DEF TypeInv, TypeOK
<1>1. ASSUME NEW r \in Releases, Triage(p, r)
      PROVE  /\ row' \in [Releases -> Row]
             /\ pc' \in [Drains -> Places] /\ job' \in [Drains -> Job]
             /\ LocalsKnown' /\ UNCHANGED <<slot, person, faults, crashes>>
  <2> DEFINE k == [job[p] EXCEPT !.rid = r, !.fresh = TRUE]
             w == [UpdateStage(row[r], "triaged") EXCEPT !.escalated = TRUE]
  <2>1. w \in Row
    BY <1>a DEF UpdateStage, Row, Stages
  <2>2. row' = [row EXCEPT ![r] = w]
    BY <1>1 DEF Triage
  <2>3. k \in Job /\ k.rid = r
    BY <1>a, JobUpdates
  <2>4. PICK place \in {"queue", "evidence"} : Go(p, place)
    BY <1>1 DEF Triage
  <2>5. Keep(p, k) /\ UNCHANGED <<slot, person, faults, crashes>>
    BY <1>1 DEF Triage
  <2> HIDE DEF k, w
  <2>6. row' \in [Releases -> Row]
    BY <1>a, <2>1, <2>2
  <2> QED
    BY <1>b, <1>c, <2>3, <2>4, <2>5, <2>6, StepTypes
<1>2. CASE StoreEvidence(p)
  <2>1. job[p].rid \in Releases /\ Mine(p) \in Row
    BY <1>2, <1>d DEF StoreEvidence, Free
  <2>a. PICK w \in Row : Write(p, w)
    BY <1>2, <2>1, StoreTypes DEF StoreEvidence
  <2>2. row' \in [Releases -> Row]
    BY <1>a, <2>a, WriteTypes
  <2>3. PICK place \in {"queue", "requeue"} : Go(p, place)
    BY <1>2 DEF StoreEvidence
  <2> QED
    BY <1>2, <1>b, <1>c, <2>1, <2>2, <2>3, GoTypes DEF StoreEvidence
<1>3. CASE QueueDisabled(p)
  <2>1. job[p].rid \in Releases /\ Mine(p) \in Row
    BY <1>3, <1>d DEF QueueDisabled, Free
  <2>2. ParkForReview(Mine(p), "reviewer_disabled", 0) \in Row
    BY <1>f, <2>1, StoreTypes
  <2>3. row' \in [Releases -> Row]
    BY <1>3, <1>a, <2>2, WriteTypes DEF QueueDisabled
  <2> QED
    BY <1>3, <1>a, <2>3, DoneTypes DEF QueueDisabled
<1>4. CASE QueueFitting(p)
  <2>1. job[p].rid \in Releases /\ Mine(p) \in Row
    BY <1>4, <1>d DEF QueueFitting, Free
  <2> DEFINE n == Need[job[p].rid]
  <2>2. PICK why \in {"in_review", "endpoint_unreachable"} :
           /\ Write(p, ParkForReview(Mine(p), why, n))
           /\ Keep(p, [job[p] EXCEPT !.why = why, !.text = n])
    BY <1>4 DEF QueueFitting
  <2>3. n \in Nat /\ why \in Reasons
    BY <1>e, <1>f, <2>1
  <2> HIDE DEF n
  <2>4. ParkForReview(Mine(p), why, n) \in Row
    BY <2>1, <2>3, StoreTypes
  <2> DEFINE k == [job[p] EXCEPT !.why = why, !.text = n]
  <2>5. k \in Job /\ k.rid = job[p].rid
    BY <1>a, <2>3 DEF Job
  <2>6. row' \in [Releases -> Row]
    BY <1>a, <2>2, <2>4, WriteTypes
  <2>7. Go(p, "unscan") /\ UNCHANGED <<slot, person, faults, crashes>>
    BY <1>4 DEF QueueFitting
  <2> QED
    BY <1>b, <1>c, <2>1, <2>2, <2>5, <2>6, <2>7, StepTypes
<1>5. CASE QueueTooLarge(p)
  <2>1. job[p].rid \in Releases /\ Mine(p) \in Row
    BY <1>5, <1>d DEF QueueTooLarge, Free
  <2>2. ParkForReview(Mine(p), "too_large", Need[job[p].rid]) \in Row
    BY <1>e, <1>f, <2>1, StoreTypes
  <2>3. row' \in [Releases -> Row]
    BY <1>5, <1>a, <2>2, WriteTypes DEF QueueTooLarge
  <2> QED
    BY <1>5, <1>a, <2>3, DoneTypes DEF QueueTooLarge
<1>6. CASE QueueRaises(p)
  <2>1. job[p].rid \in Releases
    BY <1>6, <1>d DEF QueueRaises, Free
  <2> DEFINE n == Need[job[p].rid]
             k == [job[p] EXCEPT !.text = n]
  <2>a. n \in Nat
    BY <1>e, <2>1
  <2>b. Keep(p, k) /\ Go(p, "bump")
    BY <1>6 DEF QueueRaises
  <2> HIDE DEF n
  <2>2. k \in Job /\ k.rid = job[p].rid
    BY <1>a, <2>a, JobUpdates
  <2> HIDE DEF k
  <2> QED
    BY <1>6, <1>a, <1>b, <1>c, <2>1, <2>2, <2>b, StepTypes DEF QueueRaises
<1>7. CASE EndTick(p)
  <2>1. row' \in [Releases -> Row]
    BY <1>7, <1>a, PrunedRows DEF EndTick
  <2> QED
    BY <1>7, <1>b, <1>c, <2>1, RestType, StepTypes DEF EndTick
<1> QED
  BY <1>1, <1>2, <1>3, <1>4, <1>5, <1>6, <1>7 DEF Scan

LEMMA RebuildTypes ==
    ASSUME TypeInv, NEW p \in Drains, Rebuild(p)
    PROVE  TypeInv'
<1>a. job[p] \in Job /\ row \in [Releases -> Row]
  BY DEF TypeInv, TypeOK
<1>b. {"bump", "removed", "unwarn", "cleared", "evidence", "unscan"}
         \subseteq Places \ Recording
  BY DEF Places, Recording
<1>c. "alert" \in Recording
  BY DEF Recording
<1>d. job[p].rid \in Releases
  <2>1. pc[p] \notin Free
    BY DEF Rebuild, RebuildUnreachable, RebuildFails, RebuildMissing,
           RecordRemoved, RebuildClears, ClearedVerdict, ClearedStage,
           RebuildEscalates, Requeue, Free
  <2> QED
    BY <2>1 DEF TypeInv, LocalsKnown
<1>e. Mine(p) \in Row
  BY <1>d, MineTypes DEF TypeInv
<1>f. /\ job[p].was \in Reasons \cup {NoReason}
      /\ Need[job[p].rid] \in Nat
      /\ {"in_review", "too_large"} \subseteq Reasons
      /\ faults \in 0..MaxFaults
  BY <1>a, <1>d, NeedAssumption DEF Job, Reasons, AutoReasons, TypeInv, TypeOK
<1> SUFFICES /\ row' \in [Releases -> Row]
             /\ pc' \in [Drains -> Places] /\ job' \in [Drains -> Job]
             /\ LocalsKnown' /\ faults' \in 0..MaxFaults
             /\ UNCHANGED <<slot, person, crashes>>
  BY DEF TypeInv, TypeOK
<1>1. CASE RebuildUnreachable(p)
  <2>1. SetPendingReason(Mine(p), job[p].was, FALSE) \in Row
    BY <1>e, <1>f, StoreTypes
  <2>2. row' \in [Releases -> Row]
    BY <1>1, <1>a, <2>1, WriteTypes DEF RebuildUnreachable
  <2>3. [job[p] EXCEPT !.down = TRUE] \in Job
    BY <1>a, JobUpdates
  <2> QED
    BY <1>1, <2>2, <2>3, DoneTypes, FaultTypes DEF RebuildUnreachable
<1>2. ASSUME NEW timeout \in BOOLEAN, RebuildFails(p, timeout)
      PROVE  /\ row' \in [Releases -> Row]
             /\ pc' \in [Drains -> Places] /\ job' \in [Drains -> Job]
             /\ LocalsKnown' /\ UNCHANGED <<slot, person, faults, crashes>>
  <2> DEFINE down == job[p].down \/ timeout
             k == [job[p] EXCEPT !.text = 0, !.down = down]
  <2>1. Keep(p, k) /\ Go(p, "bump")
    BY <1>2 DEF RebuildFails
  <2>2. down \in BOOLEAN
    OBVIOUS
  <2> HIDE DEF down
  <2>3. k \in Job /\ k.rid = job[p].rid
    BY <1>a, <2>2 DEF Job
  <2> HIDE DEF k
  <2> QED
    BY <1>2, <1>a, <1>b, <1>c, <1>d, <2>1, <2>3, StepTypes DEF RebuildFails
<1>3. CASE RebuildMissing(p)
  <2>1. CASE /\ Write(p, SetPendingReason(Mine(p), job[p].was, TRUE))
             /\ Done(p, job[p])
             /\ UNCHANGED faults
    <3>1. SetPendingReason(Mine(p), job[p].was, TRUE) \in Row
      BY <1>e, <1>f, StoreTypes
    <3>2. row' \in [Releases -> Row]
      BY <1>a, <2>1, <3>1, WriteTypes
    <3> QED
      BY <1>3, <1>a, <1>f, <2>1, <3>2, DoneTypes DEF RebuildMissing
  <2>2. CASE Fault /\ Done(p, job[p]) /\ UNCHANGED row
    BY <1>3, <1>a, <2>2, DoneTypes, FaultTypes DEF RebuildMissing
  <2>3. CASE /\ Write(p, ClearPending(Mine(p)))
             /\ Go(p, "removed") /\ UNCHANGED <<job, faults>>
    <3>1. row' \in [Releases -> Row]
      BY <1>a, <1>e, <2>3, StoreTypes, WriteTypes
    <3> QED
      BY <1>3, <1>b, <1>c, <1>d, <1>f, <2>3, <3>1, GoTypes DEF RebuildMissing
  <2> QED
    BY <1>3, <2>1, <2>2, <2>3 DEF RebuildMissing
<1>4. CASE RecordRemoved(p)
  <2>1. UpdateStage(Mine(p), "removed_before_scan") \in Row
    BY <1>e, StoreTypes DEF Stages
  <2>2. row' \in [Releases -> Row]
    BY <1>4, <1>a, <2>1, WriteTypes DEF RecordRemoved
  <2> QED
    BY <1>4, <1>a, <1>f, <2>2, DoneTypes DEF RecordRemoved
<1>5. CASE RebuildClears(p)
  <2>1. row' \in [Releases -> Row]
    BY <1>5, <1>a, <1>e, StoreTypes, WriteTypes DEF RebuildClears
  <2> QED
    BY <1>5, <1>b, <1>c, <1>d, <1>f, <2>1, GoTypes DEF RebuildClears
<1>6. CASE ClearedVerdict(p)
  <2>1. row' \in [Releases -> Row]
    BY <1>6, <1>a, <1>e, StoreTypes, WriteTypes DEF ClearedVerdict
  <2> QED
    BY <1>6, <1>b, <1>c, <1>d, <1>f, <2>1, GoTypes DEF ClearedVerdict
<1>7. CASE ClearedStage(p)
  <2>1. [UpdateStage(Mine(p), "triaged") EXCEPT !.escalated = FALSE] \in Row
    BY <1>e DEF UpdateStage, Row, Stages
  <2>2. row' \in [Releases -> Row]
    BY <1>7, <1>a, <2>1, WriteTypes DEF ClearedStage
  <2> QED
    BY <1>7, <1>a, <1>f, <2>2, DoneTypes DEF ClearedStage
<1>8. CASE RebuildEscalates(p)
  <2>1. [UpdateStage(Mine(p), "pending_review") EXCEPT !.escalated = TRUE] \in Row
    BY <1>e DEF UpdateStage, Row, Stages
  <2>2. row' \in [Releases -> Row]
    BY <1>8, <1>a, <2>1, WriteTypes DEF RebuildEscalates
  <2> QED
    BY <1>8, <1>b, <1>c, <1>d, <1>f, <2>2, GoTypes DEF RebuildEscalates
<1>9. CASE Requeue(p)
  <2> DEFINE n == Need[job[p].rid]
  <2>1. /\ ParkForReview(Mine(p), "too_large", n) \in Row
        /\ ParkForReview(Mine(p), "in_review", n) \in Row
    BY <1>e, <1>f, StoreTypes
  <2>2. CASE Write(p, ParkForReview(Mine(p), "too_large", n)) /\ Done(p, job[p])
    <3>1. row' \in [Releases -> Row]
      BY <1>a, <2>1, <2>2, WriteTypes
    <3> QED
      BY <1>9, <1>a, <1>f, <2>2, <3>1, DoneTypes DEF Requeue
  <2>3. CASE /\ Write(p, ParkForReview(Mine(p), "in_review", n))
             /\ Keep(p, [job[p] EXCEPT !.why = "in_review", !.text = n])
             /\ Go(p, "unscan")
    <3>1. row' \in [Releases -> Row]
      BY <1>a, <2>1, <2>3, WriteTypes
    <3> DEFINE k == [job[p] EXCEPT !.why = "in_review", !.text = n]
    <3>2. k \in Job /\ k.rid = job[p].rid
      BY <1>a, <1>f DEF Job
    <3> QED
      BY <1>9, <1>b, <1>c, <1>d, <1>f, <2>3, <3>1, <3>2, StepTypes DEF Requeue
  <2> QED
    BY <1>9, <2>2, <2>3 DEF Requeue
<1> QED
  BY <1>1, <1>2, <1>3, <1>4, <1>5, <1>6, <1>7, <1>8, <1>9, <1>f DEF Rebuild

LEMMA PersonTypes ==
    ASSUME TypeInv, Person
    PROVE  TypeInv'
<1>a. row \in [Releases -> Row] /\ person \in {Nobody} \cup Labelled
  BY DEF TypeInv, TypeOK
<1> SUFFICES /\ row' \in [Releases -> Row]
             /\ person' \in {Nobody} \cup Labelled
             /\ UNCHANGED <<pc, job, slot, faults, crashes>>
  BY DEF TypeInv, TypeOK, LocalsKnown
<1>1. ASSUME NEW r \in Releases, NEW label \in Labels, Adjudicate(r, label)
      PROVE  /\ row' \in [Releases -> Row]
             /\ person' \in {Nobody} \cup Labelled
             /\ UNCHANGED <<pc, job, slot, faults, crashes>>
  <2>1. label \in ModelClasses
    BY LabelsAssumption
  <2>2. AdjudicateRow(row[r], label) \in Row
    BY <1>a, <2>1, StoreTypes
  <2>3. label # "benign" => [rid |-> r, label |-> label] \in Labelled
    BY <2>1 DEF ModelClasses, Labelled
  <2> QED
    BY <1>1, <1>a, <2>2, <2>3 DEF Adjudicate
<1>2. CASE AdjudicationAlert
  <2>1. person \in Labelled
    BY <1>2, <1>a DEF AdjudicationAlert
  <2>2. person.rid \in Releases /\ person.label \in Alerts
    BY <2>1 DEF Labelled, Alerts
  <2>3. Emit(row[person.rid], person.label) \in Row
    BY <1>a, <2>2, StoreTypes
  <2> QED
    BY <1>2, <1>a, <2>2, <2>3 DEF AdjudicationAlert
<1>3. CASE Prune
  BY <1>3, <1>a, PrunedRows DEF Prune
<1> QED
  BY <1>1, <1>2, <1>3 DEF Person

LEMMA KillTypes ==
    ASSUME TypeInv, NEW p \in Drains, Kill(p)
    PROVE  TypeInv'
<1>1. Keep(p, Rest) /\ Go(p, "idle")
  BY DEF Kill
<1>2. /\ "idle" \in (Places \ Recording) \cap Free
      /\ "alert" \in Recording
  BY DEF Places, Recording, Free
<1>3. /\ pc' \in [Drains -> Places] /\ job' \in [Drains -> Job]
      /\ LocalsKnown'
  BY <1>1, <1>2, RestType, StepTypes
<1>4. crashes' \in 0..MaxCrashes
  BY BoundsAssumption DEF Kill, TypeInv, TypeOK
<1> QED
  BY <1>3, <1>4 DEF Kill, TypeInv, TypeOK

LEMMA InitTypes == Init => TypeInv
<1>1. NewRow \in Row
  BY BoundsAssumption DEF NewRow, Row, Stages, Verdicts
<1>2. "idle" \in (Places \ Recording) \cap Free /\ "alert" \in Recording
  BY DEF Places, Recording, Free
<1> QED
  BY <1>1, <1>2, RestType, BoundsAssumption DEF Init, TypeInv, TypeOK, LocalsKnown

LEMMA NextTypes ==
    ASSUME TypeInv, [Next]_vars
    PROVE  TypeInv'
<1>1. ASSUME NEW p \in Drains, Step(p)  PROVE TypeInv'
  BY <1>1, WalkRowsTypes, AttemptReviewTypes, RecordTypes, ScanTypes,
     RebuildTypes DEF Step
<1>2. ASSUME NEW p \in Drains, Kill(p)  PROVE TypeInv'
  BY <1>2, KillTypes
<1>3. CASE Person
  BY <1>3, PersonTypes
<1>4. CASE UNCHANGED vars
  BY <1>4 DEF vars, TypeInv, TypeOK, LocalsKnown
<1> QED
  BY <1>1, <1>2, <1>3, <1>4 DEF Next

\* Every reachable state is well typed: whatever the releases, the processes
\* and the bounds, and wherever a process is killed, a row holds only values
\* the schema and the code know, and a process that is past taking a release
\* has one in hand.
THEOREM TypeCorrect == Spec => []TypeOK
<1>1. Init => TypeInv
  BY InitTypes
<1>2. TypeInv /\ [Next]_vars => TypeInv'
  BY NextTypes
<1>3. TypeInv => TypeOK
  BY DEF TypeInv
<1> QED
  BY <1>1, <1>2, <1>3, PTL DEF Spec

-----------------------------------------------------------------------------
(* Mutual exclusion at the model.                                           *)

\* A process is at the model only while it holds the review lock.
HoldsSlot == \A p \in Drains : pc[p] = "model" => slot = p

\* A step of p that ends anywhere but at the model and keeps the lock as it is.
Elsewhere(p) == /\ slot' = slot
                /\ \/ pc' = pc
                   \/ \E place \in Places \ {"model"} : Go(p, place)

LEMMA GoElsewhere ==
    ASSUME NEW p, slot' = slot
    PROVE  /\ pc' = pc => Elsewhere(p)
           /\ \A place \in Places : Go(p, place) /\ place # "model" => Elsewhere(p)
           /\ \A j : Done(p, j) => Elsewhere(p)
<1>1. pc' = pc => Elsewhere(p)
  BY DEF Elsewhere
<1>2. \A place \in Places : Go(p, place) /\ place # "model" => Elsewhere(p)
  BY DEF Elsewhere
<1>3. ASSUME NEW j, Done(p, j)  PROVE Elsewhere(p)
  <2>1. \E place \in {"drain", "scan", "idle"} : Go(p, place)
    BY <1>3 DEF Done
  <2> QED
    BY <2>1 DEF Elsewhere, Places
<1> QED
  BY <1>1, <1>2, <1>3

LEMMA MostStepsElsewhere ==
    ASSUME NEW p \in Drains,
           WalkRows(p) \/ Record(p) \/ Scan(p) \/ Rebuild(p)
    PROVE  Elsewhere(p)
<1> USE GoElsewhere
<1>a. {"idle", "page", "drain", "rebuild", "removed", "unwarn", "cleared",
       "evidence", "requeue", "scan", "queue", "admit", "bump", "unscan",
       "warnverdict", "verdict", "drop", "stage", "alert"}
         \subseteq Places \ {"model"}
  BY DEF Places
<1>1. CASE WalkRows(p)
  <2>1. CASE \/ TickDrains(p) \/ TickOnlyScans(p) \/ StartManual(p)
             \/ NextPage(p) \/ EndRows(p)
    BY <1>a, <2>1 DEF TickDrains, TickOnlyScans, StartManual, NextPage, EndRows
  <2>2. ASSUME NEW s \in job[p].todo,
               \/ WarnExhausted(p, s) \/ NullRow(p, s) \/ OversizedRow(p, s)
               \/ EmptyRow(p, s) \/ StoredRow(p, s)
        PROVE  Elsewhere(p)
    BY <1>a, <2>2 DEF WarnExhausted, NullRow, OversizedRow, EmptyRow, StoredRow
  <2> QED
    BY <1>1, <2>1, <2>2 DEF WalkRows
<1>2. CASE Record(p)
  <2>1. CASE StoreVerdict(p)
    <3>1. \E place \in {"drop", "alert", "stage"} : Go(p, place)
      BY <2>1 DEF StoreVerdict
    <3> QED
      BY <1>a, <2>1, <3>1 DEF StoreVerdict
  <2>2. CASE Unpark(p) \/ DropEvidence(p) \/ SetStage(p) \/ Alert(p)
    BY <1>a, <2>2 DEF Unpark, DropEvidence, SetStage, Alert
  <2> QED
    BY <1>2, <2>1, <2>2 DEF Record
<1>3. CASE Scan(p)
  BY <1>a, <1>3 DEF Scan, Triage, StoreEvidence, QueueDisabled, QueueFitting,
     QueueTooLarge, QueueRaises, EndTick
<1>4. CASE Rebuild(p)
  BY <1>a, <1>4 DEF Rebuild, RebuildUnreachable, RebuildFails, RebuildMissing,
     RecordRemoved, RebuildClears, ClearedVerdict, ClearedStage,
     RebuildEscalates, Requeue
<1> QED
  BY <1>1, <1>2, <1>3, <1>4

LEMMA HoldsSlotStep ==
    ASSUME TypeInv, HoldsSlot, [Next]_vars
    PROVE  HoldsSlot'
<1>a. pc \in [Drains -> Places] /\ "free" \notin Drains
  BY DrainsAssumption DEF TypeInv, TypeOK
<1>1. ASSUME NEW p \in Drains, Elsewhere(p)  PROVE HoldsSlot'
  BY <1>a, <1>1 DEF HoldsSlot, Elsewhere, Go
<1>2. ASSUME NEW p \in Drains, AttemptReview(p)  PROVE HoldsSlot'
  <2>1. CASE EnterSlot(p)
    BY <1>a, <2>1 DEF EnterSlot, HoldsSlot, Go
  <2>2. CASE \/ \E outcome \in Outcomes : Answer(p, outcome)
             \/ EndpointDown(p)
             \/ \E timeout \in BOOLEAN : ReviewFails(p, timeout)
    <3>1. /\ pc[p] = "model" /\ slot' = "free"
          /\ \E place \in {"clear", "park", "bump"} : Go(p, place)
      BY <2>2 DEF Answer, EndpointDown, ReviewFails
    <3>2. \A q \in Drains : q # p => pc[q] # "model"
      BY <3>1 DEF HoldsSlot
    <3> QED
      BY <1>a, <3>1, <3>2 DEF HoldsSlot, Go
  <2>3. CASE \/ Admitted(p) \/ Refused(p) \/ CountAttempt(p) \/ ParkAgain(p)
             \/ DropUnreviewed(p) \/ WarnVerdict(p) \/ Warn(p)
    <3>1. {"slot", "park", "warnverdict", "unscan", "admit", "warn"}
             \subseteq Places \ {"model"}
      BY DEF Places
    <3>2. Elsewhere(p)
      BY <2>3, <3>1, GoElsewhere DEF Admitted, Refused, CountAttempt,
         ParkAgain, DropUnreviewed, WarnVerdict, Warn
    <3> QED
      BY <1>1, <3>2
  <2> QED
    BY <1>2, <2>1, <2>2, <2>3 DEF AttemptReview
<1>3. ASSUME NEW p \in Drains, Step(p)  PROVE HoldsSlot'
  BY <1>1, <1>2, <1>3, MostStepsElsewhere DEF Step
<1>4. ASSUME NEW p \in Drains, Kill(p)  PROVE HoldsSlot'
  BY <1>a, <1>4 DEF Kill, HoldsSlot, Go
<1>5. CASE Person \/ UNCHANGED vars
  BY <1>5 DEF Person, Adjudicate, AdjudicationAlert, Prune, vars, HoldsSlot
<1> QED
  BY <1>3, <1>4, <1>5 DEF Next

\* _review_slot: never two processes at the model at once, for any number of
\* releases and any order of steps, kills and adjudications.
THEOREM OneAtATime == Spec => []OneAtTheModel
<1>1. Init => TypeInv /\ HoldsSlot
  BY InitTypes DEF Init, HoldsSlot
<1>2. TypeInv /\ HoldsSlot /\ [Next]_vars => (TypeInv /\ HoldsSlot)'
  BY NextTypes, HoldsSlotStep
<1>3. HoldsSlot => OneAtTheModel
  BY DEF HoldsSlot, OneAtTheModel
<1> QED
  BY <1>1, <1>2, <1>3, PTL DEF Spec

-----------------------------------------------------------------------------
(* A queued release keeps its review input, when one drain runs at a time.  *)

\* The row is not queued, or has its input.
Sound(w) == w.reason # NoReason => w.chars # NoInput

Kept == \A r \in Releases : Sound(row[r])

\* Where the review input is among the locals.
Texted == {"admit", "slot", "model", "bump", "park", "unscan"}

\* What p read is still so: every row it has yet to handle has the input it
\* had, and is neither the release in hand nor read twice.
Carried(p) ==
    /\ pc[p] = "scan" => job[p].todo = {}
    /\ pc[p] \in {"page", "drain"} => job[p].rid = 0
    /\ pc[p] \in Texted => job[p].text # NoInput
    /\ pc[p] = "rebuild" => Mine(p).chars # NoInput
    /\ \A s \in job[p].todo :
          /\ s.rid # job[p].rid
          /\ s.chars # NoInput /\ row[s.rid].chars = s.chars
          /\ \A t \in job[p].todo : t.rid = s.rid => t = s

\* Where the above asks nothing but the input in the locals.
Working == Places \ {"page", "drain", "scan", "rebuild"}

InputInv == TypeInv /\ Kept /\ \A p \in Drains : Carried(p)

LEMMA StoreSound ==
    ASSUME NEW w \in Row, Sound(w)
    PROVE  /\ \A stage : Sound(UpdateStage(w, stage))
           /\ \A stage, escalated :
                 Sound([UpdateStage(w, stage) EXCEPT !.escalated = escalated])
           /\ \A why : \A n \in Nat : Sound(ParkForReview(w, why, n))
           /\ \A why, gone :
                 w.chars # NoInput => Sound(SetPendingReason(w, why, gone))
           /\ Sound(ClearPending(w))
           /\ Sound(BumpReviewAttempts(w))
           /\ \A verdict : Sound(RecordVerdict(w, verdict))
           /\ Sound(ClearUnscannedVerdict(w))
           /\ Sound(ClearEvidence(w)) /\ Sound(UpdateEvidence(w))
           /\ \A key : Sound(Emit(w, key))
           /\ \A label : Sound(AdjudicateRow(w, label))
<1> USE DEF Row, Sound
<1>1. \A stage : Sound(UpdateStage(w, stage))
  BY DEF UpdateStage
<1>2. \A stage, escalated :
         Sound([UpdateStage(w, stage) EXCEPT !.escalated = escalated])
  BY DEF UpdateStage
<1>3. \A why : \A n \in Nat : Sound(ParkForReview(w, why, n))
  BY DEF ParkForReview, NoInput
<1>4. \A why, gone : w.chars # NoInput => Sound(SetPendingReason(w, why, gone))
  BY DEF SetPendingReason
<1>5. Sound(ClearPending(w)) /\ Sound(BumpReviewAttempts(w))
  BY DEF ClearPending, BumpReviewAttempts
<1>6. \A verdict : Sound(RecordVerdict(w, verdict))
  BY DEF RecordVerdict
<1>7. /\ Sound(ClearUnscannedVerdict(w)) /\ Sound(ClearEvidence(w))
      /\ Sound(UpdateEvidence(w))
  BY DEF ClearUnscannedVerdict, ClearEvidence, UpdateEvidence
<1>8. \A key : Sound(Emit(w, key))
  BY DEF Emit
<1>9. \A label : Sound(AdjudicateRow(w, label))
  BY DEF AdjudicateRow
<1> QED
  BY <1>1, <1>2, <1>3, <1>4, <1>5, <1>6, <1>7, <1>8, <1>9

\* The release in hand gets a sound row and stays in hand.
LEMMA WorkKeeps ==
    ASSUME InputInv, NEW p \in Drains, job[p].rid \in Releases,
           NEW w, Sound(w), Write(p, w),
           NEW place \in Working, Go(p, place),
           NEW j, Keep(p, j), j.todo = job[p].todo, j.rid = job[p].rid,
           place \in Texted => j.text # NoInput
    PROVE  Kept' /\ Carried(p)'
<1>1. /\ row \in [Releases -> Row] /\ pc'[p] = place /\ job'[p] = j
      /\ job[p].todo \in SUBSET Snapshot
  BY DEF InputInv, TypeInv, TypeOK, Go, Keep, Job
<1>2. Kept'
  BY <1>1 DEF InputInv, Kept, Write
<1>3. \A s \in job[p].todo : row'[s.rid] = row[s.rid]
  BY <1>1 DEF InputInv, Carried, Write, Snapshot
<1>4. Carried(p)'
  BY <1>1, <1>3 DEF InputInv, Carried, Working
<1> QED
  BY <1>2, <1>4

\* The release in hand gets a sound row and is handed back.
LEMMA DoneKeeps ==
    ASSUME InputInv, NEW p \in Drains, job[p].rid \in Releases,
           NEW w, Sound(w), Write(p, w),
           NEW j \in Job, Done(p, j), j.todo = job[p].todo
    PROVE  Kept' /\ Carried(p)'
<1> DEFINE away == [j EXCEPT !.rid = 0, !.fresh = FALSE, !.was = NoReason,
                          !.wasGone = FALSE, !.why = NoReason,
                          !.text = NoInput, !.spent = FALSE, !.goOn = TRUE,
                          !.outcome = "none"]
<1>1. /\ row \in [Releases -> Row] /\ pc \in [Drains -> Places]
      /\ job \in [Drains -> Job] /\ job[p].todo \in SUBSET Snapshot
  BY DEF InputInv, TypeInv, TypeOK, Job
<1>2. Kept'
  BY <1>1 DEF InputInv, Kept, Write
<1>3. \A s \in job[p].todo : row'[s.rid] = row[s.rid] /\ s.rid # 0
  BY <1>1, ReleasesAssumption DEF InputInv, Carried, Write, Snapshot
<1>4. CASE Go(p, "drain") /\ Keep(p, away)
  <2>1. away.todo = job[p].todo /\ away.rid = 0
    BY DEF Job
  <2> HIDE DEF away
  <2>2. pc'[p] = "drain" /\ job'[p] = away
    BY <1>1, <1>4 DEF Go, Keep
  <2> QED
    BY <1>2, <1>3, <2>1, <2>2 DEF InputInv, Carried, Texted
<1>5. ASSUME NEW place \in {"scan", "idle"}, Go(p, place),
             NEW k, Keep(p, k), k.todo = {}
      PROVE  Kept' /\ Carried(p)'
  BY <1>1, <1>2, <1>5 DEF Carried, Go, Keep, Texted
<1>6. Rest.todo = {} /\ [Rest EXCEPT !.mode = j.mode].todo = {}
  BY DEF Rest
<1> QED
  BY <1>4, <1>5, <1>6 DEF Done

LEMMA InHandFacts ==
    ASSUME InputInv, NEW p \in Drains, pc[p] \notin Free
    PROVE  /\ job[p] \in Job /\ job[p].rid \in Releases
           /\ Mine(p) \in Row /\ Sound(Mine(p))
           /\ row' = row => Write(p, Mine(p))
           /\ job' = job => Keep(p, job[p])
           /\ pc[p] \in Texted => job[p].text # NoInput
           /\ pc[p] = "rebuild" => Mine(p).chars # NoInput
BY DEF InputInv, TypeInv, TypeOK, LocalsKnown, Kept, Carried, Mine, Write, Keep

LEMMA RecordKeeps ==
    ASSUME InputInv, NEW p \in Drains, Record(p)
    PROVE  Kept' /\ Carried(p)'
<1>a. pc[p] \notin Free
  BY DEF Record, Unpark, StoreVerdict, DropEvidence, SetStage, Alert, Free
<1>b. /\ job[p] \in Job /\ job[p].rid \in Releases
      /\ Mine(p) \in Row /\ Sound(Mine(p))
      /\ job' = job => Keep(p, job[p])
  BY <1>a, InHandFacts
<1>c. {"verdict", "drop", "stage", "alert"}
         \subseteq Working \ Texted
  BY DEF Working, Places, Texted
<1>1. CASE Unpark(p)
  BY <1>1, <1>b, <1>c, StoreSound, WorkKeeps DEF Unpark
<1>2. CASE StoreVerdict(p)
  <2>1. PICK place \in {"drop", "alert", "stage"} : Go(p, place)
    BY <1>2 DEF StoreVerdict
  <2>2. PICK verdict : Write(p, RecordVerdict(Mine(p), verdict))
    BY <1>2 DEF StoreVerdict
  <2> QED
    BY <1>2, <1>b, <1>c, <2>1, <2>2, StoreSound, WorkKeeps DEF StoreVerdict
<1>3. CASE DropEvidence(p)
  BY <1>3, <1>b, <1>c, StoreSound, WorkKeeps DEF DropEvidence
<1>4. CASE SetStage(p)
  <2>1. PICK stage : Write(p, UpdateStage(Mine(p), stage))
    BY <1>4 DEF SetStage
  <2>2. CASE Go(p, "alert") /\ UNCHANGED job
    BY <1>b, <1>c, <2>1, <2>2, StoreSound, WorkKeeps
  <2>3. CASE Done(p, job[p])
    BY <1>b, <2>1, <2>3, StoreSound, DoneKeeps
  <2> QED
    BY <1>4, <2>2, <2>3 DEF SetStage
<1>5. CASE Alert(p)
  <2>1. PICK key : Write(p, Emit(Mine(p), key))
    BY <1>5 DEF Alert
  <2>2. CASE Go(p, "stage") /\ UNCHANGED job
    BY <1>b, <1>c, <2>1, <2>2, StoreSound, WorkKeeps
  <2>3. CASE Done(p, job[p])
    BY <1>b, <2>1, <2>3, StoreSound, DoneKeeps
  <2> QED
    BY <1>5, <2>2, <2>3 DEF Alert
<1> QED
  BY <1>1, <1>2, <1>3, <1>4, <1>5 DEF Record

LEMMA ReviewKeeps ==
    ASSUME InputInv, NEW p \in Drains, AttemptReview(p)
    PROVE  Kept' /\ Carried(p)'
<1>a. pc[p] \notin Free
  BY DEF AttemptReview, Admitted, Refused, EnterSlot, Answer, EndpointDown,
         ReviewFails, CountAttempt, ParkAgain, DropUnreviewed, WarnVerdict,
         Warn, Free
<1>b. /\ job[p] \in Job /\ job[p].rid \in Releases
      /\ Mine(p) \in Row /\ Sound(Mine(p))
      /\ row' = row => Write(p, Mine(p))
      /\ job' = job => Keep(p, job[p])
      /\ pc[p] \in Texted => job[p].text # NoInput
  BY <1>a, InHandFacts
<1>c. {"admit", "slot", "model", "bump", "park", "unscan", "warnverdict",
       "warn", "clear"} \subseteq Working
  BY DEF Working, Places
<1>d. /\ {"admit", "slot", "model", "bump", "park", "unscan"} = Texted
      /\ {"warnverdict", "warn", "clear"} \cap Texted = {}
  BY DEF Texted
<1>e. job[p].text \in Nat \cup {NoInput}
  BY <1>b DEF Job
<1>1. CASE Admitted(p) \/ EnterSlot(p)
  BY <1>1, <1>b, <1>c, <1>d, WorkKeeps DEF Admitted, EnterSlot
<1>2. CASE Refused(p) \/ EndpointDown(p)
  <2>1. PICK why :
           Keep(p, [job[p] EXCEPT !.why = why, !.goOn = FALSE])
    BY <1>2 DEF Refused, EndpointDown
  <2> DEFINE k == [job[p] EXCEPT !.why = why, !.goOn = FALSE]
  <2>2. k.todo = job[p].todo /\ k.rid = job[p].rid /\ k.text = job[p].text
    BY <1>b DEF Job
  <2>3. /\ row' = row /\ Go(p, "park") /\ pc[p] \in Texted
    BY <1>2, <1>d DEF Refused, EndpointDown
  <2> HIDE DEF k
  <2> QED
    BY <1>b, <1>c, <2>1, <2>2, <2>3, WorkKeeps DEF k
<1>3. ASSUME NEW outcome, Answer(p, outcome)
      PROVE  Kept' /\ Carried(p)'
  <2> DEFINE k == [job[p] EXCEPT !.outcome = outcome]
  <2>1. k.todo = job[p].todo /\ k.rid = job[p].rid
    BY <1>b DEF Job
  <2>2. row' = row /\ Go(p, "clear") /\ Keep(p, k)
    BY <1>3 DEF Answer
  <2> HIDE DEF k
  <2> QED
    BY <1>b, <1>c, <1>d, <2>1, <2>2, WorkKeeps
<1>4. ASSUME NEW timeout \in BOOLEAN, ReviewFails(p, timeout)
      PROVE  Kept' /\ Carried(p)'
  <2> DEFINE k == [job[p] EXCEPT !.goOn = ~timeout]
  <2>1. k.todo = job[p].todo /\ k.rid = job[p].rid /\ k.text = job[p].text
    BY <1>b DEF Job
  <2>2. /\ row' = row /\ Go(p, "bump") /\ Keep(p, k) /\ pc[p] \in Texted
    BY <1>4, <1>d DEF ReviewFails
  <2> HIDE DEF k
  <2> QED
    BY <1>b, <1>c, <2>1, <2>2, WorkKeeps
<1>5. CASE CountAttempt(p)
  <2> DEFINE spent == row'[job[p].rid].attempts >= MaxAttempts
             k == [job[p] EXCEPT !.why = "review_failed", !.spent = spent]
  <2>1. /\ Write(p, BumpReviewAttempts(Mine(p))) /\ Go(p, "park") /\ Keep(p, k)
        /\ pc[p] \in Texted
    BY <1>5, <1>d DEF CountAttempt
  <2> HIDE DEF spent
  <2>2. k.todo = job[p].todo /\ k.rid = job[p].rid /\ k.text = job[p].text
    BY <1>b DEF Job
  <2> HIDE DEF k
  <2> QED
    BY <1>b, <1>c, <2>1, <2>2, StoreSound, WorkKeeps
<1>6. CASE ParkAgain(p)
  <2>1. job[p].text \in Nat /\ job[p].text # NoInput
    BY <1>6, <1>b, <1>d, <1>e DEF ParkAgain
  <2>2. Sound(ParkForReview(Mine(p), job[p].why, job[p].text))
    BY <1>b, <2>1, StoreSound
  <2>3. Write(p, ParkForReview(Mine(p), job[p].why, job[p].text))
    BY <1>6, <2>1 DEF ParkAgain, Park
  <2>4. PICK place \in {"warnverdict", "unscan"} : Go(p, place)
    BY <1>6 DEF ParkAgain
  <2>5. Keep(p, job[p])
    BY <1>6, <1>b DEF ParkAgain
  <2> QED
    BY <1>b, <1>c, <2>1, <2>2, <2>3, <2>4, <2>5, WorkKeeps
<1>7. CASE DropUnreviewed(p)
  <2>1. CASE Go(p, "admit") /\ UNCHANGED job
    BY <1>7, <1>b, <1>c, <1>d, <2>1, StoreSound, WorkKeeps DEF DropUnreviewed
  <2>2. CASE Done(p, job[p])
    BY <1>7, <1>b, <2>2, StoreSound, DoneKeeps DEF DropUnreviewed
  <2> QED
    BY <1>7, <2>1, <2>2 DEF DropUnreviewed
<1>8. CASE WarnVerdict(p)
  BY <1>8, <1>b, <1>c, <1>d, StoreSound, WorkKeeps DEF WarnVerdict
<1>9. CASE Warn(p)
  BY <1>9, <1>b, StoreSound, DoneKeeps DEF Warn
<1> QED
  BY <1>1, <1>2, <1>3, <1>4, <1>5, <1>6, <1>7, <1>8, <1>9 DEF AttemptReview

LEMMA ScanKeeps ==
    ASSUME InputInv, NEW p \in Drains, Scan(p)
    PROVE  Kept' /\ Carried(p)'
<1>b. pc[p] \notin Free =>
         /\ job[p] \in Job /\ job[p].rid \in Releases
         /\ Mine(p) \in Row /\ Sound(Mine(p))
         /\ row' = row => Write(p, Mine(p))
         /\ job' = job => Keep(p, job[p])
  BY InHandFacts
<1>c. /\ {"queue", "evidence", "requeue", "unscan", "bump"}
            \subseteq Working
      /\ {"queue", "evidence", "requeue", "idle"} \cap Texted = {}
      /\ {"queue", "evidence"} \cap Free = {}
  BY DEF Working, Places, Texted, Free
<1>d. \A r \in Releases : Need[r] \in Nat /\ Need[r] # NoInput
  BY NeedAssumption DEF NoInput
<1>e. /\ row \in [Releases -> Row] /\ pc \in [Drains -> Places]
      /\ job \in [Drains -> Job]
  BY DEF InputInv, TypeInv, TypeOK
<1>1. ASSUME NEW r \in Releases, Triage(p, r)
      PROVE  Kept' /\ Carried(p)'
  <2> DEFINE k == [job[p] EXCEPT !.rid = r, !.fresh = TRUE]
             w == [UpdateStage(row[r], "triaged") EXCEPT !.escalated = TRUE]
  <2>1. PICK place \in {"queue", "evidence"} : Go(p, place)
    BY <1>1 DEF Triage
  <2>2. row' = [row EXCEPT ![r] = w] /\ Keep(p, k) /\ pc[p] = "scan"
    BY <1>1 DEF Triage
  <2>3. Sound(w)
    BY <1>e, StoreSound DEF InputInv, Kept
  <2>4. k.todo = {}
    BY <1>e, <2>2 DEF InputInv, Carried, Job
  <2> HIDE DEF k, w
  <2>5. pc'[p] = place /\ job'[p] = k
    BY <1>e, <2>1, <2>2 DEF Go, Keep
  <2>6. Kept'
    BY <1>e, <2>2, <2>3 DEF InputInv, Kept
  <2> QED
    BY <1>c, <2>4, <2>5, <2>6 DEF Carried
<1>2. CASE StoreEvidence(p)
  <2>1. PICK place \in {"queue", "requeue"} : Go(p, place)
    BY <1>2 DEF StoreEvidence
  <2>2. PICK w : Sound(w) /\ Write(p, w)
    BY <1>2, <1>b, <1>c, StoreSound DEF StoreEvidence
  <2> QED
    BY <1>2, <1>b, <1>c, <2>1, <2>2, WorkKeeps DEF StoreEvidence
<1>3. CASE QueueDisabled(p)
  <2>1. Sound(ParkForReview(Mine(p), "reviewer_disabled", 0))
    BY <1>3, <1>b, <1>c, StoreSound DEF QueueDisabled
  <2> QED
    BY <1>3, <1>b, <1>c, <2>1, DoneKeeps DEF QueueDisabled
<1>4. CASE QueueFitting(p)
  <2> DEFINE n == Need[job[p].rid]
  <2>1. PICK why : /\ Write(p, ParkForReview(Mine(p), why, n))
                   /\ Keep(p, [job[p] EXCEPT !.why = why, !.text = n])
    BY <1>4 DEF QueueFitting
  <2>2. n \in Nat /\ n # NoInput
    BY <1>4, <1>b, <1>c, <1>d DEF QueueFitting
  <2> HIDE DEF n
  <2> DEFINE k == [job[p] EXCEPT !.why = why, !.text = n]
  <2>3. /\ k.todo = job[p].todo /\ k.rid = job[p].rid /\ k.text = n
        /\ Sound(ParkForReview(Mine(p), why, n))
    BY <1>4, <1>b, <1>c, <2>2, StoreSound DEF QueueFitting, Job
  <2> HIDE DEF k
  <2> QED
    BY <1>4, <1>b, <1>c, <2>1, <2>2, <2>3, WorkKeeps DEF QueueFitting, k
<1>5. CASE QueueTooLarge(p)
  <2>1. Sound(ParkForReview(Mine(p), "too_large", Need[job[p].rid]))
    BY <1>5, <1>b, <1>c, <1>d, StoreSound DEF QueueTooLarge
  <2> QED
    BY <1>5, <1>b, <1>c, <2>1, DoneKeeps DEF QueueTooLarge
<1>6. CASE QueueRaises(p)
  <2> DEFINE n == Need[job[p].rid]
             k == [job[p] EXCEPT !.text = n]
  <2>1. row' = row /\ Keep(p, k) /\ Go(p, "bump") /\ pc[p] = "queue"
    BY <1>6 DEF QueueRaises
  <2>2. n # NoInput
    BY <1>b, <1>c, <1>d, <2>1
  <2> HIDE DEF n
  <2>3. k.todo = job[p].todo /\ k.rid = job[p].rid /\ k.text = n
    BY <1>b, <1>c, <2>1 DEF Job
  <2> HIDE DEF k
  <2> QED
    BY <1>b, <1>c, <2>1, <2>2, <2>3, WorkKeeps
<1>7. CASE EndTick(p)
  <2>0. \A r \in Releases : /\ Pruned[r].chars = row[r].chars
                            /\ Pruned[r].reason = row[r].reason
    BY <1>e, PrunedRows DEF InputInv, TypeInv, TypeOK
  <2>1. \A r \in Releases : row'[r].chars = row[r].chars
                             /\ row'[r].reason = row[r].reason
    BY <1>7, <2>0 DEF EndTick
  <2>2. Kept'
    BY <2>1 DEF InputInv, Kept, Sound
  <2>3. Carried(p)'
    BY <1>7, <1>c, <1>e DEF EndTick, Go, Keep, Rest, Carried, Texted
  <2> QED
    BY <2>2, <2>3
<1> QED
  BY <1>1, <1>2, <1>3, <1>4, <1>5, <1>6, <1>7 DEF Scan

LEMMA RebuildKeeps ==
    ASSUME InputInv, NEW p \in Drains, Rebuild(p)
    PROVE  Kept' /\ Carried(p)'
<1>a. pc[p] \notin Free
  BY DEF Rebuild, RebuildUnreachable, RebuildFails, RebuildMissing,
         RecordRemoved, RebuildClears, ClearedVerdict, ClearedStage,
         RebuildEscalates, Requeue, Free
<1>b. /\ job[p] \in Job /\ job[p].rid \in Releases
      /\ Mine(p) \in Row /\ Sound(Mine(p))
      /\ row' = row => Write(p, Mine(p))
      /\ job' = job => Keep(p, job[p])
      /\ pc[p] = "rebuild" => Mine(p).chars # NoInput
  BY <1>a, InHandFacts
<1>c. /\ {"bump", "removed", "unwarn", "cleared", "evidence", "unscan"}
            \subseteq Working
      /\ {"removed", "unwarn", "cleared", "evidence"} \cap Texted = {}
  BY DEF Working, Places, Texted
<1>d. Need[job[p].rid] \in Nat /\ Need[job[p].rid] # NoInput
  BY <1>b, NeedAssumption DEF NoInput
<1>1. CASE RebuildUnreachable(p)
  <2>1. [job[p] EXCEPT !.down = TRUE] \in Job
    BY <1>b, JobUpdates
  <2>2. [job[p] EXCEPT !.down = TRUE].todo = job[p].todo
    BY <1>b DEF Job
  <2> QED
    BY <1>1, <1>b, <2>1, <2>2, StoreSound, DoneKeeps DEF RebuildUnreachable
<1>2. ASSUME NEW timeout \in BOOLEAN, RebuildFails(p, timeout)
      PROVE  Kept' /\ Carried(p)'
  <2> DEFINE down == job[p].down \/ timeout
             k == [job[p] EXCEPT !.text = 0, !.down = down]
  <2>1. row' = row /\ Keep(p, k) /\ Go(p, "bump")
    BY <1>2 DEF RebuildFails
  <2> HIDE DEF down
  <2>2. k.todo = job[p].todo /\ k.rid = job[p].rid /\ k.text # NoInput
    BY <1>b DEF Job, NoInput
  <2> HIDE DEF k
  <2> QED
    BY <1>b, <1>c, <2>1, <2>2, WorkKeeps
<1>3. CASE RebuildMissing(p)
  <2>1. CASE /\ Write(p, SetPendingReason(Mine(p), job[p].was, TRUE))
             /\ Done(p, job[p])
    BY <1>3, <1>b, <2>1, StoreSound, DoneKeeps DEF RebuildMissing
  <2>2. CASE Done(p, job[p]) /\ UNCHANGED row
    BY <1>b, <2>2, DoneKeeps
  <2>3. CASE /\ Write(p, ClearPending(Mine(p)))
             /\ Go(p, "removed") /\ UNCHANGED job
    BY <1>b, <1>c, <2>3, StoreSound, WorkKeeps
  <2> QED
    BY <1>3, <2>1, <2>2, <2>3 DEF RebuildMissing
<1>4. CASE RecordRemoved(p)
  BY <1>4, <1>b, StoreSound, DoneKeeps DEF RecordRemoved
<1>5. CASE RebuildClears(p)
  BY <1>5, <1>b, <1>c, StoreSound, WorkKeeps DEF RebuildClears
<1>6. CASE ClearedVerdict(p)
  BY <1>6, <1>b, <1>c, StoreSound, WorkKeeps DEF ClearedVerdict
<1>7. CASE ClearedStage(p)
  BY <1>7, <1>b, StoreSound, DoneKeeps DEF ClearedStage
<1>8. CASE RebuildEscalates(p)
  BY <1>8, <1>b, <1>c, StoreSound, WorkKeeps DEF RebuildEscalates
<1>9. CASE Requeue(p)
  <2> DEFINE n == Need[job[p].rid]
  <2>1. \A why : Sound(ParkForReview(Mine(p), why, n))
    BY <1>b, <1>d, StoreSound
  <2>2. CASE Write(p, ParkForReview(Mine(p), "too_large", n)) /\ Done(p, job[p])
    BY <1>b, <2>1, <2>2, DoneKeeps
  <2>3. CASE /\ Write(p, ParkForReview(Mine(p), "in_review", n))
             /\ Keep(p, [job[p] EXCEPT !.why = "in_review", !.text = n])
             /\ Go(p, "unscan")
    <3> DEFINE k == [job[p] EXCEPT !.why = "in_review", !.text = n]
    <3>1. k.todo = job[p].todo /\ k.rid = job[p].rid /\ k.text = n
      BY <1>b DEF Job
    <3> QED
      BY <1>b, <1>c, <1>d, <2>1, <2>3, <3>1, WorkKeeps
  <2> QED
    BY <1>9, <2>2, <2>3 DEF Requeue
<1> QED
  BY <1>1, <1>2, <1>3, <1>4, <1>5, <1>6, <1>7, <1>8, <1>9 DEF Rebuild

LEMMA FreshRows ==
    ASSUME InputInv,
           NEW rows, \A s \in rows : \E r \in Releases :
                         s = SnapshotOf(r) /\ row[r].reason # NoReason
    PROVE  \A s \in rows :
              /\ s.rid # 0 /\ s.chars # NoInput /\ row[s.rid].chars = s.chars
              /\ \A t \in rows : t.rid = s.rid => t = s
<1>1. \A r \in Releases : /\ SnapshotOf(r).rid = r
                          /\ SnapshotOf(r).chars = row[r].chars
  BY DEF SnapshotOf
<1>2. \A r \in Releases : row[r].reason # NoReason => row[r].chars # NoInput
  BY DEF InputInv, Kept, Sound
<1> QED
  BY <1>1, <1>2, ReleasesAssumption

LEMMA ReadsFresh ==
    ASSUME InputInv
    PROVE  /\ \A cap : \A s \in AutoRows(cap) : \E r \in Releases :
                 s = SnapshotOf(r) /\ row[r].reason # NoReason
           /\ \A last : \A s \in ManualPage(last) : \E r \in Releases :
                 s = SnapshotOf(r) /\ row[r].reason # NoReason
<1>0. NoReason \notin Reasons
  BY DEF Reasons, AutoReasons, NoReason
<1>1. \A r \in Parked(AutoReasons) \cup Parked({"too_large"})
             \cup Parked(ManualReasons) :
         r \in Releases /\ row[r].reason # NoReason
  BY <1>0, ReasonsAssumption DEF Parked, Reasons
<1>2. ASSUME NEW cap, NEW s \in AutoRows(cap)
      PROVE  \E r \in Releases : s = SnapshotOf(r) /\ row[r].reason # NoReason
  <2>1. \E r \in Parked(AutoReasons) \cup Parked({"too_large"}) :
           s = SnapshotOf(r)
    BY Zenon DEF AutoRows, FirstRows
  <2> QED
    BY <1>1, <2>1
<1>3. ASSUME NEW last, NEW s \in ManualPage(last)
      PROVE  \E r \in Releases : s = SnapshotOf(r) /\ row[r].reason # NoReason
  <2>1. \E r \in Parked(ManualReasons) : s = SnapshotOf(r)
    BY Zenon DEF ManualPage
  <2> QED
    BY <1>1, <2>1
<1> QED
  BY <1>2, <1>3

\* The drain takes s off its rows, or skips it, and leaves the rows alone.
LEMMA TakeKeeps ==
    ASSUME InputInv, NEW p \in Drains, pc[p] = "drain",
           NEW s \in job[p].todo, row' = row,
           NEW place \in Places \ {"page", "scan"}, Go(p, place),
           NEW j, Keep(p, j), j.todo = job[p].todo \ {s},
           IF place = "drain" THEN j.rid = 0 ELSE j.rid = s.rid,
           place \in Texted => j.text # NoInput
    PROVE  Kept' /\ Carried(p)'
<1>1. /\ pc'[p] = place /\ job'[p] = j /\ job[p].rid = 0
      /\ s.rid \in Releases
  BY TakeTypes DEF InputInv, TypeInv, TypeOK, Go, Keep, Carried
<1>2. Kept'
  BY DEF InputInv, Kept
<1>3. \A t \in job[p].todo :
         /\ t.rid # 0 /\ t.chars # NoInput /\ row[t.rid].chars = t.chars
         /\ \A u \in job[p].todo : u.rid = t.rid => u = t
  BY <1>1 DEF InputInv, Carried
<1>4. place = "rebuild" => Mine(p)'.chars # NoInput
  BY <1>1, <1>3 DEF Mine
<1> QED
  BY <1>1, <1>2, <1>3, <1>4 DEF Carried

LEMMA WalkKeeps ==
    ASSUME InputInv, NEW p \in Drains, WalkRows(p)
    PROVE  Kept' /\ Carried(p)'
<1>a. /\ row \in [Releases -> Row] /\ pc \in [Drains -> Places]
      /\ job \in [Drains -> Job] /\ Kept
  BY DEF InputInv, TypeInv, TypeOK
<1>b. /\ Rest.todo = {} /\ Rest.rid = 0
      /\ {"scan", "idle", "page", "drain"} \cap (Texted \cup {"rebuild"}) = {}
  BY DEF Rest, Texted
<1>c. /\ {"warnverdict", "bump", "rebuild", "admit", "drain"}
            \subseteq Places \ {"page", "scan"}
      /\ {"bump", "admit"} \subseteq Texted
      /\ {"warnverdict", "rebuild"} \cap Texted = {}
  BY DEF Places, Texted
\* Nothing in hand, and nothing left of what was read.
<1>d. ASSUME NEW place \in {"scan", "idle", "page"}, Go(p, place),
             NEW j, Keep(p, j), j.todo = {}, j.rid = 0, row' = row
      PROVE  Kept' /\ Carried(p)'
  BY <1>a, <1>b, <1>d DEF Kept, Carried, Go, Keep
\* Rows just read.
<1>e. ASSUME NEW rows, Go(p, "drain"), row' = row, job'[p].rid = 0,
             job'[p].todo = rows,
             \A s \in rows : \E r \in Releases :
                 s = SnapshotOf(r) /\ row[r].reason # NoReason
      PROVE  Kept' /\ Carried(p)'
  <2>1. pc'[p] = "drain"
    BY <1>a, <1>e DEF Go
  <2>2. \A s \in rows :
           /\ s.rid # 0 /\ s.chars # NoInput /\ row[s.rid].chars = s.chars
           /\ \A t \in rows : t.rid = s.rid => t = s
    BY <1>e, FreshRows
  <2> QED
    BY <1>a, <1>b, <1>e, <2>1, <2>2 DEF Kept, Carried
<1>1. CASE TickDrains(p)
  <2>1. PICK cap : Keep(p, [Rest EXCEPT !.cap = cap, !.todo = AutoRows(cap)])
    BY <1>1 DEF TickDrains
  <2>2. job'[p].rid = 0 /\ job'[p].todo = AutoRows(cap)
    BY <1>a, <2>1 DEF Keep, Rest
  <2> QED
    BY <1>1, <1>e, <2>2, ReadsFresh DEF TickDrains
<1>2. CASE TickOnlyScans(p)
  <2>1. PICK mode : Keep(p, [Rest EXCEPT !.mode = mode])
    BY <1>2 DEF TickOnlyScans
  <2>2. [Rest EXCEPT !.mode = mode].todo = {} /\ [Rest EXCEPT !.mode = mode].rid = 0
    BY DEF Rest
  <2> QED
    BY <1>2, <1>d, <2>1, <2>2 DEF TickOnlyScans
<1>3. CASE StartManual(p)
  <2>1. PICK cap : Keep(p, [Rest EXCEPT !.cap = cap])
    BY <1>3 DEF StartManual
  <2>2. [Rest EXCEPT !.cap = cap].todo = {} /\ [Rest EXCEPT !.cap = cap].rid = 0
    BY DEF Rest
  <2> QED
    BY <1>3, <1>d, <2>1, <2>2 DEF StartManual
<1>4. CASE NextPage(p)
  <2> DEFINE page == ManualPage(job[p].last)
  <2>1. CASE Go(p, "idle") /\ Keep(p, Rest)
    BY <1>4, <1>b, <1>d, <2>1 DEF NextPage
  <2>2. ASSUME NEW s \in page, Go(p, "drain"),
               Keep(p, [job[p] EXCEPT !.todo = page, !.last = s.rid])
        PROVE  Kept' /\ Carried(p)'
    <3>1. job[p].rid = 0
      BY <1>4 DEF NextPage, InputInv, Carried
    <3>2. job'[p].rid = 0 /\ job'[p].todo = page
      BY <1>a, <2>2, <3>1 DEF Keep, Job
    <3> QED
      BY <1>4, <1>e, <2>2, <3>2, ReadsFresh DEF NextPage
  <2> QED
    BY <1>4, <2>1, <2>2 DEF NextPage
<1>5. CASE EndRows(p)
  <2>1. CASE Go(p, "scan") /\ Keep(p, Rest)
    BY <1>5, <1>b, <1>d, <2>1 DEF EndRows
  <2>2. CASE /\ job[p].todo = {}
             /\ Go(p, "page") /\ UNCHANGED job
    <3>1. Keep(p, job[p])
      BY <1>a, <2>2 DEF Keep
    <3>2. job[p].rid = 0
      BY <1>5 DEF EndRows, InputInv, Carried
    <3> QED
      BY <1>5, <1>d, <2>2, <3>1, <3>2 DEF EndRows
  <2> QED
    BY <1>5, <2>1, <2>2 DEF EndRows
<1>6. ASSUME NEW s \in job[p].todo,
             \/ WarnExhausted(p, s) \/ NullRow(p, s) \/ OversizedRow(p, s)
             \/ EmptyRow(p, s) \/ StoredRow(p, s)
      PROVE  Kept' /\ Carried(p)'
  <2>a. pc[p] = "drain" /\ job[p].rid = 0
    BY <1>6 DEF WarnExhausted, NullRow, OversizedRow, EmptyRow, StoredRow,
       IsNext, InputInv, Carried
  <2>b. /\ s \in Snapshot /\ s.rid \in Releases
        /\ Take(p, s) \in Job /\ Try(p, s) \in Job
    BY TakeTypes DEF InputInv
  <2>c. /\ \A j \in {Take(p, s), Try(p, s)} :
              j.todo = job[p].todo \ {s} /\ j.rid = s.rid
        /\ Skip(p, s).todo = job[p].todo \ {s} /\ Skip(p, s).rid = 0
    BY <1>a, <2>a DEF Try, Take, Skip, Job
  <2>d. /\ s.chars # NoInput /\ row[s.rid].chars = s.chars
        /\ \A t \in job[p].todo \ {s} : t.rid # s.rid /\ t.rid # 0
        /\ \A t \in job[p].todo \ {s} :
              /\ t.rid \in Releases
              /\ t.chars # NoInput /\ row[t.rid].chars = t.chars
              /\ \A u \in job[p].todo : u.rid = t.rid => u = t
    BY <2>a, TakeTypes DEF InputInv, Carried
  <2>1. CASE WarnExhausted(p, s)
    BY <2>1, <1>c, <2>a, <2>c, TakeKeeps DEF WarnExhausted
  <2>2. CASE NullRow(p, s)
    BY <2>2, <2>d DEF NullRow
  \* s is put back under another reason and skipped.
  <2>e. ASSUME NEW why, row' = [row EXCEPT ![s.rid] =
                                   SetPendingReason(row[s.rid], why, FALSE)]
        PROVE  Kept' /\ \A t \in job[p].todo \ {s} : row'[t.rid] = row[t.rid]
    <3>1. Sound(SetPendingReason(row[s.rid], why, FALSE))
      BY <1>a, <2>b, <2>d, StoreSound DEF Kept
    <3> QED
      BY <1>a, <2>d, <2>e, <3>1 DEF Kept
  <2>3. CASE OversizedRow(p, s)
    <3>1. pc'[p] = "drain" /\ job'[p] = Skip(p, s)
      BY <1>a, <2>3, <2>a DEF OversizedRow, Keep
    <3>2. Kept' /\ \A t \in job[p].todo \ {s} : row'[t.rid] = row[t.rid]
      <4>1. CASE row' = [row EXCEPT ![s.rid] =
                             SetPendingReason(row[s.rid], "too_large", FALSE)]
        BY <2>e, <4>1
      <4>2. CASE row' = row
        BY <1>a, <4>2 DEF Kept
      <4> QED
        BY <2>3, <4>1, <4>2 DEF OversizedRow
    <3> QED
      BY <1>b, <2>c, <2>d, <3>1, <3>2 DEF Carried
  <2>4. CASE EmptyRow(p, s)
    <3>1. CASE Keep(p, Skip(p, s)) /\ UNCHANGED <<row, pc, faults>>
      <4>1. Go(p, "drain")
        BY <1>a, <2>a, <3>1 DEF Go
      <4> QED
        BY <1>c, <2>a, <2>c, <3>1, <4>1, TakeKeeps DEF Texted
    <3>2. CASE /\ row' = [row EXCEPT ![s.rid] =
                             SetPendingReason(@, "model_busy", FALSE)]
               /\ Done(p, [Take(p, s) EXCEPT !.goOn = FALSE])
      <4>1. /\ [Take(p, s) EXCEPT !.goOn = FALSE].goOn = FALSE
            /\ [Take(p, s) EXCEPT !.goOn = FALSE].mode = Take(p, s).mode
        BY <2>b DEF Job
      <4>2. PICK place, mode :
               /\ place \in {"scan", "idle"} /\ Go(p, place)
               /\ Keep(p, Rest) \/ Keep(p, [Rest EXCEPT !.mode = mode])
        BY <3>2, <4>1 DEF Done
      <4>3. /\ place \in {"scan", "idle"}
            /\ job'[p].todo = {} /\ pc'[p] = place
        BY <1>a, <4>2 DEF Go, Keep, Rest
      <4> QED
        BY <1>b, <2>e, <3>2, <4>3 DEF Carried
    <3>3. CASE Keep(p, Try(p, s)) /\ Go(p, "rebuild") /\ UNCHANGED row
      BY <1>c, <2>a, <2>c, <3>3, TakeKeeps
    <3> QED
      BY <2>4, <3>1, <3>2, <3>3 DEF EmptyRow
  <2>5. CASE StoredRow(p, s)
    <3>1. ~(row[s.rid].chars <= 0)
      BY <2>5, <2>b, <2>d DEF StoredRow, Snapshot, NoInput
    <3> DEFINE k == [Try(p, s) EXCEPT !.text = row[s.rid].chars]
    <3>2. k.todo = job[p].todo \ {s} /\ k.rid = s.rid /\ k.text # NoInput
      BY <2>b, <2>c, <2>d DEF Job
    <3>3. Keep(p, k) /\ Go(p, "admit") /\ row' = row
      BY <2>5, <3>1 DEF StoredRow
    <3> HIDE DEF k
    <3> QED
      BY <1>c, <2>a, <3>2, <3>3, TakeKeeps
  <2> QED
    BY <1>6, <2>1, <2>2, <2>3, <2>4, <2>5
<1> QED
  BY <1>1, <1>2, <1>3, <1>4, <1>5, <1>6 DEF WalkRows

LEMMA InputStep ==
    ASSUME \A p, q \in Drains : p = q, InputInv, [Next]_vars
    PROVE  InputInv'
<1>a. TypeInv'
  BY NextTypes DEF InputInv
<1>1. ASSUME NEW p \in Drains, Step(p)  PROVE InputInv'
  <2>1. Kept' /\ Carried(p)'
    BY <1>1, WalkKeeps, ReviewKeeps, RecordKeeps, ScanKeeps, RebuildKeeps DEF Step
  <2>2. \A q \in Drains : q = p
    OBVIOUS
  <2> QED
    BY <1>a, <2>1, <2>2, Zenon DEF InputInv
<1>2. ASSUME NEW p \in Drains, Kill(p)  PROVE InputInv'
  <2>1. /\ row' = row /\ pc'[p] = "idle" /\ job'[p] = Rest
    BY <1>2 DEF Kill, Go, Keep, InputInv, TypeInv, TypeOK
  <2>2. Kept' /\ Carried(p)'
    BY <2>1 DEF InputInv, Kept, Carried, Rest, Texted
  <2>3. \A q \in Drains : q = p
    OBVIOUS
  <2> QED
    BY <1>a, <2>2, <2>3, Zenon DEF InputInv
<1>3. CASE Person
  <2>1. pc' = pc /\ job' = job /\ row \in [Releases -> Row]
        /\ job \in [Drains -> Job]
    BY <1>3 DEF Person, Adjudicate, AdjudicationAlert, Prune, InputInv, TypeInv,
       TypeOK
  <2>2. ASSUME \/ \E r \in Releases, label \in Labels : Adjudicate(r, label)
               \/ AdjudicationAlert
        PROVE  (\A q \in Releases : row'[q].chars = row[q].chars) /\ Kept'
    <3>a. PICK r, w : /\ r \in Releases /\ row' = [row EXCEPT ![r] = w]
                      /\ Sound(w) /\ w.chars = row[r].chars
      <4>1. ASSUME NEW r \in Releases, NEW label \in Labels, Adjudicate(r, label)
            PROVE  \E w : row' = [row EXCEPT ![r] = w]
                        /\ Sound(w) /\ w.chars = row[r].chars
        <5>1. AdjudicateRow(row[r], label).chars = row[r].chars
          BY <2>1 DEF AdjudicateRow, Row
        <5>2. Sound(AdjudicateRow(row[r], label))
          BY <2>1, StoreSound DEF InputInv, Kept
        <5> QED
          BY <4>1, <5>1, <5>2 DEF Adjudicate
      <4>2. CASE AdjudicationAlert
        <5>1. person.rid \in Releases
          BY <4>2 DEF AdjudicationAlert, InputInv, TypeInv, TypeOK, Labelled
        <5>2. Emit(row[person.rid], person.label).chars = row[person.rid].chars
          BY <2>1, <5>1 DEF Emit, Row
        <5>3. Sound(Emit(row[person.rid], person.label))
          BY <2>1, <5>1, StoreSound DEF InputInv, Kept
        <5> QED
          BY <4>2, <5>1, <5>2, <5>3 DEF AdjudicationAlert
      <4> QED
        BY <2>2, <4>1, <4>2
    <3> QED
      BY <2>1, <3>a DEF InputInv, Kept
  <2>3. ASSUME Prune
        PROVE  (\A q \in Releases : row'[q].chars = row[q].chars) /\ Kept'
    <3>1. \A r \in Releases : /\ Pruned[r].chars = row[r].chars
                              /\ Pruned[r].reason = row[r].reason
      BY <2>1, PrunedRows
    <3>2. row' = Pruned
      BY <2>3 DEF Prune
    <3> QED
      BY <3>1, <3>2 DEF InputInv, Kept, Sound
  <2>4. /\ \A q \in Releases : row'[q].chars = row[q].chars
        /\ Kept'
    BY <1>3, <2>2, <2>3 DEF Person
  <2>5. ASSUME NEW p \in Drains  PROVE Carried(p)'
    <3>1. /\ job[p].todo \in SUBSET Snapshot
          /\ pc[p] = "rebuild" => job[p].rid \in Releases
      BY <2>1 DEF InputInv, TypeInv, LocalsKnown, Free, Job
    <3>2. \A s \in job[p].todo : s.rid \in Releases
      BY <3>1 DEF Snapshot
    <3>3. Carried(p)
      BY DEF InputInv
    <3> QED
      BY <2>1, <2>4, <3>1, <3>2, <3>3 DEF Carried, Mine
  <2> QED
    BY <1>a, <2>4, <2>5 DEF InputInv
<1>4. CASE UNCHANGED vars
  BY <1>a, <1>4 DEF vars, InputInv, Kept, Carried, Mine
<1> QED
  BY <1>1, <1>2, <1>3, <1>4 DEF Next

\* park_for_review: as long as only one process drains the queue, a queued
\* release keeps its review input until it leaves the queue, wherever that
\* process is killed and whoever labels releases meanwhile.  (Two drains of one
\* reason can lose it; InputKeptByTwo proves it for two with disjoint reasons.)
THEOREM InputKept ==
    ASSUME \A p, q \in Drains : p = q
    PROVE  Spec => []QueuedHasInput
<1>1. Init => InputInv
  BY InitTypes DEF Init, InputInv, Kept, Sound, NewRow, Carried, Rest, Texted
<1>2. InputInv /\ [Next]_vars => InputInv'
  BY InputStep
<1>3. InputInv => QueuedHasInput
  BY DEF InputInv, Kept, Sound, QueuedHasInput
<1> QED
  BY <1>1, <1>2, <1>3, PTL DEF Spec

-----------------------------------------------------------------------------
(* How the rows map to ReleaseOutcome.                                      *)

\* The life of a row in ReleaseOutcome: PlaceOf, AnswerOf and the alarm.
PlaceIn(w) ==
    CASE w.stage = "new"                                       -> "unseen"
      [] \/ w.stage \in {"reviewed", "removed_before_scan"}
         \/ w.stage = "triaged" /\ ~w.escalated                -> "closed"
      [] w.stage \in {"needs_adjudication", "reviewed_partial"} -> "person"
      [] w.stage = "pending_review" /\ w.verdict = "unreviewed" -> "person"
      [] OTHER                                                 -> "queue"

AnswerIn(w) ==
    IF /\ w.stage \in {"reviewed", "reviewed_partial", "needs_adjudication"}
       /\ w.verdict \in ModelClasses
    THEN w.verdict ELSE "none"

Life(w) == <<PlaceIn(w), AnswerIn(w), "malicious" \in w.sent>>

OpenIn(w) == PlaceIn(w) \in {"queue", "person"} /\ AnswerIn(w) = "none"

\* One step of the abstract life, or none.
Lives(w, v) ==
    LET answer == AnswerIn(v)
        same == AnswerIn(v) = AnswerIn(w)
        quiet == ("malicious" \in v.sent) <=> ("malicious" \in w.sent)
    IN  \/ PlaceIn(v) = PlaceIn(w) /\ same /\ quiet
        \/ PlaceIn(w) = "unseen" /\ PlaceIn(v) = "queue" /\ same /\ quiet
        \/ OpenIn(w) /\ PlaceIn(v) \in {"queue", "person", "closed"} /\ same /\ quiet
        \/ OpenIn(w) /\ PlaceIn(v) = "person" /\ answer \in {"benign", "suspicious"} /\ quiet
        \/ OpenIn(w) /\ PlaceIn(v) = "closed" /\ answer = "benign" /\ quiet
        \/ OpenIn(w) /\ PlaceIn(v) = PlaceIn(w) /\ same /\ "malicious" \in v.sent
        \/ /\ OpenIn(w) /\ "malicious" \in w.sent /\ quiet
           /\ PlaceIn(v) = "closed" /\ answer = "malicious"

\* A model's verdict stays, and so does a label.
Keeps(w, v) ==
    /\ w.verdict \in ModelClasses => v.verdict = w.verdict
    /\ w.label # "none" => v.label # "none"

\* At most one release lives on, and no row loses what it keeps.
Lived ==
    /\ \A q \in Releases : Keeps(row[q], row'[q])
    /\ \/ \A q \in Releases : Life(row'[q]) = Life(row[q])
       \/ \E r \in Releases : /\ Lives(row[r], row'[r])
                              /\ \A q \in Releases \ {r} : row'[q] = row[q]

\* Row by row, a step of the queue is a step of ReleaseOutcome under the mapping.
LEMMA MappedStep ==
    ASSUME Lived
    PROVE  [Outcome!Next]_Outcome!vars
<1> DEFINE place == [r \in Releases |-> PlaceOf(r)]
<1> DEFINE answer == [r \in Releases |-> AnswerOf(r)]
<1> DEFINE alarmed == {r \in Releases : "malicious" \in row[r].sent}
<1>a. \A r \in Releases : /\ place[r] = PlaceIn(row[r]) /\ answer[r] = AnswerIn(row[r])
                          /\ place'[r] = PlaceIn(row'[r]) /\ answer'[r] = AnswerIn(row'[r])
  BY DEF PlaceOf, PlaceIn, AnswerOf, AnswerIn, Settled
<1>b. \A r \in Releases : /\ r \in alarmed <=> "malicious" \in row[r].sent
                          /\ r \in alarmed' <=> "malicious" \in row'[r].sent
  OBVIOUS
<1>c. /\ place = [r \in Releases |-> place[r]] /\ place' = [r \in Releases |-> place'[r]]
      /\ answer = [r \in Releases |-> answer[r]]
      /\ answer' = [r \in Releases |-> answer'[r]]
      /\ alarmed \subseteq Releases /\ alarmed' \subseteq Releases
  OBVIOUS
<1>d. /\ Outcome!vars = <<place, answer, alarmed>>
      /\ Outcome!vars' = <<place', answer', alarmed'>>
  BY DEF Outcome!vars
<1>e. ASSUME NEW r \in Releases,
             \/ Outcome!Escalate(r) \/ Outcome!HandOver(r) \/ Outcome!TakeBack(r)
             \/ Outcome!Dismiss(r) \/ Outcome!Judge(r) \/ Outcome!Alarm(r)
             \/ Outcome!Condemn(r)
      PROVE  Outcome!Next
  BY <1>e DEF Outcome!Next
<1>f. ASSUME NEW r \in Releases
      PROVE  /\ \A to : Outcome!Move(r, to) <=> place' = [place EXCEPT ![r] = to]
             /\ Outcome!Escalate(r) <=>
                    /\ place[r] = "unseen" /\ Outcome!Move(r, "queue")
                    /\ answer' = answer /\ alarmed' = alarmed
             /\ Outcome!Open(r) <=> place[r] \in {"queue", "person"} /\ answer[r] = "none"
             /\ Outcome!HandOver(r) <=>
                    /\ place[r] = "queue" /\ answer[r] = "none" /\ Outcome!Move(r, "person")
                    /\ answer' = answer /\ alarmed' = alarmed
             /\ Outcome!TakeBack(r) <=>
                    /\ place[r] = "person" /\ answer[r] = "none" /\ Outcome!Move(r, "queue")
                    /\ answer' = answer /\ alarmed' = alarmed
  BY DEF Outcome!Move, Outcome!Escalate, Outcome!Open, Outcome!HandOver, Outcome!TakeBack
<1>g. ASSUME NEW r \in Releases
      PROVE  /\ Outcome!Dismiss(r) <=>
                    /\ Outcome!Open(r) /\ Outcome!Move(r, "closed")
                    /\ answer' = answer /\ alarmed' = alarmed
             /\ Outcome!Judge(r) <=>
                    /\ Outcome!Open(r)
                    /\ \E class \in {"benign", "suspicious"} :
                          answer' = [answer EXCEPT ![r] = class]
                    /\ \/ answer'[r] = "benign" /\ Outcome!Move(r, "closed")
                       \/ Outcome!Move(r, "person")
                    /\ alarmed' = alarmed
             /\ Outcome!Alarm(r) <=>
                    /\ Outcome!Open(r) /\ alarmed' = alarmed \cup {r}
                    /\ place' = place /\ answer' = answer
             /\ Outcome!Condemn(r) <=>
                    /\ Outcome!Open(r) /\ r \in alarmed
                    /\ answer' = [answer EXCEPT ![r] = "malicious"]
                    /\ Outcome!Move(r, "closed") /\ alarmed' = alarmed
  BY DEF Outcome!Dismiss, Outcome!Judge, Outcome!Alarm, Outcome!Condemn
<1> HIDE DEF place, answer, alarmed
<1>1. CASE \A q \in Releases : Life(row'[q]) = Life(row[q])
  <2>1. \A q \in Releases : place'[q] = place[q] /\ answer'[q] = answer[q]
    BY <1>a, <1>1 DEF Life
  <2>2. alarmed' = alarmed
    BY <1>b, <1>c, <1>1 DEF Life
  <2>3. place' = place /\ answer' = answer
    BY <1>c, <2>1
  <2> QED
    BY <1>d, <2>2, <2>3
<1>2. CASE \E r \in Releases : /\ Lives(row[r], row'[r])
                               /\ \A q \in Releases \ {r} : row'[q] = row[q]
  <2>1. PICK r \in Releases : /\ Lives(row[r], row'[r])
                              /\ \A q \in Releases \ {r} : row'[q] = row[q]
    BY <1>2
  <2>2. \A q \in Releases \ {r} : place'[q] = place[q] /\ answer'[q] = answer[q]
    BY <1>a, <2>1
  <2>3. \A q \in Releases \ {r} : q \in alarmed' <=> q \in alarmed
    BY <1>b, <2>1
  <2>4. /\ place' = [place EXCEPT ![r] = place'[r]]
        /\ answer' = [answer EXCEPT ![r] = answer'[r]]
    BY <1>c, <2>2
  <2>5. ("malicious" \in row'[r].sent <=> "malicious" \in row[r].sent) => alarmed' = alarmed
    BY <1>b, <1>c, <2>3
  <2>6. "malicious" \in row'[r].sent => alarmed' = alarmed \cup {r}
    BY <1>b, <1>c, <2>3
  <2>7. answer'[r] = answer[r] => answer' = answer
    BY <1>c, <2>2
  <2>8. place'[r] = place[r] => place' = place
    BY <1>c, <2>2
  <2>9. /\ OpenIn(row[r]) <=> Outcome!Open(r)
        /\ \A to : place'[r] = to => Outcome!Move(r, to)
    BY <1>a, <1>f, <2>4 DEF OpenIn
  <2>10. \/ place'[r] = place[r] /\ answer'[r] = answer[r] /\ alarmed' = alarmed
         \/ /\ place[r] = "unseen" /\ place'[r] = "queue" /\ answer'[r] = answer[r]
            /\ alarmed' = alarmed
         \/ /\ Outcome!Open(r) /\ place'[r] \in {"queue", "person", "closed"}
            /\ answer'[r] = answer[r] /\ alarmed' = alarmed
         \/ /\ Outcome!Open(r) /\ place'[r] = "person"
            /\ answer'[r] \in {"benign", "suspicious"} /\ alarmed' = alarmed
         \/ /\ Outcome!Open(r) /\ place'[r] = "closed" /\ answer'[r] = "benign"
            /\ alarmed' = alarmed
         \/ /\ Outcome!Open(r) /\ place'[r] = place[r] /\ answer'[r] = answer[r]
            /\ alarmed' = alarmed \cup {r}
         \/ /\ Outcome!Open(r) /\ r \in alarmed /\ place'[r] = "closed"
            /\ answer'[r] = "malicious" /\ alarmed' = alarmed
    BY <1>a, <1>b, <2>1, <2>5, <2>6, <2>9 DEF Lives
  <2>11. CASE place'[r] = place[r] /\ answer'[r] = answer[r] /\ alarmed' = alarmed
    BY <1>d, <2>7, <2>8, <2>11
  <2>12. CASE /\ place[r] = "unseen" /\ place'[r] = "queue" /\ answer'[r] = answer[r]
              /\ alarmed' = alarmed
    <3>1. Outcome!Escalate(r)
      BY <1>f, <2>7, <2>9, <2>12
    <3> QED
      BY <1>e, <3>1
  <2>13. CASE /\ Outcome!Open(r) /\ place'[r] \in {"queue", "person", "closed"}
              /\ answer'[r] = answer[r] /\ alarmed' = alarmed
    <3>1. place[r] \in {"queue", "person"} /\ answer[r] = "none"
      BY <1>f, <2>13
    <3>2. CASE place'[r] = place[r]
      BY <1>d, <2>7, <2>8, <2>13, <3>2
    <3>3. CASE place'[r] = "closed"
      <4>1. Outcome!Dismiss(r)
        BY <1>g, <2>7, <2>9, <2>13, <3>3
      <4> QED
        BY <1>e, <4>1
    <3>4. CASE place[r] = "queue" /\ place'[r] = "person"
      <4>1. Outcome!HandOver(r)
        BY <1>f, <2>7, <2>9, <2>13, <3>1, <3>4
      <4> QED
        BY <1>e, <4>1
    <3>5. CASE place[r] = "person" /\ place'[r] = "queue"
      <4>1. Outcome!TakeBack(r)
        BY <1>f, <2>7, <2>9, <2>13, <3>1, <3>5
      <4> QED
        BY <1>e, <4>1
    <3> QED
      BY <2>13, <3>1, <3>2, <3>3, <3>4, <3>5
  <2>14. CASE /\ Outcome!Open(r) /\ place'[r] = "person"
              /\ answer'[r] \in {"benign", "suspicious"} /\ alarmed' = alarmed
    <3>1. Outcome!Judge(r)
      BY <1>g, <2>4, <2>9, <2>14
    <3> QED
      BY <1>e, <3>1
  <2>15. CASE /\ Outcome!Open(r) /\ place'[r] = "closed" /\ answer'[r] = "benign"
              /\ alarmed' = alarmed
    <3>1. Outcome!Judge(r)
      BY <1>g, <2>4, <2>9, <2>15
    <3> QED
      BY <1>e, <3>1
  <2>16. CASE /\ Outcome!Open(r) /\ place'[r] = place[r] /\ answer'[r] = answer[r]
              /\ alarmed' = alarmed \cup {r}
    <3>1. Outcome!Alarm(r)
      BY <1>g, <2>7, <2>8, <2>16
    <3> QED
      BY <1>e, <3>1
  <2>17. CASE /\ Outcome!Open(r) /\ r \in alarmed /\ place'[r] = "closed"
              /\ answer'[r] = "malicious" /\ alarmed' = alarmed
    <3>1. Outcome!Condemn(r)
      BY <1>g, <2>4, <2>9, <2>17
    <3> QED
      BY <1>e, <3>1
  <2> QED
    BY <2>10, <2>11, <2>12, <2>13, <2>14, <2>15, <2>16, <2>17
<1> QED
  BY <1>1, <1>2 DEF Lived

=============================================================================
