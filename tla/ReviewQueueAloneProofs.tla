------------------------ MODULE ReviewQueueAloneProofs ------------------------
(***************************************************************************)
(* Proofs about ReviewQueue with one drain at a time, killed anywhere and  *)
(* any number of times: a model's verdict is final, alerts and evidence    *)
(* match the verdicts, what `pending` shows as not scanned was tried and   *)
(* warned about, and the queue implements ReleaseOutcome.                  *)
(***************************************************************************)
EXTENDS ReviewQueueProofs

-----------------------------------------------------------------------------
(* The invariant.                                                          *)

\* What holds of every row, whoever has it in hand.
RowOk(w) ==
    /\ w.reason # NoReason => w.stage = "pending_review" /\ w.verdict \notin ModelClasses
    /\ w.stage = "new" => w.reason = NoReason /\ w.verdict = "none" /\ w.attempts = 0
    /\ w.label = "none" => /\ "malicious" \in w.sent => w.verdict = "malicious"
                           /\ "suspicious|downgraded" \in w.sent => w.verdict = "suspicious"
    /\ w.stage = "reviewed" /\ w.verdict = "malicious" => "malicious" \in w.sent

\* Unless somebody prunes by hand, the flagged code is stored with the input and kept
\* for a person.
Shown(r, w) ==
    ~PrunedByHand /\ r \in Coded =>
        /\ w.stage \in {"needs_adjudication", "reviewed_partial"} => w.evidence
        /\ w.reason # NoReason /\ w.chars > 0 => w.evidence

\* A release shown as not scanned has used up its attempts and has alerted.
Told(w) ==
    w.stage \in {"triaged", "pending_review"} /\ w.verdict = "unreviewed" /\ w.label = "none"
        => w.attempts >= MaxAttempts /\ "unscanned:review_failed" \in w.sent

\* The tick alone takes a release up as long as it has attempts left.
TickOnly == Drains = {"tick"}

Waiting(w) ==
    /\ Told(w)
    /\ TickOnly => /\ w.attempts <= MaxAttempts
                   /\ w.reason # NoReason =>
                         \/ w.attempts < MaxAttempts
                         \/ w.reason = "review_failed" /\ w.verdict # "none"

\* Where a release in hand may still be reviewed, and where its answer is stored.
Early == {"rebuild", "evidence", "requeue", "queue", "admit", "slot", "model", "bump", "unscan"}
Answered == {"drop", "stage", "alert"}

\* Where the release in hand is off the queue for good.
Unqueued == Answered \cup {"verdict", "removed", "unwarn", "cleared"}

\* The row in hand, place by place: its stage and its verdict, ...
HandRow(place, j, w) ==
    /\ \/ w.stage \in {"triaged", "pending_review"}
       \/ place = "alert" /\ w.stage = "needs_adjudication"
    /\ w.stage = "triaged" => w.escalated
    /\ IF place \in Answered THEN w.verdict = Stored[j.outcome] ELSE w.verdict \notin ModelClasses
    /\ place = "alert" /\ j.outcome # "malicious" => w.stage = "needs_adjudication"
    /\ place = "alert" /\ j.outcome = "malicious" => w.stage # "needs_adjudication"
    /\ place = "drop" => j.outcome = "benign"
    /\ place = "stage" /\ j.outcome = "malicious" => "malicious" \in w.sent
    /\ place \in Unqueued => w.reason = NoReason
    /\ place = "rebuild" => w.reason # NoReason
    /\ place = "park" => j.why \in Reasons \ {"in_review"}

\* ... its evidence, ...
HandShown(place, j, w) ==
    ~PrunedByHand /\ j.rid \in Coded =>
        /\ place \in {"requeue", "admit", "slot", "model", "clear", "verdict"} => w.evidence
        /\ place = "queue" /\ j.mode # "off" => w.evidence
        /\ place \in {"bump", "park"} /\ j.text # 0 => w.evidence
        /\ place = "unscan" /\ j.why = "in_review" => w.evidence
        /\ place \in {"stage", "alert"} /\ j.outcome # "benign" => w.evidence

\* ... and its attempts.
HandTold(place, j, w) ==
    /\ place \notin {"warn", "drop", "stage"} => Told(w)
    /\ place = "warn" => w.verdict = "unreviewed"
    /\ place \in {"warnverdict", "warn"} => w.attempts >= MaxAttempts
    /\ place = "park" /\ j.spent => w.attempts >= MaxAttempts
    /\ TickOnly =>
         /\ w.attempts <= MaxAttempts
         /\ place \in Early => w.attempts < MaxAttempts
         /\ place = "park" /\ ~j.spent => w.attempts < MaxAttempts
         /\ place = "park" /\ j.spent => j.why = "review_failed"
         /\ place \in {"warnverdict", "warn"} => w.reason = "review_failed"

\* What a process at `place` knows of the release it has in hand, ...
Hand(place, j, w) ==
    /\ place \in Early => ~j.spent
    /\ HandRow(place, j, w)
    /\ HandShown(place, j, w)
    /\ crashes = 0 => HandTold(place, j, w)

HandOk(p) ==
    IF pc[p] \in Free
    THEN job[p].rid = 0 /\ (pc[p] = "page" => p = "manual")
    ELSE Hand(pc[p], job[p], Mine(p))

\* ... and of the ones it has read.
TodoOk(p) ==
    \A s \in job[p].todo :
        /\ row[s.rid].reason # NoReason /\ row[s.rid].attempts = s.attempts
        /\ crashes = 0 => Waiting(row[s.rid]) /\ (TickOnly => s.attempts < MaxAttempts)

AloneInv ==
    /\ InputInv
    /\ \A r \in Releases : RowOk(row[r]) /\ Shown(r, row[r])
    /\ crashes = 0 => \A r \in Releases : InHand(r) \/ Waiting(row[r])
    /\ \A p \in Drains : HandOk(p) /\ TodoOk(p)
    /\ \A p \in Drains : pc[p] \in Free => ~job[p].spent
    /\ person # Nobody => row[person.rid].label # "none"

-----------------------------------------------------------------------------
(* What a step may do to a row.                                            *)

StoreOk(r, w, v) == RowOk(v) /\ Shown(r, v) /\ Keeps(w, v) /\ Lives(w, v)

-----------------------------------------------------------------------------
(* Frames: the release in hand, and the ones left alone.                   *)

\* With one drain, what holds of it holds of every process.
LEMMA OneDrain ==
    ASSUME \A p, q \in Drains : p = q, NEW p \in Drains
    PROVE  /\ Drains = {p}
           /\ \A r \in Releases : InHand(r) <=> job[p].rid = r
BY DEF InHand

\* The release in hand, before the step.
LEMMA HandFacts ==
    ASSUME AloneInv, NEW p \in Drains, pc[p] \notin Free
    PROVE  /\ Hand(pc[p], job[p], Mine(p))
           /\ RowOk(Mine(p)) /\ Shown(job[p].rid, Mine(p))
<1>1. job[p].rid \in Releases
  BY InHandFacts DEF AloneInv
<1> QED
  BY <1>1 DEF AloneInv, HandOk, Mine

\* Only the row of r is written, and the parts about rows and the person hold after it.
OneRow(r, v) ==
    /\ \A q \in Releases : RowOk(row'[q]) /\ Shown(q, row'[q])
    /\ \A q \in Releases \ {r} : row'[q] = row[q]
    /\ row'[r] = v
    /\ person' # Nobody => row'[person.rid].label # "none"
    /\ Lived

\* One row is written: the others are what they were.
LEMMA OneWritten ==
    ASSUME AloneInv, NEW r \in Releases, NEW v \in Row, StoreOk(r, row[r], v),
           row' = [row EXCEPT ![r] = v],
           UNCHANGED <<person, crashes>>
    PROVE  OneRow(r, v)
<1>1. row \in [Releases -> Row] /\ person \in {Nobody} \cup Labelled
  BY DEF AloneInv, InputInv, TypeInv, TypeOK
<1>2. /\ row'[r] = v
      /\ \A q \in Releases \ {r} : row'[q] = row[q]
  BY <1>1
<1>3. ASSUME NEW q \in Releases  PROVE RowOk(row'[q]) /\ Shown(q, row'[q])
  BY <1>2 DEF AloneInv, StoreOk
<1>4. person # Nobody => row'[person.rid].label # "none"
  <2>1. person # Nobody => person.rid \in Releases
    BY <1>1 DEF Labelled
  <2> QED
    BY <1>2, <2>1 DEF AloneInv, StoreOk, Keeps
<1>5. Lived
  <2>1. \A q \in Releases : Keeps(row[q], row'[q])
    BY <1>2 DEF StoreOk, Keeps
  <2> QED
    BY <1>2, <2>1 DEF StoreOk, Lived
<1> QED
  BY <1>2, <1>3, <1>4, <1>5 DEF OneRow

\* What is left to do does not hold the release in hand.
LEMMA TodoElsewhere ==
    ASSUME AloneInv, NEW p \in Drains, NEW s \in job[p].todo
    PROVE  s \in Snapshot /\ s.rid \in Releases /\ s.rid # job[p].rid
<1>1. job[p].todo \in SUBSET Snapshot
  BY DEF AloneInv, InputInv, TypeInv, TypeOK, Job
<1>2. s.rid # job[p].rid
  BY DEF AloneInv, InputInv, Carried
<1> QED
  BY <1>1, <1>2 DEF Snapshot

\* A release is taken up, or stays in hand.
LEMMA TakeStep ==
    ASSUME \A p, q \in Drains : p = q, AloneInv, InputInv',
           NEW p \in Drains, NEW r \in Releases, job[p].rid \in {0, r},
           NEW v \in Row, row' = [row EXCEPT ![r] = v],
           NEW place \in Places \ Free, Go(p, place),
           NEW j \in Job, Keep(p, j), j.rid = r, j.todo \subseteq job[p].todo,
           \A s \in j.todo : s.rid # r,
           StoreOk(r, row[r], v),
           Hand(place, j, v),
           UNCHANGED <<person, crashes>>
    PROVE  AloneInv' /\ Lived
<1>1. OneRow(r, v)
  BY OneWritten
<1>2. /\ \A q \in Releases : RowOk(row'[q]) /\ Shown(q, row'[q])
      /\ \A q \in Releases \ {r} : row'[q] = row[q]
      /\ row'[r] = v
      /\ person' # Nobody => row'[person.rid].label # "none"
      /\ Lived
  BY <1>1 DEF OneRow
<1>3. pc'[p] = place /\ job'[p] = j
  BY DEF AloneInv, InputInv, TypeInv, TypeOK, Go, Keep
<1>4. HandOk(p)'
  <2>1. Mine(p)' = v
    BY <1>2, <1>3 DEF Mine
  <2>2. Hand(place, j, v)'
    BY DEF Hand
  <2>3. (pc[p] \notin Free)'
    BY <1>3
  <2> QED
    BY <1>3, <2>1, <2>2, <2>3 DEF HandOk
<1>5. TodoOk(p)'
  <2>1. ASSUME NEW s \in j.todo
        PROVE  s \in job[p].todo /\ row'[s.rid] = row[s.rid]
    <3>1. s.rid \in Releases
      BY TodoElsewhere
    <3> QED
      BY <1>2, <3>1
  <2> QED
    BY <1>3, <2>1 DEF AloneInv, TodoOk
<1>6. crashes = 0 => \A q \in Releases : InHand(q)' \/ Waiting(row'[q])
  <2>1. ASSUME crashes = 0, NEW q \in Releases, q # r  PROVE Waiting(row'[q])
    <3>1. ~InHand(q)
      BY <2>1, OneDrain, ReleasesAssumption
    <3>2. Waiting(row[q])
      BY <2>1, <3>1 DEF AloneInv
    <3> QED
      BY <1>2, <2>1, <3>2
  <2>2. job'[p].rid = r
    BY <1>3
  <2> QED
    BY <2>1, <2>2 DEF InHand
<1>7. \A q \in Drains : q = p
  OBVIOUS
<1>8. pc'[p] \notin Free
  BY <1>3
<1> QED
  BY <1>2, <1>4, <1>5, <1>6, <1>7, <1>8, Zenon DEF AloneInv

\* The release stays in hand.
LEMMA HandStep ==
    ASSUME \A p, q \in Drains : p = q, AloneInv, InputInv',
           NEW p \in Drains, pc[p] \notin Free,
           NEW v \in Row, Write(p, v),
           NEW place \in Places \ Free, Go(p, place),
           NEW j \in Job, Keep(p, j), j.rid = job[p].rid, j.todo = job[p].todo,
           StoreOk(job[p].rid, Mine(p), v),
           Hand(place, j, v),
           UNCHANGED <<person, crashes>>
    PROVE  AloneInv' /\ Lived
<1> DEFINE r == job[p].rid
<1>1. r \in Releases /\ row' = [row EXCEPT ![r] = v] /\ Mine(p) = row[r]
  BY InHandFacts DEF AloneInv, Write, Mine
<1>2. \A s \in j.todo : s.rid # r
  BY TodoElsewhere
<1>3. StoreOk(r, row[r], v)
  BY <1>1
<1>4. job[p].rid \in {0, r} /\ j.todo \subseteq job[p].todo /\ j.rid = r
  OBVIOUS
<1> HIDE DEF r
<1> QED
  BY <1>1, <1>2, <1>3, <1>4, TakeStep

\* Where a release is handed back.
LEMMA DoneLocals ==
    ASSUME AloneInv, NEW p \in Drains, NEW j \in Job, Done(p, j)
    PROVE  /\ pc'[p] \in {"drain", "scan", "idle"}
           /\ job'[p].rid = 0 /\ ~job'[p].spent
           /\ job'[p].todo \subseteq j.todo
<1> DEFINE away == [j EXCEPT !.rid = 0, !.fresh = FALSE, !.was = NoReason,
                          !.wasGone = FALSE, !.why = NoReason,
                          !.text = NoInput, !.spent = FALSE, !.goOn = TRUE,
                          !.outcome = "none"]
           end == [Rest EXCEPT !.mode = j.mode]
<1>1. away.rid = 0 /\ ~away.spent /\ away.todo = j.todo
  BY DEF Job
<1>2. /\ Rest.rid = 0 /\ ~Rest.spent /\ Rest.todo = {}
      /\ end.rid = 0 /\ ~end.spent /\ end.todo = {}
  BY DEF Rest
<1>3. \/ Go(p, "drain") /\ Keep(p, away)
      \/ Go(p, "scan") /\ Keep(p, end)
      \/ Go(p, "idle") /\ Keep(p, Rest)
  BY DEF Done
<1> HIDE DEF away, end
<1>4. \/ pc'[p] = "drain" /\ job'[p] = away
      \/ pc'[p] = "scan" /\ job'[p] = end
      \/ pc'[p] = "idle" /\ job'[p] = Rest
  BY <1>3 DEF Go, Keep, AloneInv, InputInv, TypeInv, TypeOK
<1> QED
  BY <1>1, <1>2, <1>4

\* The release is handed back.
LEMMA HandDone ==
    ASSUME \A p, q \in Drains : p = q, AloneInv, InputInv',
           NEW p \in Drains, NEW r \in Releases,
           NEW v \in Row, row' = [row EXCEPT ![r] = v],
           NEW j \in Job, Done(p, j), j.todo \subseteq job[p].todo,
           \A s \in j.todo : s.rid # r,
           job[p].rid \in {0, r},
           StoreOk(r, row[r], v),
           crashes = 0 => Waiting(v),
           UNCHANGED <<person, crashes>>
    PROVE  AloneInv' /\ Lived
<1>1. OneRow(r, v)
  BY OneWritten
<1>2. /\ \A q \in Releases : RowOk(row'[q]) /\ Shown(q, row'[q])
      /\ \A q \in Releases \ {r} : row'[q] = row[q]
      /\ row'[r] = v
      /\ person' # Nobody => row'[person.rid].label # "none"
      /\ Lived
  BY <1>1 DEF OneRow
<1>3. /\ pc'[p] \in Free \ {"page"} /\ job'[p].rid = 0 /\ ~job'[p].spent
      /\ job'[p].todo \subseteq j.todo
  BY DoneLocals DEF Free
<1>4. HandOk(p)'
  BY <1>3 DEF HandOk
<1>5. TodoOk(p)'
  <2>1. ASSUME NEW s \in job'[p].todo
        PROVE  s \in job[p].todo /\ row'[s.rid] = row[s.rid]
    <3>1. s \in job[p].todo /\ s.rid # r
      BY <1>3
    <3>2. s.rid \in Releases
      BY <3>1, TodoElsewhere
    <3> QED
      BY <1>2, <3>1, <3>2
  <2> QED
    BY <2>1 DEF AloneInv, TodoOk
<1>6. crashes = 0 => \A q \in Releases : InHand(q)' \/ Waiting(row'[q])
  <2>1. \A q \in Releases \ {r} : ~InHand(q)
    BY OneDrain, ReleasesAssumption
  <2> QED
    BY <1>2, <2>1 DEF AloneInv
<1>7. \A q \in Drains : q = p
  OBVIOUS
<1> QED
  BY <1>2, <1>3, <1>4, <1>5, <1>6, <1>7, Zenon DEF AloneInv

\* Nothing is in hand, before the step or after it, and no row changes its life.
LEMMA FreeStep ==
    ASSUME \A p, q \in Drains : p = q, AloneInv, InputInv',
           NEW p \in Drains, pc'[p] \in Free, pc'[p] = "page" => p = "manual",
           job'[p].rid = 0, ~job'[p].spent,
           \A q \in Releases :
               /\ RowOk(row'[q]) /\ Shown(q, row'[q])
               /\ row[q].label # "none" => row'[q].label # "none"
               /\ crashes' = 0 => Waiting(row'[q]),
           TodoOk(p)',
           UNCHANGED person
    PROVE  AloneInv'
<1>1. HandOk(p)'
  BY DEF HandOk
<1>2. person' # Nobody => row'[person.rid].label # "none"
  <2>1. person \in {Nobody} \cup Labelled
    BY DEF AloneInv, InputInv, TypeInv, TypeOK
  <2>2. person # Nobody => person.rid \in Releases
    BY <2>1 DEF Labelled
  <2> QED
    BY <2>2 DEF AloneInv
<1>3. \A q \in Drains : q = p
  OBVIOUS
<1> QED
  BY <1>1, <1>2, <1>3, Zenon DEF AloneInv

\* With nothing in hand, every release waits.
LEMMA AllWait ==
    ASSUME \A p, q \in Drains : p = q, AloneInv, NEW p \in Drains,
           pc[p] \in Free \/ job[p].rid = 0, crashes = 0
    PROVE  \A q \in Releases : Waiting(row[q])
<1>1. job[p].rid = 0
  BY DEF AloneInv, HandOk
<1>2. \A q \in Releases : ~InHand(q)
  BY <1>1, OneDrain, ReleasesAssumption
<1> QED
  BY <1>2 DEF AloneInv

\* Pruning takes nothing a person needs, unless somebody prunes by hand.
LEMMA PrunedOk ==
    ASSUME AloneInv, NEW q \in Releases
    PROVE  /\ RowOk(Pruned[q]) /\ Shown(q, Pruned[q])
           /\ Pruned[q].label = row[q].label
           /\ Waiting(row[q]) => Waiting(Pruned[q])
           /\ Life(Pruned[q]) = Life(row[q])
           /\ Pruned[q].reason = row[q].reason
           /\ Pruned[q].attempts = row[q].attempts
           /\ Keeps(row[q], Pruned[q])
<1> DEFINE w == row[q]
           v == Pruned[q]
<1>1. w \in Row /\ RowOk(w) /\ Shown(q, w)
  BY DEF AloneInv, InputInv, TypeInv, TypeOK
<1>2. v = IF Prunable(w) THEN [w EXCEPT !.evidence = FALSE] ELSE w
  BY DEF Pruned
<1> HIDE DEF w, v
<1>3. /\ v.stage = w.stage /\ v.reason = w.reason /\ v.attempts = w.attempts
      /\ v.verdict = w.verdict /\ v.label = w.label /\ v.sent = w.sent
      /\ v.chars = w.chars /\ (v.escalated <=> w.escalated)
  BY <1>1, <1>2 DEF Row
<1>4. RowOk(v)
  BY <1>1, <1>3 DEF RowOk
<1>5. Shown(q, v)
  BY <1>1, <1>2, <1>3 DEF Shown, Prunable, RowOk, ModelClasses, Row
<1>6. Waiting(w) => Waiting(v)
  BY <1>3 DEF Waiting, Told, TickOnly
<1>7. Life(v) = Life(w)
  <2>1. PlaceIn(v) = PlaceIn(w)
    BY <1>3 DEF PlaceIn
  <2>2. AnswerIn(v) = AnswerIn(w)
    BY <1>3 DEF AnswerIn
  <2> QED
    BY <1>3, <2>1, <2>2 DEF Life
<1>8. Keeps(w, v)
  BY <1>3 DEF Keeps
<1> QED
  BY <1>3, <1>4, <1>5, <1>6, <1>7, <1>8 DEF w, v

-----------------------------------------------------------------------------
(* Action by action: what the row in hand becomes.                          *)

LEMMA AttemptRows ==
    ASSUME NEW j \in Job, NEW w \in Row, RowOk(w), Shown(j.rid, w)
    PROVE  /\ \A place \in {"admit", "slot"} : Hand(place, j, w) =>
                 Hand(IF place = "admit" THEN "slot" ELSE "model", j, w)
           /\ \A why \in {"model_busy", "endpoint_unreachable"} :
                 Hand("admit", j, w) \/ Hand("model", j, w) =>
                    Hand("park", [j EXCEPT !.why = why, !.goOn = FALSE], w)
           /\ \A outcome \in Outcomes : Hand("model", j, w) =>
                 Hand("clear", [j EXCEPT !.outcome = outcome], w)
           /\ \A goOn \in BOOLEAN : Hand("model", j, w) =>
                 Hand("bump", [j EXCEPT !.goOn = goOn], w)
           /\ Hand("bump", j, w) =>
                 LET v == BumpReviewAttempts(w)
                 IN  /\ StoreOk(j.rid, w, v)
                     /\ \A spent \in BOOLEAN : (spent <=> v.attempts >= MaxAttempts) =>
                          Hand("park", [j EXCEPT !.why = "review_failed",
                                                 !.spent = spent], v)
           /\ Hand("park", j, w) /\ j.text # NoInput =>
                 LET v == ParkForReview(w, j.why, j.text)
                 IN  /\ StoreOk(j.rid, w, v)
                     /\ Hand(IF j.spent THEN "warnverdict" ELSE "unscan", j, v)
           /\ Hand("unscan", j, w) =>
                 LET v == ClearUnscannedVerdict(w)
                 IN  /\ StoreOk(j.rid, w, v)
                     /\ j.why = "in_review" => Hand("admit", j, v)
                     /\ j.why # "in_review" /\ crashes = 0 => Waiting(v)
           /\ Hand("warnverdict", j, w) =>
                 LET v == RecordVerdict(w, "unreviewed")
                 IN  StoreOk(j.rid, w, v) /\ Hand("warn", j, v)
           /\ Hand("warn", j, w) =>
                 LET v == Emit(w, "unscanned:review_failed")
                 IN  StoreOk(j.rid, w, v) /\ (crashes = 0 => Waiting(v))
<1> USE DEF Hand, HandRow, HandShown, HandTold, Early, Answered, Unqueued, Told,
            TickOnly, Waiting, StoreOk, RowOk, Shown, Keeps, Lives, OpenIn,
            PlaceIn, AnswerIn, ModelClasses
<1>1. \A place \in {"admit", "slot"} : Hand(place, j, w) =>
         Hand(IF place = "admit" THEN "slot" ELSE "model", j, w)
  OBVIOUS
<1>2. ASSUME NEW why \in {"model_busy", "endpoint_unreachable"},
             Hand("admit", j, w) \/ Hand("model", j, w)
      PROVE  Hand("park", [j EXCEPT !.why = why, !.goOn = FALSE], w)
  BY <1>2 DEF Job, Reasons, AutoReasons
<1>3. ASSUME NEW outcome \in Outcomes, Hand("model", j, w)
      PROVE  Hand("clear", [j EXCEPT !.outcome = outcome], w)
  BY <1>3 DEF Job
<1>4. ASSUME NEW goOn \in BOOLEAN, Hand("model", j, w)
      PROVE  Hand("bump", [j EXCEPT !.goOn = goOn], w)
  BY <1>4 DEF Job
<1>5. ASSUME Hand("bump", j, w)
      PROVE  LET v == BumpReviewAttempts(w)
             IN  /\ StoreOk(j.rid, w, v)
                 /\ \A spent \in BOOLEAN : (spent <=> v.attempts >= MaxAttempts) =>
                      Hand("park", [j EXCEPT !.why = "review_failed",
                                             !.spent = spent], v)
  <2> DEFINE v == BumpReviewAttempts(w)
  <2>1. StoreOk(j.rid, w, v)
    BY <1>5, BoundsAssumption DEF Row, BumpReviewAttempts
  <2>2. ASSUME NEW spent \in BOOLEAN, spent <=> v.attempts >= MaxAttempts
        PROVE  Hand("park", [j EXCEPT !.why = "review_failed", !.spent = spent], v)
    BY <1>5, <2>2, BoundsAssumption DEF Row, Job, BumpReviewAttempts, Reasons, AutoReasons
  <2> QED
    BY <2>1, <2>2
<1>6. ASSUME Hand("park", j, w), j.text # NoInput
      PROVE  LET v == ParkForReview(w, j.why, j.text)
             IN  /\ StoreOk(j.rid, w, v)
                 /\ Hand(IF j.spent THEN "warnverdict" ELSE "unscan", j, v)
  <2> DEFINE v == ParkForReview(w, j.why, j.text)
  <2>1. StoreOk(j.rid, w, v)
    BY <1>6 DEF Row, Job, ParkForReview
  <2>2. Hand(IF j.spent THEN "warnverdict" ELSE "unscan", j, v)
    BY <1>6 DEF Row, Job, ParkForReview
  <2> QED
    BY <2>1, <2>2
<1>7. ASSUME Hand("unscan", j, w)
      PROVE  LET v == ClearUnscannedVerdict(w)
             IN  /\ StoreOk(j.rid, w, v)
                 /\ j.why = "in_review" => Hand("admit", j, v)
                 /\ j.why # "in_review" /\ crashes = 0 => Waiting(v)
  BY <1>7, BoundsAssumption DEF Row, ClearUnscannedVerdict
<1>8. ASSUME Hand("warnverdict", j, w)
      PROVE  LET v == RecordVerdict(w, "unreviewed")
             IN  StoreOk(j.rid, w, v) /\ Hand("warn", j, v)
  BY <1>8 DEF Row, RecordVerdict
<1>9. ASSUME Hand("warn", j, w)
      PROVE  LET v == Emit(w, "unscanned:review_failed")
             IN  StoreOk(j.rid, w, v) /\ (crashes = 0 => Waiting(v))
  BY <1>9 DEF Row, Emit
<1> HIDE DEF Hand, StoreOk, Waiting
<1> QED
  BY <1>1, <1>2, <1>3, <1>4, <1>5, <1>6, <1>7, <1>8, <1>9

LEMMA RecordRows ==
    ASSUME NEW j \in Job, NEW w \in Row, RowOk(w), Shown(j.rid, w),
           j.outcome \in Outcomes
    PROVE  /\ Hand("clear", j, w) =>
                 StoreOk(j.rid, w, ClearPending(w)) /\ Hand("verdict", j, ClearPending(w))
           /\ Hand("verdict", j, w) =>
                 LET v == RecordVerdict(w, Stored[j.outcome])
                 IN  /\ StoreOk(j.rid, w, v)
                     /\ Hand(CASE j.outcome = "benign"    -> "drop"
                               [] j.outcome = "malicious" -> "alert"
                               [] OTHER                   -> "stage", j, v)
           /\ Hand("drop", j, w) =>
                 StoreOk(j.rid, w, ClearEvidence(w)) /\ Hand("stage", j, ClearEvidence(w))
           /\ Hand("stage", j, w) =>
                 LET v == UpdateStage(w, StageOf[j.outcome])
                 IN  /\ StoreOk(j.rid, w, v)
                     /\ IF j.outcome \in {"no_content", "downgraded"}
                        THEN Hand("alert", j, v)
                        ELSE crashes = 0 => Waiting(v)
           /\ Hand("alert", j, w) /\ j.outcome \in DOMAIN KeyOf =>
                 LET v == Emit(w, KeyOf[j.outcome])
                 IN  /\ StoreOk(j.rid, w, v)
                     /\ IF j.outcome = "malicious"
                        THEN Hand("stage", j, v)
                        ELSE crashes = 0 => Waiting(v)
<1> USE DEF Hand, HandRow, HandShown, HandTold, Early, Answered, Unqueued, Told,
            TickOnly, Waiting, StoreOk, RowOk, Shown, Keeps, Lives, OpenIn,
            PlaceIn, AnswerIn, ModelClasses, Outcomes, Stored
<1>1. ASSUME Hand("clear", j, w)
      PROVE  /\ StoreOk(j.rid, w, ClearPending(w))
             /\ Hand("verdict", j, ClearPending(w))
  BY <1>1 DEF Row, ClearPending
<1>2. ASSUME Hand("verdict", j, w)
      PROVE  LET v == RecordVerdict(w, Stored[j.outcome])
             IN  /\ StoreOk(j.rid, w, v)
                 /\ Hand(CASE j.outcome = "benign"    -> "drop"
                           [] j.outcome = "malicious" -> "alert"
                           [] OTHER                   -> "stage", j, v)
  BY <1>2 DEF Row, RecordVerdict
<1>3. ASSUME Hand("drop", j, w)
      PROVE  /\ StoreOk(j.rid, w, ClearEvidence(w))
             /\ Hand("stage", j, ClearEvidence(w))
  BY <1>3 DEF Row, ClearEvidence
<1>4. ASSUME Hand("stage", j, w)
      PROVE  LET v == UpdateStage(w, StageOf[j.outcome])
             IN  /\ StoreOk(j.rid, w, v)
                 /\ IF j.outcome \in {"no_content", "downgraded"}
                    THEN Hand("alert", j, v)
                    ELSE crashes = 0 => Waiting(v)
  BY <1>4 DEF Row, UpdateStage, StageOf
<1>5. ASSUME Hand("alert", j, w), j.outcome \in DOMAIN KeyOf
      PROVE  LET v == Emit(w, KeyOf[j.outcome])
             IN  /\ StoreOk(j.rid, w, v)
                 /\ IF j.outcome = "malicious"
                    THEN Hand("stage", j, v)
                    ELSE crashes = 0 => Waiting(v)
  BY <1>5 DEF Row, Emit, KeyOf
<1> HIDE DEF Hand, StoreOk, Waiting
<1> QED
  BY <1>1, <1>2, <1>3, <1>4, <1>5

LEMMA ScanRows ==
    ASSUME NEW j \in Job, NEW w \in Row, RowOk(w), Shown(j.rid, w)
    PROVE  /\ w.stage = "new" /\ ~j.spent =>
                 LET v == [UpdateStage(w, "triaged") EXCEPT !.escalated = TRUE]
                 IN  /\ StoreOk(j.rid, w, v)
                     /\ Hand(IF j.mode = "off" THEN "queue" ELSE "evidence", j, v)
           /\ Hand("evidence", j, w) =>
                 LET v == IF j.rid \in Coded THEN UpdateEvidence(w) ELSE w
                 IN  /\ StoreOk(j.rid, w, v)
                     /\ Hand("queue", j, v) /\ Hand("requeue", j, v)
           /\ Hand("queue", j, w) =>
                 LET v == ParkForReview(w, "reviewer_disabled", 0)
                 IN  StoreOk(j.rid, w, v) /\ (crashes = 0 => Waiting(v))
           /\ \A n \in Nat, why \in {"in_review", "endpoint_unreachable"} :
                 Hand("queue", j, w) /\ j.mode # "off" =>
                    LET v == ParkForReview(w, why, n)
                    IN  /\ StoreOk(j.rid, w, v)
                        /\ Hand("unscan", [j EXCEPT !.why = why, !.text = n], v)
           /\ \A n \in Nat :
                 \/ Hand("queue", j, w) /\ j.mode # "off"
                 \/ Hand("requeue", j, w)
                 =>
                    LET v == ParkForReview(w, "too_large", n)
                    IN  StoreOk(j.rid, w, v) /\ (crashes = 0 => Waiting(v))
           /\ \A n \in Nat :
                 Hand("queue", j, w) /\ j.mode # "off" =>
                    Hand("bump", [j EXCEPT !.text = n], w)
<1> USE DEF Hand, HandRow, HandShown, HandTold, Early, Answered, Unqueued, Told,
            TickOnly, Waiting, StoreOk, RowOk, Shown, Keeps, Lives, OpenIn,
            PlaceIn, AnswerIn, ModelClasses, NoReason
<1>1. ASSUME w.stage = "new", ~j.spent
      PROVE  LET v == [UpdateStage(w, "triaged") EXCEPT !.escalated = TRUE]
             IN  /\ StoreOk(j.rid, w, v)
                 /\ Hand(IF j.mode = "off" THEN "queue" ELSE "evidence", j, v)
  BY <1>1, BoundsAssumption DEF Row, Job, UpdateStage
<1>2. ASSUME Hand("evidence", j, w)
      PROVE  LET v == IF j.rid \in Coded THEN UpdateEvidence(w) ELSE w
             IN  /\ StoreOk(j.rid, w, v)
                 /\ Hand("queue", j, v) /\ Hand("requeue", j, v)
  <2>1. CASE j.rid \in Coded
    BY <1>2, <2>1 DEF Row, UpdateEvidence
  <2>2. CASE j.rid \notin Coded
    BY <1>2, <2>2
  <2> QED
    BY <2>1, <2>2
<1>3. ASSUME Hand("queue", j, w)
      PROVE  LET v == ParkForReview(w, "reviewer_disabled", 0)
             IN  StoreOk(j.rid, w, v) /\ (crashes = 0 => Waiting(v))
  BY <1>3, BoundsAssumption DEF Row, ParkForReview
<1>4. ASSUME NEW n \in Nat, NEW why \in {"in_review", "endpoint_unreachable"},
             Hand("queue", j, w), j.mode # "off"
      PROVE  LET v == ParkForReview(w, why, n)
             IN  /\ StoreOk(j.rid, w, v)
                 /\ Hand("unscan", [j EXCEPT !.why = why, !.text = n], v)
  BY <1>4 DEF Row, Job, ParkForReview
<1>5. ASSUME NEW n \in Nat,
             \/ Hand("queue", j, w) /\ j.mode # "off"
             \/ Hand("requeue", j, w)
      PROVE  LET v == ParkForReview(w, "too_large", n)
             IN  StoreOk(j.rid, w, v) /\ (crashes = 0 => Waiting(v))
  BY <1>5, BoundsAssumption DEF Row, ParkForReview
<1>6. ASSUME NEW n \in Nat, Hand("queue", j, w), j.mode # "off"
      PROVE  Hand("bump", [j EXCEPT !.text = n], w)
  BY <1>6 DEF Job
<1> HIDE DEF Hand, StoreOk, Waiting
<1> QED
  BY <1>1, <1>2, <1>3, <1>4, <1>5, <1>6

LEMMA RebuildRows ==
    ASSUME NEW j \in Job, NEW w \in Row, RowOk(w), Shown(j.rid, w)
    PROVE  /\ \A gone \in BOOLEAN : Hand("rebuild", j, w) =>
                 LET v == SetPendingReason(w, j.was, gone)
                 IN  StoreOk(j.rid, w, v) /\ (crashes = 0 => Waiting(v))
           /\ \A down \in BOOLEAN : Hand("rebuild", j, w) =>
                 Hand("bump", [j EXCEPT !.text = 0, !.down = down], w)
           /\ Hand("rebuild", j, w) =>
                 /\ StoreOk(j.rid, w, w) /\ (crashes = 0 => Waiting(w))
                 /\ StoreOk(j.rid, w, ClearPending(w))
                 /\ Hand("removed", j, ClearPending(w))
                 /\ Hand("unwarn", j, ClearPending(w))
                 /\ LET v == [UpdateStage(w, "pending_review") EXCEPT !.escalated = TRUE]
                    IN  StoreOk(j.rid, w, v) /\ Hand("evidence", j, v)
           /\ Hand("removed", j, w) =>
                 LET v == UpdateStage(w, "removed_before_scan")
                 IN  StoreOk(j.rid, w, v) /\ (crashes = 0 => Waiting(v))
           /\ Hand("unwarn", j, w) =>
                 LET v == ClearUnscannedVerdict(w)
                 IN  StoreOk(j.rid, w, v) /\ Hand("cleared", j, v)
           /\ Hand("cleared", j, w) =>
                 LET v == [UpdateStage(w, "triaged") EXCEPT !.escalated = FALSE]
                 IN  StoreOk(j.rid, w, v) /\ (crashes = 0 => Waiting(v))
           /\ \A n \in Nat : Hand("requeue", j, w) =>
                 LET v == ParkForReview(w, "in_review", n)
                 IN  /\ StoreOk(j.rid, w, v)
                     /\ Hand("unscan", [j EXCEPT !.why = "in_review", !.text = n], v)
<1> USE DEF Hand, HandRow, HandShown, HandTold, Early, Answered, Unqueued, Told,
            TickOnly, Waiting, StoreOk, RowOk, Shown, Keeps, Lives, OpenIn,
            PlaceIn, AnswerIn, ModelClasses, NoReason
<1>1. ASSUME NEW gone \in BOOLEAN, Hand("rebuild", j, w)
      PROVE  LET v == SetPendingReason(w, j.was, gone)
             IN  StoreOk(j.rid, w, v) /\ (crashes = 0 => Waiting(v))
  BY <1>1, BoundsAssumption DEF Row, Job, SetPendingReason
<1>2. ASSUME NEW down \in BOOLEAN, Hand("rebuild", j, w)
      PROVE  Hand("bump", [j EXCEPT !.text = 0, !.down = down], w)
  BY <1>2 DEF Job
<1>3. ASSUME Hand("rebuild", j, w)
      PROVE  StoreOk(j.rid, w, w) /\ (crashes = 0 => Waiting(w))
  BY <1>3, BoundsAssumption DEF Row
<1>4. ASSUME Hand("rebuild", j, w)
      PROVE  /\ StoreOk(j.rid, w, ClearPending(w))
             /\ Hand("removed", j, ClearPending(w))
             /\ Hand("unwarn", j, ClearPending(w))
  BY <1>4, BoundsAssumption DEF Row, ClearPending
<1>5. ASSUME Hand("rebuild", j, w)
      PROVE  LET v == [UpdateStage(w, "pending_review") EXCEPT !.escalated = TRUE]
             IN  StoreOk(j.rid, w, v) /\ Hand("evidence", j, v)
  BY <1>5 DEF Row, UpdateStage
<1>6. ASSUME Hand("removed", j, w)
      PROVE  LET v == UpdateStage(w, "removed_before_scan")
             IN  StoreOk(j.rid, w, v) /\ (crashes = 0 => Waiting(v))
  BY <1>6, BoundsAssumption DEF Row, UpdateStage
<1>7. ASSUME Hand("unwarn", j, w)
      PROVE  LET v == ClearUnscannedVerdict(w)
             IN  StoreOk(j.rid, w, v) /\ Hand("cleared", j, v)
  BY <1>7 DEF Row, ClearUnscannedVerdict
<1>8. ASSUME Hand("cleared", j, w)
      PROVE  LET v == [UpdateStage(w, "triaged") EXCEPT !.escalated = FALSE]
             IN  StoreOk(j.rid, w, v) /\ (crashes = 0 => Waiting(v))
  BY <1>8, BoundsAssumption DEF Row, UpdateStage
<1>9. ASSUME NEW n \in Nat, Hand("requeue", j, w)
      PROVE  LET v == ParkForReview(w, "in_review", n)
             IN  /\ StoreOk(j.rid, w, v)
                 /\ Hand("unscan", [j EXCEPT !.why = "in_review", !.text = n], v)
  BY <1>9 DEF Row, Job, ParkForReview
<1> HIDE DEF Hand, StoreOk, Waiting
<1> QED
  BY <1>1, <1>2, <1>3, <1>4, <1>5, <1>6, <1>7, <1>8, <1>9

-----------------------------------------------------------------------------
(* Step by step: the invariant, and the abstract life of the row.          *)

\* What every step knows of the release in hand.
LEMMA StepFacts ==
    ASSUME AloneInv, NEW p \in Drains, pc[p] \notin Free
    PROVE  /\ job[p] \in Job /\ job[p].rid \in Releases /\ Mine(p) \in Row
           /\ Hand(pc[p], job[p], Mine(p))
           /\ RowOk(Mine(p)) /\ Shown(job[p].rid, Mine(p))
           /\ StoreOk(job[p].rid, Mine(p), Mine(p))
           /\ row' = row => Write(p, Mine(p))
           /\ job' = job => Keep(p, job[p])
           /\ pc[p] \in Texted => job[p].text # NoInput
           /\ pc[p] \in Recording => job[p].outcome \in Outcomes
           /\ pc[p] = "alert" => job[p].outcome \in DOMAIN KeyOf
<1>1. /\ job[p] \in Job /\ job[p].rid \in Releases /\ Mine(p) \in Row
      /\ row' = row => Write(p, Mine(p))
      /\ job' = job => Keep(p, job[p])
      /\ pc[p] \in Texted => job[p].text # NoInput
  BY InHandFacts DEF AloneInv
<1>2. /\ Hand(pc[p], job[p], Mine(p))
      /\ RowOk(Mine(p)) /\ Shown(job[p].rid, Mine(p))
  BY HandFacts
<1>3. StoreOk(job[p].rid, Mine(p), Mine(p))
  BY <1>2 DEF StoreOk, Keeps, Lives
<1>4. /\ pc[p] \in Recording => job[p].outcome \in Outcomes
      /\ pc[p] = "alert" => job[p].outcome \in DOMAIN KeyOf
  BY DEF AloneInv, InputInv, TypeInv, LocalsKnown
<1> QED
  BY <1>1, <1>2, <1>3, <1>4

\* The release stays in hand, and its new locals keep what is left to do.
LEMMA HandGo ==
    ASSUME \A p, q \in Drains : p = q, AloneInv, InputInv',
           NEW p \in Drains, pc[p] \notin Free,
           NEW v \in Row, Write(p, v), StoreOk(job[p].rid, Mine(p), v),
           NEW place \in Places \ Free, Go(p, place), UNCHANGED job,
           Hand(place, job[p], v),
           UNCHANGED <<person, crashes>>
    PROVE  AloneInv' /\ Lived
<1>1. job[p] \in Job /\ Keep(p, job[p])
  BY StepFacts
<1> QED
  BY <1>1, HandStep

\* The release in hand is handed back with its new row.
LEMMA HandBack ==
    ASSUME \A p, q \in Drains : p = q, AloneInv, InputInv',
           NEW p \in Drains, pc[p] \notin Free,
           NEW v \in Row, Write(p, v), StoreOk(job[p].rid, Mine(p), v),
           NEW j \in Job, Done(p, j), j.todo = job[p].todo,
           crashes = 0 => Waiting(v),
           UNCHANGED <<person, crashes>>
    PROVE  AloneInv' /\ Lived
<1> DEFINE r == job[p].rid
<1>1. r \in Releases /\ Mine(p) = row[r] /\ row' = [row EXCEPT ![r] = v]
  BY StepFacts DEF Mine, Write
<1>2. \A s \in j.todo : s.rid # r
  BY TodoElsewhere
<1>3. StoreOk(r, row[r], v)
  BY <1>1
<1>4. job[p].rid \in {0, r} /\ j.todo \subseteq job[p].todo
  OBVIOUS
<1> HIDE DEF r
<1> QED
  BY <1>1, <1>2, <1>3, <1>4, HandDone

LEMMA RecordAlone ==
    ASSUME \A p, q \in Drains : p = q, AloneInv, InputInv',
           NEW p \in Drains, Record(p)
    PROVE  AloneInv' /\ Lived
<1>a. pc[p] \notin Free
  BY DEF Record, Unpark, StoreVerdict, DropEvidence, SetStage, Alert, Free
<1>b. /\ job[p] \in Job /\ Mine(p) \in Row
      /\ Hand(pc[p], job[p], Mine(p))
      /\ RowOk(Mine(p)) /\ Shown(job[p].rid, Mine(p))
      /\ pc[p] \in Recording => job[p].outcome \in Outcomes
      /\ pc[p] = "alert" => job[p].outcome \in DOMAIN KeyOf
  BY <1>a, StepFacts
<1>c. job[p].outcome \in Outcomes
  <2>1. pc[p] \in Recording
    BY DEF Record, Unpark, StoreVerdict, DropEvidence, SetStage, Alert, Recording
  <2> QED
    BY <1>b, <2>1
<1>d. {"verdict", "drop", "stage", "alert"} \subseteq Places \ Free
  BY DEF Places, Free
<1>1. CASE Unpark(p)
  <2>1. /\ StoreOk(job[p].rid, Mine(p), ClearPending(Mine(p)))
        /\ Hand("verdict", job[p], ClearPending(Mine(p)))
    BY <1>1, <1>b, <1>c, RecordRows DEF Unpark
  <2>2. ClearPending(Mine(p)) \in Row
    BY <1>b, StoreTypes
  <2> QED
    BY <1>1, <1>a, <1>d, <2>1, <2>2, HandGo DEF Unpark
<1>2. CASE StoreVerdict(p)
  <2> DEFINE v == RecordVerdict(Mine(p), Stored[job[p].outcome])
             place == CASE job[p].outcome = "benign"    -> "drop"
                        [] job[p].outcome = "malicious" -> "alert"
                        [] OTHER                        -> "stage"
  <2>1. StoreOk(job[p].rid, Mine(p), v) /\ Hand(place, job[p], v)
    BY <1>2, <1>b, <1>c, RecordRows DEF StoreVerdict
  <2>2. v \in Row
    <3>1. Stored[job[p].outcome] \in Verdicts
      BY <1>c DEF Stored, Outcomes, Verdicts, ModelClasses
    <3> QED
      BY <1>b, <3>1, StoreTypes
  <2>3. place \in Places \ Free
    BY <1>d
  <2>4. Write(p, v) /\ Go(p, place) /\ UNCHANGED <<job, person, crashes>>
    BY <1>2 DEF StoreVerdict
  <2> HIDE DEF v, place
  <2> QED
    BY <1>a, <2>1, <2>2, <2>3, <2>4, HandGo
<1>3. CASE DropEvidence(p)
  <2>1. /\ StoreOk(job[p].rid, Mine(p), ClearEvidence(Mine(p)))
        /\ Hand("stage", job[p], ClearEvidence(Mine(p)))
    BY <1>3, <1>b, <1>c, RecordRows DEF DropEvidence
  <2>2. ClearEvidence(Mine(p)) \in Row
    BY <1>b, StoreTypes
  <2> QED
    BY <1>3, <1>a, <1>d, <2>1, <2>2, HandGo DEF DropEvidence
<1>4. CASE SetStage(p)
  <2> DEFINE v == UpdateStage(Mine(p), StageOf[job[p].outcome])
  <2>1. /\ StoreOk(job[p].rid, Mine(p), v)
        /\ IF job[p].outcome \in {"no_content", "downgraded"}
           THEN Hand("alert", job[p], v)
           ELSE crashes = 0 => Waiting(v)
    BY <1>4, <1>b, <1>c, RecordRows DEF SetStage
  <2>2. v \in Row
    <3>1. StageOf[job[p].outcome] \in Stages
      BY <1>c DEF StageOf, Outcomes, Stages
    <3> QED
      BY <1>b, <3>1, StoreTypes
  <2>3. /\ Write(p, v) /\ UNCHANGED <<person, crashes>>
        /\ \/ /\ job[p].outcome \in {"no_content", "downgraded"}
              /\ Go(p, "alert") /\ UNCHANGED job
           \/ /\ job[p].outcome \notin {"no_content", "downgraded"}
              /\ Done(p, job[p])
    BY <1>4 DEF SetStage
  <2> HIDE DEF v
  <2>4. CASE /\ job[p].outcome \in {"no_content", "downgraded"}
             /\ Go(p, "alert") /\ UNCHANGED job
    BY <1>a, <1>d, <2>1, <2>2, <2>3, <2>4, HandGo
  <2>5. CASE /\ job[p].outcome \notin {"no_content", "downgraded"}
             /\ Done(p, job[p])
    BY <1>a, <1>b, <2>1, <2>2, <2>3, <2>5, HandBack
  <2> QED
    BY <2>3, <2>4, <2>5
<1>5. CASE Alert(p)
  <2> DEFINE v == Emit(Mine(p), KeyOf[job[p].outcome])
  <2>1. /\ StoreOk(job[p].rid, Mine(p), v)
        /\ IF job[p].outcome = "malicious"
           THEN Hand("stage", job[p], v)
           ELSE crashes = 0 => Waiting(v)
    BY <1>5, <1>b, <1>c, RecordRows DEF Alert
  <2>2. v \in Row
    <3>1. KeyOf[job[p].outcome] \in Alerts
      BY <1>5, <1>b DEF Alert, KeyOf, Alerts
    <3> QED
      BY <1>b, <3>1, StoreTypes
  <2>3. /\ Write(p, v) /\ UNCHANGED <<person, crashes>>
        /\ \/ job[p].outcome = "malicious" /\ Go(p, "stage") /\ UNCHANGED job
           \/ job[p].outcome # "malicious" /\ Done(p, job[p])
    BY <1>5 DEF Alert
  <2> HIDE DEF v
  <2>4. CASE job[p].outcome = "malicious" /\ Go(p, "stage") /\ UNCHANGED job
    BY <1>a, <1>d, <2>1, <2>2, <2>3, <2>4, HandGo
  <2>5. CASE job[p].outcome # "malicious" /\ Done(p, job[p])
    BY <1>a, <1>b, <2>1, <2>2, <2>3, <2>5, HandBack
  <2> QED
    BY <2>3, <2>4, <2>5
<1> QED
  BY <1>1, <1>2, <1>3, <1>4, <1>5 DEF Record

LEMMA AttemptAlone ==
    ASSUME \A p, q \in Drains : p = q, AloneInv, InputInv',
           NEW p \in Drains, AttemptReview(p)
    PROVE  AloneInv' /\ Lived
<1>a. pc[p] \notin Free
  BY DEF AttemptReview, Admitted, Refused, EnterSlot, Answer, EndpointDown,
         ReviewFails, CountAttempt, ParkAgain, DropUnreviewed, WarnVerdict,
         Warn, Free
<1>b. /\ job[p] \in Job /\ Mine(p) \in Row
      /\ Hand(pc[p], job[p], Mine(p))
      /\ RowOk(Mine(p)) /\ Shown(job[p].rid, Mine(p))
      /\ StoreOk(job[p].rid, Mine(p), Mine(p))
      /\ row' = row => Write(p, Mine(p))
      /\ pc[p] \in Texted => job[p].text # NoInput
  BY <1>a, StepFacts
<1>c. {"admit", "slot", "model", "bump", "park", "unscan", "warnverdict",
       "warn", "clear"} \subseteq Places \ Free
  BY DEF Places, Free
<1>1. CASE Admitted(p) \/ EnterSlot(p)
  <2> DEFINE place == IF pc[p] = "admit" THEN "slot" ELSE "model"
  <2>1. /\ pc[p] \in {"admit", "slot"} /\ Go(p, place)
        /\ UNCHANGED <<row, job, person, crashes>>
    BY <1>1 DEF Admitted, EnterSlot
  <2>2. Hand(place, job[p], Mine(p))
    BY <1>b, <2>1, AttemptRows
  <2>3. place \in Places \ Free
    BY <1>c
  <2> HIDE DEF place
  <2> QED
    BY <1>a, <1>b, <2>1, <2>2, <2>3, HandGo
<1>2. CASE Refused(p) \/ EndpointDown(p)
  <2>1. PICK why \in {"model_busy", "endpoint_unreachable"} :
           Keep(p, [job[p] EXCEPT !.why = why, !.goOn = FALSE])
    BY <1>2 DEF Refused, EndpointDown
  <2> DEFINE k == [job[p] EXCEPT !.why = why, !.goOn = FALSE]
  <2>2. k \in Job /\ k.todo = job[p].todo /\ k.rid = job[p].rid
    <3>1. why \in Reasons
      BY DEF Reasons, AutoReasons
    <3> QED
      BY <1>b, <3>1 DEF Job
  <2>3. /\ pc[p] \in {"admit", "model"}
        /\ Go(p, "park") /\ UNCHANGED <<row, person, crashes>>
    BY <1>2 DEF Refused, EndpointDown
  <2>4. Hand("park", k, Mine(p))
    BY <1>b, <2>3, AttemptRows
  <2>5. Keep(p, k)
    BY <2>1
  <2> HIDE DEF k
  <2> QED
    BY <1>a, <1>b, <1>c, <2>2, <2>3, <2>4, <2>5, HandStep
<1>3. ASSUME NEW outcome \in Outcomes, Answer(p, outcome)
      PROVE  AloneInv' /\ Lived
  <2> DEFINE k == [job[p] EXCEPT !.outcome = outcome]
  <2>1. k \in Job /\ k.todo = job[p].todo /\ k.rid = job[p].rid
    BY <1>b DEF Job
  <2>2. /\ pc[p] = "model" /\ Keep(p, k)
        /\ Go(p, "clear") /\ UNCHANGED <<row, person, crashes>>
    BY <1>3 DEF Answer
  <2>3. Hand("clear", k, Mine(p))
    BY <1>b, <2>2, AttemptRows
  <2> HIDE DEF k
  <2> QED
    BY <1>a, <1>b, <1>c, <2>1, <2>2, <2>3, HandStep
<1>4. ASSUME NEW timeout \in BOOLEAN, ReviewFails(p, timeout)
      PROVE  AloneInv' /\ Lived
  <2> DEFINE goOn == ~timeout
             k == [job[p] EXCEPT !.goOn = goOn]
  <2>1. /\ pc[p] = "model" /\ Keep(p, k)
        /\ Go(p, "bump") /\ UNCHANGED <<row, person, crashes>>
    BY <1>4 DEF ReviewFails
  <2>2. goOn \in BOOLEAN
    OBVIOUS
  <2> HIDE DEF goOn
  <2>3. k \in Job /\ k.todo = job[p].todo /\ k.rid = job[p].rid
    BY <1>b, <2>2 DEF Job
  <2>4. Hand("bump", k, Mine(p))
    BY <1>b, <2>1, <2>2, AttemptRows
  <2> HIDE DEF k
  <2> QED
    BY <1>a, <1>b, <1>c, <2>1, <2>3, <2>4, HandStep
<1>5. CASE CountAttempt(p)
  <2> DEFINE v == BumpReviewAttempts(Mine(p))
             spent == row'[job[p].rid].attempts >= MaxAttempts
             k == [job[p] EXCEPT !.why = "review_failed", !.spent = spent]
  <2>1. /\ pc[p] = "bump" /\ Write(p, v) /\ Keep(p, k)
        /\ Go(p, "park") /\ UNCHANGED <<person, crashes>>
    BY <1>5 DEF CountAttempt
  <2>2. spent <=> v.attempts >= MaxAttempts
    <3>1. row'[job[p].rid] = v
      BY <1>a, <2>1, StepFacts DEF Write, AloneInv, InputInv, TypeInv, TypeOK
    <3> QED
      BY <3>1
  <2>3. spent \in BOOLEAN
    OBVIOUS
  <2>4. v \in Row
    BY <1>b, StoreTypes
  <2> HIDE DEF spent
  <2>5. k \in Job /\ k.todo = job[p].todo /\ k.rid = job[p].rid
    <3>1. "review_failed" \in Reasons
      BY DEF Reasons, AutoReasons
    <3> QED
      BY <1>b, <2>3, <3>1 DEF Job
  <2>6. StoreOk(job[p].rid, Mine(p), v) /\ Hand("park", k, v)
    BY <1>b, <2>1, <2>2, <2>3, AttemptRows
  <2> HIDE DEF v, k
  <2> QED
    BY <1>a, <1>c, <2>1, <2>4, <2>5, <2>6, HandStep
<1>6. CASE ParkAgain(p)
  <2> DEFINE v == ParkForReview(Mine(p), job[p].why, job[p].text)
             place == IF job[p].spent THEN "warnverdict" ELSE "unscan"
  <2>1. job[p].text # NoInput /\ pc[p] = "park"
    BY <1>6, <1>b DEF ParkAgain, Texted
  <2>2. Write(p, v) /\ Go(p, place) /\ UNCHANGED <<job, person, crashes>>
    BY <1>6, <2>1 DEF ParkAgain, Park
  <2>3. StoreOk(job[p].rid, Mine(p), v) /\ Hand(place, job[p], v)
    BY <1>b, <2>1, AttemptRows
  <2>4. v \in Row
    <3>1. job[p].why \in Reasons \cup {NoReason} /\ job[p].text \in Nat \cup {NoInput}
      BY <1>b DEF Job
    <3> QED
      BY <1>b, <3>1, StoreTypes
  <2>5. place \in Places \ Free
    BY <1>c
  <2> HIDE DEF v, place
  <2> QED
    BY <1>a, <2>2, <2>3, <2>4, <2>5, HandGo
<1>7. CASE DropUnreviewed(p)
  <2> DEFINE v == ClearUnscannedVerdict(Mine(p))
  <2>1. /\ StoreOk(job[p].rid, Mine(p), v)
        /\ job[p].why = "in_review" => Hand("admit", job[p], v)
        /\ job[p].why # "in_review" /\ crashes = 0 => Waiting(v)
    BY <1>7, <1>b, AttemptRows DEF DropUnreviewed
  <2>2. v \in Row
    BY <1>b, StoreTypes
  <2>3. Write(p, v) /\ UNCHANGED <<person, crashes>>
    BY <1>7 DEF DropUnreviewed
  <2> HIDE DEF v
  <2>4. CASE job[p].why = "in_review" /\ Go(p, "admit") /\ UNCHANGED job
    BY <1>a, <1>c, <2>1, <2>2, <2>3, <2>4, HandGo
  <2>5. CASE job[p].why # "in_review" /\ Done(p, job[p])
    BY <1>a, <1>b, <2>1, <2>2, <2>3, <2>5, HandBack
  <2> QED
    BY <1>7, <2>4, <2>5 DEF DropUnreviewed
<1>8. CASE WarnVerdict(p)
  <2> DEFINE v == RecordVerdict(Mine(p), "unreviewed")
  <2>1. StoreOk(job[p].rid, Mine(p), v) /\ Hand("warn", job[p], v)
    BY <1>8, <1>b, AttemptRows DEF WarnVerdict
  <2>2. v \in Row
    BY <1>b, StoreTypes DEF Verdicts
  <2>3. Write(p, v) /\ Go(p, "warn") /\ UNCHANGED <<job, person, crashes>>
    BY <1>8 DEF WarnVerdict
  <2> HIDE DEF v
  <2> QED
    BY <1>a, <1>c, <2>1, <2>2, <2>3, HandGo
<1>9. CASE Warn(p)
  <2> DEFINE v == Emit(Mine(p), "unscanned:review_failed")
  <2>1. StoreOk(job[p].rid, Mine(p), v) /\ (crashes = 0 => Waiting(v))
    BY <1>9, <1>b, AttemptRows DEF Warn
  <2>2. v \in Row
    BY <1>b, StoreTypes DEF Alerts
  <2>3. Write(p, v) /\ Done(p, job[p]) /\ UNCHANGED <<person, crashes>>
    BY <1>9 DEF Warn
  <2> HIDE DEF v
  <2> QED
    BY <1>a, <1>b, <2>1, <2>2, <2>3, HandBack
<1> QED
  BY <1>1, <1>2, <1>3, <1>4, <1>5, <1>6, <1>7, <1>8, <1>9 DEF AttemptReview

LEMMA RebuildAlone ==
    ASSUME \A p, q \in Drains : p = q, AloneInv, InputInv',
           NEW p \in Drains, Rebuild(p)
    PROVE  AloneInv' /\ Lived
<1>a. pc[p] \notin Free
  BY DEF Rebuild, RebuildUnreachable, RebuildFails, RebuildMissing,
         RecordRemoved, RebuildClears, ClearedVerdict, ClearedStage,
         RebuildEscalates, Requeue, Free
<1>b. /\ job[p] \in Job /\ Mine(p) \in Row
      /\ Hand(pc[p], job[p], Mine(p))
      /\ RowOk(Mine(p)) /\ Shown(job[p].rid, Mine(p))
      /\ row' = row => Write(p, Mine(p))
      /\ job[p].rid \in Releases
  BY <1>a, StepFacts
<1>c. {"bump", "removed", "unwarn", "cleared", "evidence", "unscan"}
         \subseteq Places \ Free
  BY DEF Places, Free
<1>d. /\ Need[job[p].rid] \in Nat
      /\ {"in_review", "too_large"} \subseteq Reasons
      /\ job[p].was \in Reasons \cup {NoReason}
  BY <1>b, NeedAssumption DEF Reasons, AutoReasons, Job
\* The release goes back to the queue under the reason it was taken with.
<1>e. ASSUME NEW gone \in BOOLEAN, pc[p] = "rebuild",
             Write(p, SetPendingReason(Mine(p), job[p].was, gone)),
             NEW j \in Job, Done(p, j), j.todo = job[p].todo,
             UNCHANGED <<person, crashes>>
      PROVE  AloneInv' /\ Lived
  <2> DEFINE v == SetPendingReason(Mine(p), job[p].was, gone)
  <2>1. StoreOk(job[p].rid, Mine(p), v) /\ (crashes = 0 => Waiting(v))
    BY <1>b, <1>e, RebuildRows
  <2>2. v \in Row
    BY <1>b, <1>d, StoreTypes
  <2> HIDE DEF v
  <2>3. Write(p, v)
    BY <1>e DEF v
  <2> QED
    BY <1>a, <1>e, <2>1, <2>2, <2>3, HandBack
<1>1. CASE RebuildUnreachable(p)
  <2> DEFINE k == [job[p] EXCEPT !.down = TRUE]
  <2>1. k \in Job /\ k.todo = job[p].todo
    BY <1>b DEF Job
  <2>2. /\ pc[p] = "rebuild" /\ Done(p, k) /\ UNCHANGED <<person, crashes>>
        /\ Write(p, SetPendingReason(Mine(p), job[p].was, FALSE))
    BY <1>1 DEF RebuildUnreachable
  <2> HIDE DEF k
  <2> QED
    BY <1>e, <2>1, <2>2
<1>2. ASSUME NEW timeout \in BOOLEAN, RebuildFails(p, timeout)
      PROVE  AloneInv' /\ Lived
  <2> DEFINE down == job[p].down \/ timeout
             k == [job[p] EXCEPT !.text = 0, !.down = down]
  <2>1. /\ pc[p] = "rebuild" /\ Keep(p, k) /\ Go(p, "bump")
        /\ UNCHANGED <<row, person, crashes>>
    BY <1>2 DEF RebuildFails
  <2>2. down \in BOOLEAN
    OBVIOUS
  <2> HIDE DEF down
  <2>3. k \in Job /\ k.todo = job[p].todo /\ k.rid = job[p].rid
    BY <1>b, <2>2 DEF Job
  <2>4. Hand("bump", k, Mine(p))
    BY <1>b, <2>1, <2>2, RebuildRows
  <2>5. StoreOk(job[p].rid, Mine(p), Mine(p))
    BY <1>a, StepFacts
  <2> HIDE DEF k
  <2> QED
    BY <1>a, <1>b, <1>c, <2>1, <2>3, <2>4, <2>5, HandStep
<1>3. CASE RebuildMissing(p)
  <2>a. pc[p] = "rebuild" /\ UNCHANGED <<person, crashes>>
    BY <1>3 DEF RebuildMissing
  <2>1. CASE /\ Write(p, SetPendingReason(Mine(p), job[p].was, TRUE))
             /\ Done(p, job[p])
    BY <1>b, <1>e, <2>a, <2>1
  <2>2. CASE Done(p, job[p]) /\ UNCHANGED row
    <3>1. StoreOk(job[p].rid, Mine(p), Mine(p)) /\ (crashes = 0 => Waiting(Mine(p)))
      BY <1>b, <2>a, RebuildRows
    <3> QED
      BY <1>a, <1>b, <2>a, <2>2, <3>1, HandBack
  <2>3. CASE /\ Write(p, ClearPending(Mine(p)))
             /\ Go(p, "removed") /\ UNCHANGED job
    <3>1. /\ StoreOk(job[p].rid, Mine(p), ClearPending(Mine(p)))
          /\ Hand("removed", job[p], ClearPending(Mine(p)))
      BY <1>b, <2>a, RebuildRows
    <3>2. ClearPending(Mine(p)) \in Row
      BY <1>b, StoreTypes
    <3> QED
      BY <1>a, <1>c, <2>a, <2>3, <3>1, <3>2, HandGo
  <2> QED
    BY <1>3, <2>1, <2>2, <2>3 DEF RebuildMissing
<1>4. CASE RecordRemoved(p)
  <2> DEFINE v == UpdateStage(Mine(p), "removed_before_scan")
  <2>1. StoreOk(job[p].rid, Mine(p), v) /\ (crashes = 0 => Waiting(v))
    BY <1>4, <1>b, RebuildRows DEF RecordRemoved
  <2>2. v \in Row
    BY <1>b, StoreTypes DEF Stages
  <2>3. Write(p, v) /\ Done(p, job[p]) /\ UNCHANGED <<person, crashes>>
    BY <1>4 DEF RecordRemoved
  <2> HIDE DEF v
  <2> QED
    BY <1>a, <1>b, <2>1, <2>2, <2>3, HandBack
<1>5. CASE RebuildClears(p)
  <2>1. /\ StoreOk(job[p].rid, Mine(p), ClearPending(Mine(p)))
        /\ Hand("unwarn", job[p], ClearPending(Mine(p)))
    BY <1>5, <1>b, RebuildRows DEF RebuildClears
  <2>2. ClearPending(Mine(p)) \in Row
    BY <1>b, StoreTypes
  <2> QED
    BY <1>5, <1>a, <1>c, <2>1, <2>2, HandGo DEF RebuildClears
<1>6. CASE ClearedVerdict(p)
  <2>1. /\ StoreOk(job[p].rid, Mine(p), ClearUnscannedVerdict(Mine(p)))
        /\ Hand("cleared", job[p], ClearUnscannedVerdict(Mine(p)))
    BY <1>6, <1>b, RebuildRows DEF ClearedVerdict
  <2>2. ClearUnscannedVerdict(Mine(p)) \in Row
    BY <1>b, StoreTypes
  <2> QED
    BY <1>6, <1>a, <1>c, <2>1, <2>2, HandGo DEF ClearedVerdict
<1>7. CASE ClearedStage(p)
  <2> DEFINE v == [UpdateStage(Mine(p), "triaged") EXCEPT !.escalated = FALSE]
  <2>1. StoreOk(job[p].rid, Mine(p), v) /\ (crashes = 0 => Waiting(v))
    BY <1>7, <1>b, RebuildRows DEF ClearedStage
  <2>2. v \in Row
    BY <1>b DEF UpdateStage, Row, Stages
  <2>3. Write(p, v) /\ Done(p, job[p]) /\ UNCHANGED <<person, crashes>>
    BY <1>7 DEF ClearedStage
  <2> HIDE DEF v
  <2> QED
    BY <1>a, <1>b, <2>1, <2>2, <2>3, HandBack
<1>8. CASE RebuildEscalates(p)
  <2> DEFINE v == [UpdateStage(Mine(p), "pending_review") EXCEPT !.escalated = TRUE]
  <2>1. StoreOk(job[p].rid, Mine(p), v) /\ Hand("evidence", job[p], v)
    BY <1>8, <1>b, RebuildRows DEF RebuildEscalates
  <2>2. v \in Row
    BY <1>b DEF UpdateStage, Row, Stages
  <2>3. Write(p, v) /\ Go(p, "evidence") /\ UNCHANGED <<job, person, crashes>>
    BY <1>8 DEF RebuildEscalates
  <2> HIDE DEF v
  <2> QED
    BY <1>a, <1>c, <2>1, <2>2, <2>3, HandGo
<1>9. CASE Requeue(p)
  <2> DEFINE n == Need[job[p].rid]
             large == ParkForReview(Mine(p), "too_large", n)
             v == ParkForReview(Mine(p), "in_review", n)
             k == [job[p] EXCEPT !.why = "in_review", !.text = n]
  <2>a. pc[p] = "requeue" /\ UNCHANGED <<person, crashes>>
    BY <1>9 DEF Requeue
  <2>b. n \in Nat
    BY <1>d
  <2>1. large \in Row /\ v \in Row
    BY <1>b, <1>d, StoreTypes
  <2>2. k \in Job /\ k.todo = job[p].todo /\ k.rid = job[p].rid
    BY <1>b, <1>d DEF Job
  <2>3. \/ Write(p, large) /\ Done(p, job[p])
        \/ Write(p, v) /\ Keep(p, k) /\ Go(p, "unscan")
    BY <1>9 DEF Requeue
  <2> HIDE DEF n
  <2>4. StoreOk(job[p].rid, Mine(p), large) /\ (crashes = 0 => Waiting(large))
    BY <1>b, <2>a, <2>b, ScanRows
  <2>5. StoreOk(job[p].rid, Mine(p), v) /\ Hand("unscan", k, v)
    BY <1>b, <2>a, <2>b, RebuildRows
  <2> HIDE DEF large, v, k
  <2>6. CASE Write(p, large) /\ Done(p, job[p])
    BY <1>a, <1>b, <2>a, <2>1, <2>4, <2>6, HandBack
  <2>7. CASE Write(p, v) /\ Keep(p, k) /\ Go(p, "unscan")
    BY <1>a, <1>c, <2>a, <2>1, <2>2, <2>5, <2>7, HandStep
  <2> QED
    BY <2>3, <2>6, <2>7
<1> QED
  BY <1>1, <1>2, <1>3, <1>4, <1>5, <1>6, <1>7, <1>8, <1>9 DEF Rebuild

LEMMA ScanAlone ==
    ASSUME \A p, q \in Drains : p = q, AloneInv, InputInv',
           NEW p \in Drains, Scan(p)
    PROVE  AloneInv' /\ Lived
<1>b. pc[p] \notin Free =>
         /\ job[p] \in Job /\ Mine(p) \in Row
         /\ Hand(pc[p], job[p], Mine(p))
         /\ RowOk(Mine(p)) /\ Shown(job[p].rid, Mine(p))
         /\ StoreOk(job[p].rid, Mine(p), Mine(p))
         /\ row' = row => Write(p, Mine(p))
         /\ job[p].rid \in Releases
  BY StepFacts
<1>c. /\ {"queue", "evidence", "requeue", "unscan", "bump"} \subseteq Places \ Free
      /\ "scan" \in Free /\ "idle" \in Free
  BY DEF Places, Free
<1>d. /\ \A r \in Releases : Need[r] \in Nat
      /\ {"in_review", "endpoint_unreachable", "too_large", "reviewer_disabled"}
            \subseteq Reasons
  BY NeedAssumption DEF Reasons, AutoReasons
<1>e. /\ row \in [Releases -> Row] /\ pc \in [Drains -> Places]
      /\ job \in [Drains -> Job]
  BY DEF AloneInv, InputInv, TypeInv, TypeOK
<1>1. ASSUME NEW r \in Releases, Triage(p, r)
      PROVE  AloneInv' /\ Lived
  <2> DEFINE k == [job[p] EXCEPT !.rid = r, !.fresh = TRUE]
             v == [UpdateStage(row[r], "triaged") EXCEPT !.escalated = TRUE]
             place == IF job[p].mode = "off" THEN "queue" ELSE "evidence"
  <2>1. /\ pc[p] = "scan" /\ row[r].stage = "new"
        /\ row' = [row EXCEPT ![r] = v] /\ Keep(p, k) /\ Go(p, place)
        /\ UNCHANGED <<person, crashes>>
    BY <1>1 DEF Triage
  <2>2. job[p].rid = 0 /\ ~job[p].spent /\ job[p].todo = {}
    BY <1>c, <2>1 DEF AloneInv, HandOk, InputInv, Carried
  <2>3. /\ k \in Job /\ k.rid = r /\ k.todo = {} /\ ~k.spent
        /\ k.mode = job[p].mode
    <3>1. k \in Job /\ k.rid = r
      BY <1>e, JobUpdates
    <3>2. k.todo = {} /\ k.mode = job[p].mode
      BY <1>e, <2>2 DEF Job
    <3>3. k.spent = job[p].spent
      BY <1>e DEF Job
    <3> QED
      BY <2>2, <3>1, <3>2, <3>3
  <2>4. v \in Row
    BY <1>e DEF UpdateStage, Row, Stages
  <2>5. RowOk(row[r]) /\ Shown(k.rid, row[r]) /\ row[r] \in Row
    BY <1>e, <2>3 DEF AloneInv
  <2> HIDE DEF k
  <2>6. /\ StoreOk(k.rid, row[r], v)
        /\ Hand(IF k.mode = "off" THEN "queue" ELSE "evidence", k, v)
    BY <2>1, <2>2, <2>3, <2>5, ScanRows
  <2>7. /\ place \in Places \ Free /\ StoreOk(r, row[r], v) /\ Hand(place, k, v)
    BY <1>c, <2>3, <2>6
  <2>8. job[p].rid \in {0, r} /\ k.todo \subseteq job[p].todo /\ \A s \in k.todo : s.rid # r
    BY <2>2, <2>3
  <2> HIDE DEF v, place
  <2> QED
    BY <2>1, <2>3, <2>4, <2>7, <2>8, TakeStep
<1>2. CASE StoreEvidence(p)
  <2> DEFINE v == IF job[p].rid \in Coded THEN UpdateEvidence(Mine(p)) ELSE Mine(p)
             place == IF job[p].fresh THEN "queue" ELSE "requeue"
  <2>a. pc[p] = "evidence" /\ pc[p] \notin Free
    BY <1>2, <1>c DEF StoreEvidence
  <2>1. StoreOk(job[p].rid, Mine(p), v) /\ Hand("queue", job[p], v) /\ Hand("requeue", job[p], v)
    BY <1>b, <2>a, ScanRows
  <2>2. v \in Row
    BY <1>b, <2>a, StoreTypes
  <2>3. Write(p, v) /\ Go(p, place) /\ UNCHANGED <<job, person, crashes>>
    BY <1>2 DEF StoreEvidence
  <2>4. place \in Places \ Free /\ Hand(place, job[p], v)
    BY <1>c, <2>1
  <2> HIDE DEF v, place
  <2> QED
    BY <2>a, <2>1, <2>2, <2>3, <2>4, HandGo
<1>3. CASE QueueDisabled(p)
  <2> DEFINE v == ParkForReview(Mine(p), "reviewer_disabled", 0)
  <2>a. pc[p] = "queue" /\ pc[p] \notin Free
    BY <1>3, <1>c DEF QueueDisabled
  <2>1. StoreOk(job[p].rid, Mine(p), v) /\ (crashes = 0 => Waiting(v))
    BY <1>b, <2>a, ScanRows
  <2>2. v \in Row
    BY <1>b, <1>d, <2>a, StoreTypes
  <2>3. Write(p, v) /\ Done(p, job[p]) /\ UNCHANGED <<person, crashes>>
    BY <1>3 DEF QueueDisabled
  <2> HIDE DEF v
  <2> QED
    BY <1>b, <2>a, <2>1, <2>2, <2>3, HandBack
<1>4. CASE QueueFitting(p)
  <2> DEFINE n == Need[job[p].rid]
             why == IF job[p].mode = "online" THEN "in_review"
                    ELSE "endpoint_unreachable"
             v == ParkForReview(Mine(p), why, n)
             k == [job[p] EXCEPT !.why = why, !.text = n]
  <2>a. pc[p] = "queue" /\ pc[p] \notin Free /\ job[p].mode # "off"
    BY <1>4, <1>c DEF QueueFitting
  <2>b. n \in Nat /\ why \in {"in_review", "endpoint_unreachable"}
    BY <1>b, <1>d, <2>a
  <2>1. /\ Write(p, v) /\ Keep(p, k) /\ Go(p, "unscan")
        /\ UNCHANGED <<person, crashes>>
    BY <1>4 DEF QueueFitting
  <2> HIDE DEF n, why
  <2>2. StoreOk(job[p].rid, Mine(p), v) /\ Hand("unscan", k, v)
    BY <1>b, <2>a, <2>b, ScanRows
  <2>3. v \in Row
    BY <1>b, <1>d, <2>a, <2>b, StoreTypes
  <2>4. k \in Job /\ k.todo = job[p].todo /\ k.rid = job[p].rid
    BY <1>b, <1>d, <2>a, <2>b DEF Job
  <2> HIDE DEF v, k
  <2> QED
    BY <1>c, <2>a, <2>1, <2>2, <2>3, <2>4, HandStep
<1>5. CASE QueueTooLarge(p)
  <2> DEFINE n == Need[job[p].rid]
             v == ParkForReview(Mine(p), "too_large", n)
  <2>a. pc[p] = "queue" /\ pc[p] \notin Free /\ job[p].mode # "off"
    BY <1>5, <1>c DEF QueueTooLarge
  <2>b. n \in Nat
    BY <1>b, <1>d, <2>a
  <2>1. Write(p, v) /\ Done(p, job[p]) /\ UNCHANGED <<person, crashes>>
    BY <1>5 DEF QueueTooLarge
  <2> HIDE DEF n
  <2>2. StoreOk(job[p].rid, Mine(p), v) /\ (crashes = 0 => Waiting(v))
    BY <1>b, <2>a, <2>b, ScanRows
  <2>3. v \in Row
    BY <1>b, <1>d, <2>a, <2>b, StoreTypes
  <2> HIDE DEF v
  <2> QED
    BY <1>b, <2>a, <2>1, <2>2, <2>3, HandBack
<1>6. CASE QueueRaises(p)
  <2> DEFINE n == Need[job[p].rid]
             k == [job[p] EXCEPT !.text = n]
  <2>a. pc[p] = "queue" /\ pc[p] \notin Free /\ job[p].mode # "off"
    BY <1>6, <1>c DEF QueueRaises
  <2>b. n \in Nat
    BY <1>b, <1>d, <2>a
  <2>1. /\ Keep(p, k) /\ Go(p, "bump") /\ UNCHANGED <<row, person, crashes>>
    BY <1>6 DEF QueueRaises
  <2> HIDE DEF n
  <2>2. Hand("bump", k, Mine(p))
    BY <1>b, <2>a, <2>b, ScanRows
  <2>3. k \in Job /\ k.todo = job[p].todo /\ k.rid = job[p].rid
    BY <1>b, <2>a, <2>b DEF Job
  <2> HIDE DEF k
  <2> QED
    BY <1>b, <1>c, <2>a, <2>1, <2>2, <2>3, HandStep
<1>7. CASE EndTick(p)
  <2>1. /\ pc[p] = "scan" /\ row' \in {row, Pruned}
        /\ pc'[p] = "idle" /\ job'[p] = Rest /\ UNCHANGED <<person, crashes>>
    BY <1>7, <1>e DEF EndTick, Go, Keep
  <2>2. job'[p].rid = 0 /\ ~job'[p].spent /\ job'[p].todo = {}
    BY <2>1 DEF Rest
  <2>3. crashes = 0 => \A q \in Releases : Waiting(row[q])
    BY <1>c, <2>1, AllWait
  <2>4. ASSUME NEW q \in Releases
        PROVE  /\ RowOk(row'[q]) /\ Shown(q, row'[q])
               /\ row[q].label # "none" => row'[q].label # "none"
               /\ crashes' = 0 => Waiting(row'[q])
               /\ Life(row'[q]) = Life(row[q])
               /\ Keeps(row[q], row'[q])
    <3>1. CASE row' = row
      BY <2>1, <2>3, <3>1 DEF AloneInv, Keeps
    <3>2. CASE row' = Pruned
      BY <2>1, <2>3, <3>2, PrunedOk
    <3> QED
      BY <2>1, <3>1, <3>2
  <2>5. TodoOk(p)'
    BY <2>2 DEF TodoOk
  <2>6. AloneInv'
    BY <1>c, <2>1, <2>2, <2>4, <2>5, FreeStep
  <2> QED
    BY <2>4, <2>6 DEF Lived
<1> QED
  BY <1>1, <1>2, <1>3, <1>4, <1>5, <1>6, <1>7 DEF Scan

\* What a drain reads is so, and the tick reads nothing it has given up on.
LEMMA ReadsTold ==
    ASSUME AloneInv, crashes = 0 => \A q \in Releases : Waiting(row[q])
    PROVE  /\ \A cap : \A s \in AutoRows(cap) :
                 /\ row[s.rid].reason # NoReason /\ row[s.rid].attempts = s.attempts
                 /\ crashes = 0 => /\ Waiting(row[s.rid])
                                   /\ TickOnly => s.attempts < MaxAttempts
           /\ \A last : \A s \in ManualPage(last) :
                 /\ row[s.rid].reason # NoReason /\ row[s.rid].attempts = s.attempts
                 /\ crashes = 0 => Waiting(row[s.rid])
<1>0. /\ NoReason \notin Reasons /\ "too_large" # NoReason
      /\ row \in [Releases -> Row]
  BY DEF Reasons, AutoReasons, NoReason, AloneInv, InputInv, TypeInv, TypeOK
<1>1. \A r \in Releases : /\ SnapshotOf(r).rid = r
                          /\ SnapshotOf(r).attempts = row[r].attempts
  BY DEF SnapshotOf
<1>2. ASSUME NEW cap, NEW s \in AutoRows(cap)
      PROVE  /\ row[s.rid].reason # NoReason /\ row[s.rid].attempts = s.attempts
             /\ crashes = 0 => /\ Waiting(row[s.rid])
                               /\ TickOnly => s.attempts < MaxAttempts
  <2>1. PICK r \in Releases :
           /\ s = SnapshotOf(r)
           /\ \/ row[r].reason \in AutoReasons /\ ~Warned(r)
              \/ row[r].reason = "too_large"
    <3>1. \/ \E r \in {q \in Parked(AutoReasons) : ~Warned(q)} : s = SnapshotOf(r)
          \/ \E r \in Parked({"too_large"}) : s = SnapshotOf(r)
      BY Zenon DEF AutoRows, FirstRows
    <3> QED
      BY <3>1 DEF Parked
  <2>2. row[r].reason # NoReason
    BY <1>0, <2>1 DEF Reasons
  <2>3. row[r].attempts \in Nat
    BY <1>0, BoundsAssumption DEF Row
  <2>4. crashes = 0 /\ TickOnly => row[r].attempts < MaxAttempts
    BY <2>1, <2>2, <2>3, BoundsAssumption DEF Waiting, Warned
  <2> QED
    BY <1>1, <2>1, <2>2, <2>4
<1>3. ASSUME NEW last, NEW s \in ManualPage(last)
      PROVE  /\ row[s.rid].reason # NoReason /\ row[s.rid].attempts = s.attempts
             /\ crashes = 0 => Waiting(row[s.rid])
  <2>1. PICK r \in Parked(ManualReasons) : s = SnapshotOf(r)
    BY Zenon DEF ManualPage
  <2>2. r \in Releases /\ row[r].reason # NoReason
    BY <1>0, <2>1, ReasonsAssumption DEF Parked
  <2> QED
    BY <1>1, <2>1, <2>2
<1> QED
  BY <1>2, <1>3

\* A row that was read is taken up.
LEMMA WalkRowsFit ==
    ASSUME NEW j \in Job, NEW w \in Row, RowOk(w), Shown(j.rid, w),
           w.reason # NoReason, ~j.spent, NEW attempts, w.attempts = attempts,
           crashes = 0 => Waiting(w) /\ (TickOnly => attempts < MaxAttempts)
    PROVE  /\ attempts >= MaxAttempts => Hand("warnverdict", j, w)
           /\ Hand("rebuild", j, w)
           /\ w.chars > 0 => Hand("admit", j, w)
           /\ \A why \in Reasons :
                 LET v == SetPendingReason(w, why, FALSE)
                 IN  /\ StoreOk(j.rid, w, v)
                     /\ crashes = 0 => Waiting(v)
<1> USE DEF Hand, HandRow, HandShown, HandTold, Early, Answered, Unqueued, Told,
            TickOnly, Waiting, StoreOk, RowOk, Shown, Keeps, Lives, OpenIn,
            PlaceIn, AnswerIn, ModelClasses, NoReason
<1>1. ASSUME attempts >= MaxAttempts  PROVE Hand("warnverdict", j, w)
  BY <1>1, BoundsAssumption DEF Row
<1>2. Hand("rebuild", j, w)
  BY BoundsAssumption DEF Row
<1>3. ASSUME w.chars > 0  PROVE Hand("admit", j, w)
  BY <1>3, BoundsAssumption DEF Row
<1>4. ASSUME NEW why \in Reasons
      PROVE  LET v == SetPendingReason(w, why, FALSE)
             IN  /\ StoreOk(j.rid, w, v)
                 /\ crashes = 0 => Waiting(v)
  BY BoundsAssumption DEF Row, SetPendingReason
<1> HIDE DEF Hand, StoreOk, Waiting, TickOnly
<1> QED
  BY <1>1, <1>2, <1>3, <1>4

LEMMA WalkAlone ==
    ASSUME \A p, q \in Drains : p = q, AloneInv, InputInv',
           NEW p \in Drains, WalkRows(p)
    PROVE  AloneInv' /\ Lived
<1>a. /\ row \in [Releases -> Row] /\ pc \in [Drains -> Places]
      /\ job \in [Drains -> Job] /\ job[p] \in Job
  BY DEF AloneInv, InputInv, TypeInv, TypeOK
<1>b. /\ Rest.todo = {} /\ Rest.rid = 0 /\ ~Rest.spent
      /\ {"scan", "idle", "page", "drain"} = Free
  BY DEF Rest, Free
<1>c. {"warnverdict", "bump", "rebuild", "admit"} \subseteq Places \ Free
  BY DEF Places, Free
<1>d. /\ pc[p] \in Free
      /\ job[p].rid = 0 /\ ~job[p].spent
  <2>1. pc[p] \in Free
    BY <1>b DEF WalkRows, TickDrains, TickOnlyScans, StartManual, NextPage, EndRows,
       WarnExhausted, NullRow, OversizedRow, EmptyRow, StoredRow, IsNext
  <2> QED
    BY <2>1 DEF AloneInv, HandOk
<1>e. crashes = 0 => \A q \in Releases : Waiting(row[q])
  BY <1>d, AllWait
\* Nothing in hand, and what is left was read now or before.
<1>f. ASSUME NEW place \in Free, Go(p, place), place = "page" => p = "manual",
             NEW j, Keep(p, j), j.rid = 0, ~j.spent,
             \A s \in j.todo :
                /\ row[s.rid].reason # NoReason /\ row[s.rid].attempts = s.attempts
                /\ crashes = 0 => Waiting(row[s.rid]) /\ (TickOnly => s.attempts < MaxAttempts),
             UNCHANGED <<row, person, crashes>>
      PROVE  AloneInv' /\ Lived
  <2>1. pc'[p] = place /\ job'[p] = j
    BY <1>a, <1>f DEF Go, Keep
  <2>2. TodoOk(p)'
    BY <1>f, <2>1 DEF TodoOk, Waiting, Told, TickOnly
  <2>3. \A q \in Releases :
           /\ RowOk(row'[q]) /\ Shown(q, row'[q])
           /\ row[q].label # "none" => row'[q].label # "none"
           /\ crashes' = 0 => Waiting(row'[q])
    BY <1>e, <1>f DEF AloneInv
  <2>4. AloneInv'
    BY <1>f, <2>1, <2>2, <2>3, FreeStep
  <2> QED
    BY <1>f, <2>4 DEF Lived, Keeps
<1>1. CASE TickDrains(p)
  <2>1. PICK cap \in Caps[p] :
           Keep(p, [Rest EXCEPT !.cap = cap, !.todo = AutoRows(cap)])
    BY <1>1 DEF TickDrains
  <2> DEFINE k == [Rest EXCEPT !.cap = cap, !.todo = AutoRows(cap)]
  <2>2. k.rid = 0 /\ ~k.spent /\ k.todo = AutoRows(cap)
    BY DEF Rest
  <2>3. Keep(p, k)
    BY <2>1
  <2>4. Go(p, "drain") /\ UNCHANGED <<row, person, crashes>>
    BY <1>1 DEF TickDrains
  <2> HIDE DEF k
  <2>5. \A s \in k.todo :
           /\ row[s.rid].reason # NoReason /\ row[s.rid].attempts = s.attempts
           /\ crashes = 0 => Waiting(row[s.rid]) /\ (TickOnly => s.attempts < MaxAttempts)
    BY <1>e, <2>2, ReadsTold
  <2> QED
    BY <1>b, <1>f, <2>2, <2>3, <2>4, <2>5
<1>2. CASE TickOnlyScans(p)
  <2>1. PICK mode : Keep(p, [Rest EXCEPT !.mode = mode])
    BY <1>2 DEF TickOnlyScans
  <2>2. /\ [Rest EXCEPT !.mode = mode].todo = {} /\ [Rest EXCEPT !.mode = mode].rid = 0
        /\ ~[Rest EXCEPT !.mode = mode].spent
    BY DEF Rest
  <2>3. Go(p, "scan") /\ UNCHANGED <<row, person, crashes>>
    BY <1>2 DEF TickOnlyScans
  <2> QED
    BY <1>b, <1>f, <2>1, <2>2, <2>3
<1>3. CASE StartManual(p)
  <2>1. PICK cap : Keep(p, [Rest EXCEPT !.cap = cap])
    BY <1>3 DEF StartManual
  <2>2. /\ [Rest EXCEPT !.cap = cap].todo = {} /\ [Rest EXCEPT !.cap = cap].rid = 0
        /\ ~[Rest EXCEPT !.cap = cap].spent
    BY DEF Rest
  <2>3. p = "manual" /\ Go(p, "page") /\ UNCHANGED <<row, person, crashes>>
    BY <1>3 DEF StartManual
  <2> QED
    BY <1>b, <1>f, <2>1, <2>2, <2>3
<1>4. CASE NextPage(p)
  <2> DEFINE page == ManualPage(job[p].last)
  <2>1. pc[p] = "page" /\ UNCHANGED <<row, person, crashes>>
    BY <1>4 DEF NextPage
  <2>2. ~TickOnly
    BY <1>b, <2>1 DEF AloneInv, HandOk, TickOnly
  <2>3. CASE Go(p, "idle") /\ Keep(p, Rest)
    BY <1>b, <1>f, <2>1, <2>3
  <2>4. ASSUME NEW s \in page, Go(p, "drain"),
               Keep(p, [job[p] EXCEPT !.todo = page, !.last = s.rid])
        PROVE  AloneInv' /\ Lived
    <3> DEFINE k == [job[p] EXCEPT !.todo = page, !.last = s.rid]
    <3>1. k.rid = 0 /\ k.todo = page
      BY <1>a, <1>d DEF Job
    <3>2. k.spent = job[p].spent
      BY <1>a DEF Job
    <3>3. Keep(p, k)
      BY <2>4
    <3> HIDE DEF k
    <3>4. \A t \in k.todo :
             /\ row[t.rid].reason # NoReason /\ row[t.rid].attempts = t.attempts
             /\ crashes = 0 => /\ Waiting(row[t.rid])
                               /\ TickOnly => t.attempts < MaxAttempts
      BY <1>e, <2>2, <3>1, ReadsTold
    <3> QED
      BY <1>b, <1>d, <1>f, <2>1, <2>4, <3>1, <3>2, <3>3, <3>4
  <2> QED
    BY <1>4, <2>3, <2>4 DEF NextPage
<1>5. CASE EndRows(p)
  <2>1. UNCHANGED <<row, person, crashes>>
    BY <1>5 DEF EndRows
  <2>2. CASE Go(p, "scan") /\ Keep(p, Rest)
    BY <1>b, <1>f, <2>1, <2>2
  <2>3. CASE p = "manual" /\ job[p].todo = {} /\ Go(p, "page") /\ UNCHANGED job
    <3>1. Keep(p, job[p])
      BY <1>a, <2>3 DEF Keep
    <3> QED
      BY <1>b, <1>d, <1>f, <2>1, <2>3, <3>1
  <2> QED
    BY <1>5, <2>2, <2>3 DEF EndRows
<1>6. ASSUME NEW s \in job[p].todo,
             \/ WarnExhausted(p, s) \/ NullRow(p, s) \/ OversizedRow(p, s)
             \/ EmptyRow(p, s) \/ StoredRow(p, s)
      PROVE  AloneInv' /\ Lived
  <2> DEFINE w == row[s.rid]
  <2>a. pc[p] = "drain" /\ UNCHANGED <<person, crashes>>
    BY <1>6 DEF WarnExhausted, NullRow, OversizedRow, EmptyRow, StoredRow, IsNext
  <2>b. /\ s \in Snapshot /\ s.rid \in Releases
        /\ Skip(p, s) \in Job /\ Take(p, s) \in Job /\ Try(p, s) \in Job
        /\ Take(p, s).rid = s.rid /\ Try(p, s).rid = s.rid
    BY TakeTypes DEF AloneInv, InputInv
  <2>c. /\ \A j \in {Take(p, s), Try(p, s), Skip(p, s)} : j.todo = job[p].todo \ {s}
        /\ Skip(p, s).rid = 0
    BY <1>a, <1>d DEF Try, Take, Skip, Job
  <2>d. \A j \in {Take(p, s), Try(p, s), Skip(p, s)} : ~j.spent
    <3>1. \A j \in {Take(p, s), Try(p, s), Skip(p, s)} : j.spent = job[p].spent
      BY <1>a DEF Try, Take, Skip, Job
    <3> QED
      BY <1>d, <3>1
  <2>e. /\ s.chars # NoInput /\ w.chars = s.chars
        /\ \A t \in job[p].todo \ {s} : t.rid # s.rid
    BY DEF AloneInv, InputInv, Carried
  <2>f. /\ w \in Row /\ RowOk(w) /\ Shown(s.rid, w)
        /\ w.reason # NoReason /\ w.attempts = s.attempts
        /\ crashes = 0 => Waiting(w) /\ (TickOnly => s.attempts < MaxAttempts)
    BY <1>a, <2>b DEF AloneInv, TodoOk
  <2>g. StoreOk(s.rid, w, w)
    BY <2>f DEF StoreOk, Keeps, Lives
  \* s is taken up.
  <2>h. ASSUME NEW j \in Job, j.rid = s.rid, j.todo = job[p].todo \ {s},
               NEW place \in Places \ Free, Hand(place, j, w),
               Keep(p, j), Go(p, place), row' = row
        PROVE  AloneInv' /\ Lived
    <3>1. row' = [row EXCEPT ![s.rid] = w]
      BY <1>a, <2>h
    <3>2. /\ job[p].rid \in {0, s.rid} /\ j.todo \subseteq job[p].todo
          /\ \A t \in j.todo : t.rid # s.rid
      BY <1>d, <2>e, <2>h
    <3> HIDE DEF w
    <3>3. StoreOk(s.rid, row[s.rid], w)
      BY <2>g DEF w
    <3> QED
      BY <2>a, <2>b, <2>f, <2>h, <3>1, <3>2, <3>3, TakeStep
  <2> HIDE DEF w
  <2>i. \A j \in {Take(p, s), Try(p, s)} :
           /\ s.attempts >= MaxAttempts => Hand("warnverdict", j, w)
           /\ Hand("rebuild", j, w)
    BY <2>b, <2>d, <2>f, WalkRowsFit
  \* s is put back under another reason and skipped.
  <2>j. ASSUME NEW why \in Reasons
        PROVE  LET v == SetPendingReason(w, why, FALSE)
               IN  v \in Row /\ StoreOk(s.rid, w, v) /\ (crashes = 0 => Waiting(v))
    BY <2>b, <2>d, <2>f, WalkRowsFit, StoreTypes
  <2>1. CASE WarnExhausted(p, s)
    <3>1. /\ s.attempts >= MaxAttempts
          /\ Keep(p, Take(p, s)) /\ Go(p, "warnverdict") /\ row' = row
      BY <2>1 DEF WarnExhausted, Exhausted
    <3> QED
      BY <1>c, <2>b, <2>c, <2>h, <2>i, <3>1
  <2>2. CASE NullRow(p, s)
    BY <2>2, <2>e DEF NullRow
  <2>3. CASE OversizedRow(p, s)
    <3>1. Keep(p, Skip(p, s)) /\ Go(p, "drain")
      BY <1>a, <2>3, <2>a DEF OversizedRow, Go
    <3>2. CASE row' = row
      <4>1. \A t \in Skip(p, s).todo :
               /\ row[t.rid].reason # NoReason /\ row[t.rid].attempts = t.attempts
               /\ crashes = 0 => /\ Waiting(row[t.rid])
                                 /\ TickOnly => t.attempts < MaxAttempts
        BY <2>c DEF AloneInv, TodoOk
      <4> QED
        BY <1>b, <1>f, <2>a, <2>c, <2>d, <3>1, <3>2, <4>1
    <3>3. CASE row' = [row EXCEPT ![s.rid] =
                           SetPendingReason(row[s.rid], "too_large", FALSE)]
      <4> DEFINE v == SetPendingReason(w, "too_large", FALSE)
      <4>1. v \in Row /\ StoreOk(s.rid, w, v) /\ (crashes = 0 => Waiting(v))
        <5>1. "too_large" \in Reasons
          BY DEF Reasons
        <5> QED
          BY <2>j, <5>1
      <4>2. row' = [row EXCEPT ![s.rid] = v]
        BY <3>3 DEF w
      <4> HIDE DEF v
      <4>3. OneRow(s.rid, v)
        <5>1. StoreOk(s.rid, row[s.rid], v)
          BY <4>1 DEF w
        <5> QED
          BY <2>a, <2>b, <4>1, <4>2, <5>1, OneWritten
      <4>4. pc'[p] = "drain" /\ job'[p] = Skip(p, s)
        BY <1>a, <3>1 DEF Go, Keep
      <4>5. TodoOk(p)'
        <5>1. ASSUME NEW t \in job'[p].todo
              PROVE  t \in job[p].todo /\ row'[t.rid] = row[t.rid]
          <6>1. t \in job[p].todo \ {s}
            BY <2>c, <4>4
          <6>2. t.rid \in Releases
            BY <6>1, TodoElsewhere
          <6> QED
            BY <2>e, <4>3, <6>1, <6>2 DEF OneRow
        <5> QED
          BY <2>a, <5>1 DEF AloneInv, TodoOk, Waiting, Told, TickOnly
      <4>6. \A q \in Releases :
               /\ RowOk(row'[q]) /\ Shown(q, row'[q])
               /\ row[q].label # "none" => row'[q].label # "none"
               /\ crashes' = 0 => Waiting(row'[q])
        BY <1>e, <2>a, <2>b, <4>1, <4>3 DEF OneRow, StoreOk, Keeps, w
      <4>7. AloneInv'
        BY <1>b, <2>a, <2>c, <2>d, <4>4, <4>5, <4>6, FreeStep
      <4> QED
        BY <4>3, <4>7 DEF OneRow
    <3> QED
      BY <2>3, <3>2, <3>3 DEF OversizedRow
  <2>4. CASE EmptyRow(p, s)
    <3>1. CASE Keep(p, Skip(p, s)) /\ UNCHANGED <<row, pc>>
      <4>1. Go(p, "drain")
        BY <1>a, <2>a, <3>1 DEF Go
      <4>2. \A t \in Skip(p, s).todo :
               /\ row[t.rid].reason # NoReason /\ row[t.rid].attempts = t.attempts
               /\ crashes = 0 => /\ Waiting(row[t.rid])
                                 /\ TickOnly => t.attempts < MaxAttempts
        BY <2>c DEF AloneInv, TodoOk
      <4> QED
        BY <1>b, <1>f, <2>a, <2>c, <2>d, <3>1, <4>1, <4>2
    <3>2. CASE /\ row' = [row EXCEPT ![s.rid] =
                             SetPendingReason(@, "model_busy", FALSE)]
               /\ Done(p, [Take(p, s) EXCEPT !.goOn = FALSE])
      <4> DEFINE v == SetPendingReason(w, "model_busy", FALSE)
                 k == [Take(p, s) EXCEPT !.goOn = FALSE]
      <4>1. v \in Row /\ StoreOk(s.rid, w, v) /\ (crashes = 0 => Waiting(v))
        <5>1. "model_busy" \in Reasons
          BY DEF Reasons, AutoReasons
        <5> QED
          BY <2>j, <5>1
      <4>2. k \in Job /\ k.todo = job[p].todo \ {s}
        <5>1. k \in Job
          BY <2>b, JobUpdates
        <5>2. k.todo = Take(p, s).todo
          BY <2>b DEF Job
        <5> QED
          BY <2>c, <5>1, <5>2
      <4>3. row' = [row EXCEPT ![s.rid] = v] /\ Done(p, k)
        BY <3>2 DEF w
      <4>4. StoreOk(s.rid, row[s.rid], v)
        BY <4>1 DEF w
      <4>5. /\ job[p].rid \in {0, s.rid} /\ k.todo \subseteq job[p].todo
            /\ \A t \in k.todo : t.rid # s.rid
        BY <1>d, <2>e, <4>2
      <4> HIDE DEF v, k
      <4> QED
        BY <2>a, <2>b, <4>1, <4>2, <4>3, <4>4, <4>5, HandDone
    <3>3. CASE Keep(p, Try(p, s)) /\ Go(p, "rebuild") /\ UNCHANGED row
      BY <1>c, <2>b, <2>c, <2>h, <2>i, <3>3
    <3> QED
      BY <2>4, <3>1, <3>2, <3>3 DEF EmptyRow
  <2>5. CASE StoredRow(p, s)
    <3>1. row[s.rid].chars > 0
      BY <2>5, <2>b, <2>e DEF StoredRow, Snapshot, NoInput, w
    <3> DEFINE k == [Try(p, s) EXCEPT !.text = row[s.rid].chars]
    <3>a. row[s.rid].chars \in Nat
      BY <1>a, <2>b, <3>1 DEF Row, NoInput
    <3>2. k \in Job /\ k.todo = job[p].todo \ {s} /\ k.rid = s.rid
      BY <2>b, <2>c, <3>a DEF Job
    <3>3. k.spent = Try(p, s).spent
      BY <2>b DEF Job
    <3>4. Keep(p, k) /\ Go(p, "admit") /\ row' = row
      BY <2>5, <3>1, <3>a DEF StoredRow
    <3> HIDE DEF k
    <3>5. Hand("admit", k, w)
      <4>1. ~k.spent
        BY <2>d, <3>3
      <4>2. w.chars > 0 /\ Shown(k.rid, w)
        BY <2>f, <3>1, <3>2 DEF w
      <4> QED
        BY <2>f, <3>2, <4>1, <4>2, WalkRowsFit
    <3> QED
      BY <1>c, <2>h, <3>2, <3>4, <3>5
  <2> QED
    BY <1>6, <2>1, <2>2, <2>3, <2>4, <2>5
<1> QED
  BY <1>1, <1>2, <1>3, <1>4, <1>5, <1>6 DEF WalkRows

LEMMA KillAlone ==
    ASSUME \A p, q \in Drains : p = q, AloneInv, InputInv',
           NEW p \in Drains, Kill(p)
    PROVE  AloneInv' /\ Lived
<1>1. /\ pc'[p] = "idle" /\ job'[p] = Rest /\ row' = row /\ person' = person
      /\ crashes' # 0
  BY BoundsAssumption DEF Kill, Go, Keep, AloneInv, InputInv, TypeInv, TypeOK
<1>2. /\ job'[p].rid = 0 /\ ~job'[p].spent /\ job'[p].todo = {}
      /\ pc'[p] \in Free /\ pc'[p] # "page"
  BY <1>1 DEF Rest, Free
<1>3. TodoOk(p)'
  BY <1>2 DEF TodoOk
<1>4. \A q \in Releases :
         /\ RowOk(row'[q]) /\ Shown(q, row'[q])
         /\ row[q].label # "none" => row'[q].label # "none"
         /\ crashes' = 0 => Waiting(row'[q])
  BY <1>1 DEF AloneInv
<1>5. AloneInv'
  BY <1>1, <1>2, <1>3, <1>4, FreeStep
<1> QED
  BY <1>1, <1>5 DEF Lived, Keeps

\* What a person does to a row, and what prune does: nothing a process that has
\* the release in hand, or has read it, relies on.
Outside(w, v) ==
    /\ v.stage = w.stage /\ v.reason = w.reason /\ v.attempts = w.attempts
    /\ v.chars = w.chars
    /\ v.escalated <=> w.escalated
    /\ PrunedByHand \/ (v.evidence <=> w.evidence)
    /\ \/ v.verdict = w.verdict
       \/ w.verdict = "none" /\ v.verdict = "unreviewed" /\ w.stage # "new"
    /\ w.label # "none" \/ v.verdict # w.verdict => v.label # "none"
    /\ v.label = w.label \/ v.label # "none"
    /\ w.sent \subseteq v.sent
    /\ v.sent = w.sent \/ v.label # "none"

LEMMA OutsideRows ==
    ASSUME NEW w \in Row, NEW v \in Row, Outside(w, v)
    PROVE  /\ RowOk(w) => RowOk(v)
           /\ \A r : Shown(r, w) => Shown(r, v)
           /\ Waiting(w) => Waiting(v)
           /\ Keeps(w, v)
           /\ \A place : \A j \in Job :
                 /\ place \in Answered => j.outcome \in Outcomes
                 /\ Hand(place, j, w)
                 => Hand(place, j, v)
<1> USE DEF Outside
<1>1. RowOk(w) => RowOk(v)
  BY DEF RowOk, ModelClasses
<1>2. \A r : Shown(r, w) => Shown(r, v)
  BY DEF Shown
<1>3. Waiting(w) => Waiting(v)
  BY DEF Waiting, Told, TickOnly
<1>4. ASSUME NEW place, NEW j \in Job, place \in Answered => j.outcome \in Outcomes,
             Hand(place, j, w)
      PROVE  Hand(place, j, v)
  <2>1. HandRow(place, j, v)
    BY <1>4 DEF Hand, HandRow, Stored, Outcomes, ModelClasses, Answered
  <2>2. HandShown(place, j, v)
    BY <1>4 DEF Hand, HandShown
  <2>3. crashes = 0 => HandTold(place, j, v)
    BY <1>4 DEF Hand, HandTold, Told
  <2> QED
    BY <1>4, <2>1, <2>2, <2>3 DEF Hand
<1>5. Keeps(w, v)
  BY DEF Keeps, ModelClasses
<1> QED
  BY <1>1, <1>2, <1>3, <1>4, <1>5

\* A person labels a release or alerts about it, or somebody prunes.
LEMMA PersonOutside ==
    ASSUME AloneInv, Person
    PROVE  /\ \A q \in Releases : row'[q] \in Row /\ Outside(row[q], row'[q])
           /\ person' # Nobody => row'[person'.rid].label # "none"
<1>a. /\ row \in [Releases -> Row] /\ person \in {Nobody} \cup Labelled
      /\ person # Nobody => row[person.rid].label # "none"
  BY DEF AloneInv, InputInv, TypeInv, TypeOK
<1>b. \A w \in Row : Outside(w, w)
  BY DEF Outside
<1>1. ASSUME NEW r \in Releases, NEW label \in Labels, Adjudicate(r, label)
      PROVE  /\ \A q \in Releases : row'[q] \in Row /\ Outside(row[q], row'[q])
             /\ person' # Nobody => row'[person'.rid].label # "none"
  <2> DEFINE v == AdjudicateRow(row[r], label)
  <2>1. label \in ModelClasses /\ label # "none"
    BY LabelsAssumption DEF ModelClasses
  <2>2. v \in Row
    BY <1>a, <2>1, StoreTypes
  <2>3. Outside(row[r], v) /\ v.label = label
    BY <1>1, <1>a, <2>1 DEF Adjudicate, AdjudicateRow, Outside, Row
  <2>4. /\ row' = [row EXCEPT ![r] = v]
        /\ person' = Nobody \/ person'.rid = r
    BY <1>1 DEF Adjudicate
  <2> HIDE DEF v
  <2>5. row'[r] = v /\ \A q \in Releases \ {r} : row'[q] = row[q]
    BY <1>a, <2>4
  <2> QED
    BY <1>a, <1>b, <2>1, <2>2, <2>3, <2>4, <2>5
<1>2. CASE AdjudicationAlert
  <2> DEFINE r == person.rid
             v == Emit(row[r], person.label)
  <2>1. r \in Releases /\ person.label \in Alerts /\ row[r].label # "none"
    BY <1>2, <1>a DEF AdjudicationAlert, Labelled, Alerts
  <2>2. v \in Row
    BY <1>a, <2>1, StoreTypes
  <2>3. row[r] \in Row
    BY <1>a, <2>1
  <2>4. Outside(row[r], v)
    BY <2>1, <2>3 DEF Emit, Outside, Row
  <2>5. row' = [row EXCEPT ![r] = v] /\ person' = Nobody
    BY <1>2 DEF AdjudicationAlert
  <2> HIDE DEF r, v
  <2> QED
    BY <1>a, <1>b, <2>1, <2>2, <2>4, <2>5
<1>3. CASE Prune
  <2>1. PrunedByHand /\ row' = Pruned /\ person' = person
    BY <1>3 DEF Prune
  <2>2. \A q \in Releases : Pruned[q] \in Row
    BY <1>a, PrunedRows
  <2>3. ASSUME NEW q \in Releases
        PROVE  Outside(row[q], Pruned[q]) /\ Pruned[q].label = row[q].label
    <3>1. Pruned[q] = IF Prunable(row[q]) THEN [row[q] EXCEPT !.evidence = FALSE] ELSE row[q]
      BY DEF Pruned
    <3>2. row[q] \in Row
      BY <1>a
    <3> QED
      BY <2>1, <3>1, <3>2 DEF Outside, Row
  <2>4. person # Nobody => person.rid \in Releases
    BY <1>a DEF Labelled
  <2> QED
    BY <1>a, <2>1, <2>2, <2>3, <2>4
<1> QED
  BY <1>1, <1>2, <1>3 DEF Person

LEMMA PersonAlone ==
    ASSUME AloneInv, InputInv', Person
    PROVE  AloneInv' /\ \A q \in Releases : Keeps(row[q], row'[q])
<1>a. /\ row \in [Releases -> Row] /\ job \in [Drains -> Job]
      /\ pc' = pc /\ job' = job /\ crashes' = crashes
  BY DEF Person, Adjudicate, AdjudicationAlert, Prune, AloneInv, InputInv, TypeInv, TypeOK
<1>b. /\ \A q \in Releases : row'[q] \in Row /\ Outside(row[q], row'[q])
      /\ person' # Nobody => row'[person'.rid].label # "none"
  BY PersonOutside
<1>1. ASSUME NEW q \in Releases
      PROVE  /\ RowOk(row[q]) => RowOk(row'[q])
             /\ Shown(q, row[q]) => Shown(q, row'[q])
             /\ Waiting(row[q]) => Waiting(row'[q])
             /\ Keeps(row[q], row'[q])
             /\ row'[q].reason = row[q].reason /\ row'[q].attempts = row[q].attempts
  <2>1. row[q] \in Row /\ row'[q] \in Row /\ Outside(row[q], row'[q])
    BY <1>a, <1>b
  <2>2. row'[q].reason = row[q].reason /\ row'[q].attempts = row[q].attempts
    BY <2>1 DEF Outside
  <2> QED
    BY <2>1, <2>2, OutsideRows
<1>2. \A q \in Releases : RowOk(row'[q]) /\ Shown(q, row'[q])
  BY <1>1 DEF AloneInv
<1>3. crashes' = 0 => \A q \in Releases : InHand(q)' \/ Waiting(row'[q])
  BY <1>a, <1>1 DEF AloneInv, InHand
<1>4. ASSUME NEW p \in Drains
      PROVE  /\ HandOk(p)' /\ TodoOk(p)'
             /\ pc'[p] \in Free => ~job'[p].spent
  <2>1. ASSUME pc[p] \in Free
        PROVE  HandOk(p)'
    BY <1>a, <2>1 DEF AloneInv, HandOk
  <2>2. ASSUME pc[p] \notin Free
        PROVE  HandOk(p)'
    <3>1. /\ job[p] \in Job /\ job[p].rid \in Releases /\ Mine(p) \in Row
          /\ Hand(pc[p], job[p], Mine(p))
          /\ pc[p] \in Recording => job[p].outcome \in Outcomes
      BY <2>2, StepFacts
    <3>2. pc[p] \in Answered => job[p].outcome \in Outcomes
      BY <3>1 DEF Answered, Recording
    <3>3. row'[job[p].rid] \in Row /\ Outside(Mine(p), row'[job[p].rid])
      BY <1>b, <3>1 DEF Mine
    <3>4. Hand(pc[p], job[p], row'[job[p].rid])
      BY <3>1, <3>2, <3>3, OutsideRows
    <3>5. Mine(p)' = row'[job[p].rid] /\ crashes' = crashes
      BY <1>a DEF Mine
    <3>6. (Hand(pc[p], job[p], Mine(p)))'
      BY <1>a, <3>4, <3>5 DEF Hand, HandRow, HandShown, HandTold, Told, TickOnly
    <3> QED
      BY <1>a, <2>2, <3>6, Zenon DEF HandOk
  <2>3. TodoOk(p)'
    <3>1. \A s \in job[p].todo : s.rid \in Releases
      BY TodoElsewhere
    <3>2. \A s \in job[p].todo :
             /\ row[s.rid].reason # NoReason /\ row[s.rid].attempts = s.attempts
             /\ crashes = 0 => /\ Waiting(row[s.rid])
                               /\ TickOnly => s.attempts < MaxAttempts
      BY DEF AloneInv, TodoOk
    <3>3. \A s \in job[p].todo :
             /\ row'[s.rid].reason # NoReason /\ row'[s.rid].attempts = s.attempts
             /\ crashes = 0 => /\ Waiting(row'[s.rid])
                               /\ TickOnly => s.attempts < MaxAttempts
      BY <1>1, <3>1, <3>2
    <3> QED
      BY <1>a, <3>3 DEF TodoOk, Waiting, Told, TickOnly
  <2>4. pc'[p] \in Free => ~job'[p].spent
    BY <1>a DEF AloneInv
  <2> QED
    BY <2>1, <2>2, <2>3, <2>4
<1>5. person' # Nobody => row'[person'.rid].label # "none"
  BY <1>b
<1> QED
  BY <1>1, <1>2, <1>3, <1>4, <1>5, Zenon DEF AloneInv


-----------------------------------------------------------------------------
(* The invariant holds, and every step is one of the abstract life or none.*)

LEMMA StepAlone ==
    ASSUME \A p, q \in Drains : p = q, AloneInv, InputInv',
           NEW p \in Drains, Step(p) \/ Kill(p)
    PROVE  AloneInv' /\ Lived
<1>1. CASE WalkRows(p)
  BY <1>1, WalkAlone
<1>2. CASE AttemptReview(p)
  BY <1>2, AttemptAlone
<1>3. CASE Record(p)
  BY <1>3, RecordAlone
<1>4. CASE Scan(p)
  BY <1>4, ScanAlone
<1>5. CASE Rebuild(p)
  BY <1>5, RebuildAlone
<1>6. CASE Kill(p)
  BY <1>6, KillAlone
<1> QED
  BY <1>1, <1>2, <1>3, <1>4, <1>5, <1>6 DEF Step

LEMMA AloneStep ==
    ASSUME \A p, q \in Drains : p = q, AloneInv, [Next]_vars
    PROVE  /\ AloneInv'
           /\ \A q \in Releases : Keeps(row[q], row'[q])
<1>1. InputInv'
  BY InputStep DEF AloneInv
<1>2. CASE \E p \in Drains : Step(p) \/ Kill(p)
  BY <1>1, <1>2, StepAlone DEF Lived
<1>3. CASE Person
  BY <1>1, <1>3, PersonAlone
<1>4. CASE UNCHANGED vars
  <2>1. \A p \in Drains : Mine(p)' = Mine(p)
    BY <1>4 DEF vars, Mine
  <2>2. AloneInv'
    BY <1>1, <1>4, <2>1 DEF vars, AloneInv, InHand, HandOk, TodoOk, Hand, HandRow,
          HandShown, HandTold, Told, Waiting, TickOnly, RowOk, Shown
  <2> QED
    BY <1>4, <2>2 DEF vars, Keeps
<1> QED
  BY <1>2, <1>3, <1>4 DEF Next

LEMMA AloneInit ==
    Init => AloneInv
<1> SUFFICES ASSUME Init  PROVE AloneInv
  OBVIOUS
<1>1. InputInv
  BY InitTypes DEF Init, InputInv, Kept, Sound, NewRow, Carried, Rest, Texted
<1>2. \A r \in Releases : row[r] = NewRow
  BY DEF Init
<1>3. RowOk(NewRow) /\ Waiting(NewRow)
  BY BoundsAssumption DEF RowOk, Waiting, Told, TickOnly, NewRow, NoReason, ModelClasses
<1>4. \A r : Shown(r, NewRow)
  BY DEF Shown, NewRow, NoReason
<1>5. \A p \in Drains : HandOk(p) /\ TodoOk(p) /\ (pc[p] \in Free => ~job[p].spent)
  BY DEF Init, HandOk, TodoOk, Free, Rest
<1>6. person = Nobody
  BY DEF Init
<1> QED
  BY <1>1, <1>2, <1>3, <1>4, <1>5, <1>6 DEF AloneInv

LEMMA AloneAlways ==
    ASSUME \A p, q \in Drains : p = q
    PROVE  Spec => []AloneInv
<1>1. Init => AloneInv
  BY AloneInit
<1>2. AloneInv /\ [Next]_vars => AloneInv'
  BY AloneStep
<1> QED
  BY <1>1, <1>2, PTL DEF Spec

-----------------------------------------------------------------------------
(* The theorems.                                                           *)

\* clear_unscanned_verdict, _review_failed and _record never replace what a
\* model concluded: with one drain at a time, killed anywhere, whoever labels
\* or prunes meanwhile, a model's verdict stays as it was stored.
THEOREM VerdictsFinal ==
    ASSUME \A p, q \in Drains : p = q
    PROVE  Spec => VerdictFinal
<1>1. AloneInv /\ [Next]_vars =>
        [\A r \in Releases : row[r].verdict \in ModelClasses
                                 => row'[r].verdict = row[r].verdict]_vars
  BY AloneStep DEF Keeps
<1> QED
  BY <1>1, AloneAlways, PTL DEF Spec, VerdictFinal

\* _record stores the verdict, alerts and then sets the stage: an alert about a
\* release has the verdict it reports behind it, and what is settled as
\* malicious has alerted, wherever the one drain is killed.
THEOREM AlertsMatch ==
    ASSUME \A p, q \in Drains : p = q
    PROVE  Spec => []AlertsMatchVerdicts
<1>1. AloneInv => AlertsMatchVerdicts
  <2> SUFFICES ASSUME AloneInv, NEW r \in Releases
               PROVE  /\ "malicious" \in row[r].sent
                            => row[r].verdict = "malicious" \/ row[r].label # "none"
                      /\ "suspicious|downgraded" \in row[r].sent
                            => row[r].verdict = "suspicious" \/ row[r].label # "none"
                      /\ row[r].stage = "reviewed" /\ row[r].verdict = "malicious"
                            => "malicious" \in row[r].sent
    BY DEF AlertsMatchVerdicts
  <2>1. RowOk(row[r])
    BY DEF AloneInv
  <2> QED
    BY <2>1 DEF RowOk
<1> QED
  BY <1>1, AloneAlways, PTL

\* _review_failed bumps the attempts, stores "unreviewed" and alerts before the
\* release is handed back: as long as the drain is not killed, what `pending`
\* shows as not scanned has used up its attempts and has alerted, and the tick
\* alone takes no release up more often than max_review_attempts.
THEOREM WarnedFirst ==
    ASSUME \A p, q \in Drains : p = q
    PROVE  Spec => []UnreviewedWarned
<1>1. AloneInv => UnreviewedWarned
  <2> SUFFICES ASSUME AloneInv, crashes = 0, NEW r \in Releases
               PROVE  /\ TickOnly => row[r].attempts <= MaxAttempts
                      /\ ~InHand(r) => Told(row[r])
    BY DEF UnreviewedWarned, TickOnly, Told
  <2>1. CASE ~InHand(r)
    BY <2>1 DEF AloneInv, Waiting
  <2>2. CASE InHand(r)
    <3>1. PICK p \in Drains : job[p].rid = r
      BY <2>2 DEF InHand
    <3>2. pc[p] \notin Free
      BY <3>1, ReleasesAssumption DEF AloneInv, HandOk
    <3>3. Hand(pc[p], job[p], row[r])
      BY <3>1, <3>2 DEF AloneInv, HandOk, Mine
    <3> QED
      BY <2>2, <3>3 DEF Hand, HandTold
  <2> QED
    BY <2>1, <2>2
<1> QED
  BY <1>1, AloneAlways, PTL

\* _record keeps the evidence where a person may act, and the automatic prune
\* leaves those rows alone: unless somebody prunes by hand at the wrong moment,
\* a release waiting for a person comes with its flagged code.
THEOREM EvidenceKept ==
    ASSUME \A p, q \in Drains : p = q, ~PrunedByHand
    PROVE  Spec => []EvidenceForPerson
<1>1. AloneInv => EvidenceForPerson
  BY CodedAssumption DEF AloneInv, Shown, EvidenceForPerson
<1> QED
  BY <1>1, AloneAlways, PTL

-----------------------------------------------------------------------------
(* The queue implements ReleaseOutcome.                                    *)

\* Only the person changes what the person has in hand.
LEMMA StepQuiet ==
    ASSUME NEW p \in Drains, Step(p) \/ Kill(p)
    PROVE  person' = person
<1>1. CASE WalkRows(p)
  <2>1. ASSUME NEW s \in job[p].todo,
               \/ WarnExhausted(p, s) \/ NullRow(p, s) \/ OversizedRow(p, s)
               \/ EmptyRow(p, s) \/ StoredRow(p, s)
        PROVE  person' = person
    BY <2>1 DEF WarnExhausted, NullRow, OversizedRow, EmptyRow, StoredRow
  <2> QED
    BY <1>1, <2>1 DEF WalkRows, TickDrains, TickOnlyScans, StartManual, NextPage, EndRows
<1>2. CASE AttemptReview(p)
  <2>1. \A outcome \in Outcomes : Answer(p, outcome) => person' = person
    BY DEF Answer
  <2>2. \A timeout \in BOOLEAN : ReviewFails(p, timeout) => person' = person
    BY DEF ReviewFails
  <2>3. Admitted(p) \/ Refused(p) \/ EnterSlot(p) \/ EndpointDown(p)
            => person' = person
    BY DEF Admitted, Refused, EnterSlot, EndpointDown
  <2>4. CountAttempt(p) \/ ParkAgain(p) \/ DropUnreviewed(p) \/ WarnVerdict(p) \/ Warn(p)
            => person' = person
    BY DEF CountAttempt, ParkAgain, DropUnreviewed, WarnVerdict, Warn
  <2> QED
    BY <1>2, <2>1, <2>2, <2>3, <2>4 DEF AttemptReview
<1>3. CASE Record(p)
  BY <1>3 DEF Record, Unpark, StoreVerdict, DropEvidence, SetStage, Alert
<1>4. CASE Scan(p)
  <2>1. \A r \in Releases : Triage(p, r) => person' = person
    BY DEF Triage
  <2> QED
    BY <1>4, <2>1 DEF Scan, StoreEvidence, QueueDisabled, QueueFitting, QueueTooLarge,
          QueueRaises, EndTick
<1>5. CASE Rebuild(p)
  <2>1. \A timeout \in BOOLEAN : RebuildFails(p, timeout) => person' = person
    BY DEF RebuildFails
  <2> QED
    BY <1>5, <2>1 DEF Rebuild, RebuildUnreachable, RebuildMissing, RecordRemoved,
          RebuildClears, ClearedVerdict, ClearedStage, RebuildEscalates, Requeue
<1>6. CASE Kill(p)
  BY <1>6 DEF Kill
<1> QED
  BY <1>1, <1>2, <1>3, <1>4, <1>5, <1>6 DEF Step

\* Nobody labels a release: every step lives by the abstract life.
LEMMA UnlabelledStep ==
    ASSUME \A p, q \in Drains : p = q, Labels = {}, AloneInv, person = Nobody,
           [Next]_vars
    PROVE  Lived /\ person' = Nobody
<1>1. CASE \E p \in Drains : Step(p) \/ Kill(p)
  <2>1. PICK p \in Drains : Step(p) \/ Kill(p)
    BY <1>1
  <2>2. Lived
    BY <2>1, StepAlone, InputStep DEF AloneInv
  <2>3. person' = person
    BY <2>1, StepQuiet
  <2> QED
    BY <2>2, <2>3
<1>2. CASE Person
  <2>1. Prune
    BY <1>2 DEF Person, AdjudicationAlert
  <2>2. \A q \in Releases : row'[q] = Pruned[q]
    BY <2>1 DEF Prune
  <2>3. \A q \in Releases : Life(row'[q]) = Life(row[q])
    BY <2>2, PrunedOk
  <2>4. \A q \in Releases : Keeps(row[q], row'[q])
    BY AloneStep
  <2> QED
    BY <2>1, <2>3, <2>4 DEF Prune, Lived
<1>3. CASE UNCHANGED vars
  BY <1>3 DEF vars, Lived, Keeps
<1> QED
  BY <1>1, <1>2, <1>3 DEF Next

\* One drain at a time, killed between any two commits, lives by ReleaseOutcome
\* as long as nobody labels releases: what a model concluded and what is closed
\* stay, a release leaves the queue only for a person, for good or on a model's
\* answer, and it is closed as malicious only after its alert (_record).
THEOREM QueueImplementsOutcome ==
    ASSUME \A p, q \in Drains : p = q, Labels = {}
    PROVE  Spec => ImplementsOutcome
<1>1. Init => AloneInv /\ person = Nobody
  BY AloneInit DEF Init
<1>2. /\ AloneInv /\ person = Nobody
      /\ [Next]_vars
      => (AloneInv /\ person = Nobody)'
  BY AloneStep, UnlabelledStep
<1>3. Init => Outcome!Init
  BY DEF Init, Outcome!Init, PlaceOf, AnswerOf, Settled, NewRow
<1>4. /\ AloneInv /\ person = Nobody
      /\ [Next]_vars
      => [Outcome!Next]_Outcome!vars
  BY UnlabelledStep, MappedStep
<1> QED
  BY <1>1, <1>2, <1>3, <1>4, PTL DEF Spec, ImplementsOutcome, Outcome!Spec
=============================================================================
