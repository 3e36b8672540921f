----------------------------- MODULE ReviewQueue -----------------------------
(***************************************************************************)
(* The LLM-review queue of pydiffwatch: what happens to an escalated       *)
(* release from the moment the scan stores it as `triaged` until a model   *)
(* or a person has settled it.                                             *)
(*                                                                         *)
(* Two operating-system processes work on the rows of one SQLite database: *)
(* "tick" is run_once (drain the queue automatically, then scan new        *)
(* releases), "manual" is `review-pending` (drain by hand).  The scan lock *)
(* keeps two ticks apart but `review-pending` does not take it; both take  *)
(* the review lock around a model call.  A person adjudicates at any time. *)
(* Every function of store.py commits on its own, so every commit is a     *)
(* step of its own here, a process may be killed between any two of them,  *)
(* and the other actors may run in between.                                *)
(***************************************************************************)
EXTENDS Integers, FiniteSets

CONSTANTS
    Releases,       \* ids of the releases triage escalates (releases.id)
    Need,           \* characters of review input each release needs
    Coded,          \* the releases with flagged code (others: only a binary, ...)
    Drains,         \* the processes that run: a subset of {"tick", "manual"}
    Caps,           \* the input caps the guard may compute, per process
    MaxAttempts,    \* reviewer.max_review_attempts
    MaxPerTick,     \* reviewer.max_pending_per_tick
    PageSize,       \* _PAGE: rows per read of the manual drain
    ManualReasons,  \* the reasons `review-pending` drains
    Labels,         \* the labels a person gives ({}: nobody adjudicates)
    PrunedByHand,   \* whether somebody runs `pydiffwatch prune`
    AttemptsBound,  \* bound: the attempt counter stays here once reached
    MaxFaults,      \* bound: outages, refusals and early re-checks
    MaxCrashes      \* bound: processes killed

AutoReasons ==
    {"model_busy", "in_review", "endpoint_unreachable", "review_failed",
     "reviewer_disabled"}
Reasons == AutoReasons \cup {"too_large"}
NoReason == "none"
NoInput == -1           \* review_input IS NULL

Stages == {"new", "triaged", "pending_review", "reviewed",
           "reviewed_partial", "needs_adjudication", "removed_before_scan"}

\* What _record makes of a model's answer; "no_content" is the answer of a
\* reviewer that had no text to show (model 'none'), "partial" and "unsure" are
\* the benign and the chainless suspicious answers of a model that did not see
\* every selected file.
Outcomes == {"benign", "partial", "unsure", "suspicious", "no_content",
             "downgraded", "malicious"}
ModelClasses == {"benign", "suspicious", "malicious"}
Verdicts == ModelClasses \cup {"unreviewed", "none"}

\* The dedupe keys under which a release of this model can alert.
Alerts == {"malicious", "suspicious", "suspicious|downgraded",
           "unscanned:review_failed", "unscanned:no_content"}

ASSUME ReleasesAssumption == Releases \subseteq Nat \ {0}
ASSUME NeedAssumption == Need \in [Releases -> Nat \ {0}]
ASSUME CodedAssumption == Coded \subseteq Releases
ASSUME DrainsAssumption == Drains \subseteq {"tick", "manual"}
ASSUME CapsAssumption == Caps \in [Drains -> SUBSET Nat]
ASSUME BoundsAssumption ==
    /\ MaxAttempts \in Nat \ {0}
    /\ AttemptsBound \in Nat /\ MaxAttempts <= AttemptsBound
    /\ MaxPerTick \in Nat \ {0} /\ PageSize \in Nat \ {0}
    /\ MaxFaults \in Nat /\ MaxCrashes \in Nat
ASSUME ReasonsAssumption == ManualReasons \subseteq Reasons
ASSUME PruneAssumption == PrunedByHand \in BOOLEAN
ASSUME LabelsAssumption == Labels \subseteq ModelClasses

VARIABLES
    row,        \* the database: the columns of each release that matter here
    pc,         \* where each process is
    job,        \* the local variables of each process
    slot,       \* who holds the review lock, or "free"
    person,     \* the label `adjudicate` stored and has yet to alert, or Nobody
    faults,     \* faults so far
    crashes     \* kills so far

vars == <<row, pc, job, slot, person, faults, crashes>>

-----------------------------------------------------------------------------
(* Rows, and the store functions that change them (one commit each).       *)

Row == [stage : Stages,
        escalated : BOOLEAN,            \* triage_score reaches the threshold
        reason : Reasons \cup {NoReason},
        gone : BOOLEAN,                 \* pending_detail is "not on PyPI (..."
        chars : Nat \cup {NoInput},     \* review_input(_chars); 0: stored ""
        attempts : 0..AttemptsBound,
        verdict : Verdicts,             \* "unreviewed": model 'none'
        label : ModelClasses \cup {"none"},
        evidence : BOOLEAN,
        sent : SUBSET Alerts]           \* the alerts table

NewRow == [stage |-> "new", escalated |-> FALSE, reason |-> NoReason,
           gone |-> FALSE, chars |-> NoInput, attempts |-> 0,
           verdict |-> "none", label |-> "none", evidence |-> FALSE,
           sent |-> {}]

UpdateStage(w, stage) == [w EXCEPT !.stage = stage]

ParkForReview(w, why, n) ==
    [w EXCEPT !.stage = "pending_review", !.reason = why, !.gone = FALSE,
              !.chars = n]

SetPendingReason(w, why, gone) ==
    [w EXCEPT !.stage = "pending_review", !.reason = why, !.gone = gone]

ClearPending(w) ==
    [w EXCEPT !.reason = NoReason, !.gone = FALSE, !.chars = NoInput]

BumpReviewAttempts(w) ==
    [w EXCEPT !.attempts = IF @ < AttemptsBound THEN @ + 1 ELSE @]

\* Mutation: INSERT OR REPLACE, which loses the columns it does not name.
ReplaceVerdict(w, verdict) == [w EXCEPT !.verdict = verdict, !.label = "none"]

\* ON CONFLICT DO UPDATE: the verdict is replaced, a human label survives.
RecordVerdict(w, verdict) == [w EXCEPT !.verdict = verdict]

ClearUnscannedVerdict(w) ==
    IF w.verdict = "unreviewed" /\ w.label = "none"
    THEN [w EXCEPT !.verdict = "none"] ELSE w

\* Mutation: the evidence goes whoever labelled the release.
ClearAnyEvidence(w) == [w EXCEPT !.evidence = FALSE]

ClearEvidence(w) == IF w.label = "none" THEN [w EXCEPT !.evidence = FALSE] ELSE w

UpdateEvidence(w) == [w EXCEPT !.evidence = TRUE]

\* Mutation: a benign verdict counts as settled wherever the release waits.
PrunableIfBenign(w) ==
    \/ w.stage = "triaged"
    \/ w.verdict = "benign" /\ w.label \in {"none", "benign"}

\* prune drops the evidence nobody needs, of every row in one transaction.  What
\* it deletes with retention_days > 0 is older than the rows modelled here.
Prunable(w) ==
    /\ w.stage \notin {"needs_adjudication", "reviewed_partial"}
    /\ \/ w.stage = "triaged"
       \/ w.verdict = "benign" /\ w.label \in {"none", "benign"}

Pruned == [r \in Releases |-> IF Prunable(row[r])
                               THEN [row[r] EXCEPT !.evidence = FALSE]
                               ELSE row[r]]

\* notifier.emit: at most one alert per dedupe key (INSERT OR IGNORE).
Emit(w, key) == [w EXCEPT !.sent = @ \cup {key}]

\* A row without a verdict gets a stand-in verdict that carries the label.
AdjudicateRow(w, label) ==
    [w EXCEPT !.label = label,
              !.verdict = IF @ = "none" THEN "unreviewed" ELSE @]

\* Mutation: the review input is not stored with the reason.
ParkReasonOnly(w, why, text) == SetPendingReason(w, why, FALSE)

\* _park: without a text (NoInput) the stored input is kept.
Park(w, why, text) == IF text = NoInput THEN SetPendingReason(w, why, FALSE)
                      ELSE ParkForReview(w, why, text)

-----------------------------------------------------------------------------
(* What a drain reads up front: one query, then one row after the other.   *)

Snapshot == [rid : Releases, reason : Reasons, gone : BOOLEAN,
             attempts : 0..AttemptsBound, chars : Nat \cup {NoInput}]

SnapshotOf(r) == [rid |-> r, reason |-> row[r].reason, gone |-> row[r].gone,
                  attempts |-> row[r].attempts, chars |-> row[r].chars]

\* pending_reviews: parked under one of these reasons, and no human label.
Parked(reasons) == {r \in Releases : /\ row[r].stage = "pending_review"
                                     /\ row[r].label = "none"
                                     /\ row[r].reason \in reasons}

\* A failed review that used up its attempts and has already warned.
Warned(r) == /\ row[r].reason = "review_failed"
             /\ row[r].attempts >= MaxAttempts
             /\ row[r].verdict # "none"

\* model_busy first, then by id.
Before(s, t) == \/ s.reason = "model_busy" /\ t.reason # "model_busy"
                \/ /\ (s.reason = "model_busy") = (t.reason = "model_busy")
                   /\ s.rid < t.rid

FirstRows(S, n) == {s \in S : Cardinality({t \in S : Before(t, s)}) < n}

\* Mutation: rows that have warned already still count for the limit.
AutoRowsWithWarned(cap) ==
    LET fitting == {r \in Parked({"too_large"}) : row[r].chars \in 0..cap}
    IN  FirstRows({SnapshotOf(r) : r \in Parked(AutoReasons)}, MaxPerTick)
          \cup FirstRows({SnapshotOf(r) : r \in fitting}, MaxPerTick)

AutoRows(cap) ==
    LET retried == {r \in Parked(AutoReasons) : ~Warned(r)}
        fitting == {r \in Parked({"too_large"}) : row[r].chars \in 0..cap}
    IN  FirstRows({SnapshotOf(r) : r \in retried}, MaxPerTick)
          \cup FirstRows({SnapshotOf(r) : r \in fitting}, MaxPerTick)

\* Mutation: `review-pending` takes every queued row, whatever its reason.
ManualPageOfAll(last) ==
    LET left == {r \in Parked(Reasons) : r > last}
    IN  {SnapshotOf(r) : r \in
            {r \in left : Cardinality({q \in left : q < r}) < PageSize}}

\* One page of the manual drain: the lowest ids above the last page's.
ManualPage(last) ==
    LET left == {r \in Parked(ManualReasons) : r > last}
    IN  {SnapshotOf(r) : r \in
            {r \in left : Cardinality({q \in left : q < r}) < PageSize}}

-----------------------------------------------------------------------------
(* Processes.                                                              *)

Places == {"idle", "page", "drain", "rebuild", "removed", "unwarn", "cleared",
           "evidence", "requeue", "scan", "queue", "admit", "slot", "model",
           "bump", "park", "unscan", "warnverdict", "warn",
           "clear", "verdict", "drop", "stage", "alert"}

Job == [todo : SUBSET Snapshot,     \* rows read and not yet handled
        last : Nat,                 \* the last id of the manual drain's page
        cap : Nat,                  \* this drain's input cap
        tried : Nat,                \* attempts of this tick's drain
        down : BOOLEAN,             \* PyPI unreachable or stalling
        mode : {"online", "offline", "off"},
        rid : Releases \cup {0},    \* the release in hand
        fresh : BOOLEAN,            \* it comes from the scan, not the queue
        was : Reasons \cup {NoReason},
        wasGone : BOOLEAN,          \* its reason and detail when it was read
        why : Reasons \cup {NoReason},
        text : Nat \cup {NoInput},  \* its review input
        spent : BOOLEAN,            \* its attempts are used up
        goOn : BOOLEAN,             \* the drain continues after it
        outcome : Outcomes \cup {"none"}]

Rest == [todo |-> {}, last |-> 0, cap |-> 0, tried |-> 0, down |-> FALSE,
         mode |-> "online", rid |-> 0, fresh |-> FALSE, was |-> NoReason,
         wasGone |-> FALSE, why |-> NoReason, text |-> NoInput,
         spent |-> FALSE, goOn |-> TRUE, outcome |-> "none"]

\* A label that alerts; "benign" does not.
Nobody == [rid |-> 0, label |-> "none"]
Labelled == [rid : Releases, label : {"suspicious", "malicious"}]

Init == /\ row = [r \in Releases |-> NewRow]
        /\ pc = [p \in Drains |-> "idle"]
        /\ job = [p \in Drains |-> Rest]
        /\ slot = "free"
        /\ person = Nobody
        /\ faults = 0
        /\ crashes = 0

Go(p, place) == pc' = [pc EXCEPT ![p] = place]
Keep(p, j) == job' = [job EXCEPT ![p] = j]
Write(p, w) == row' = [row EXCEPT ![job[p].rid] = w]
Mine(p) == row[job[p].rid]

\* The environment does something bad, at most MaxFaults times.
Fault == faults < MaxFaults /\ faults' = faults + 1

\* Hand back the release in j: the scan takes the next new one, a drain that
\* goes on its next row; a drain that stops ends the run of `review-pending`,
\* or hands over to the scan of the tick.
Done(p, j) ==
    LET away == [j EXCEPT !.rid = 0, !.fresh = FALSE, !.was = NoReason,
                          !.wasGone = FALSE, !.why = NoReason,
                          !.text = NoInput, !.spent = FALSE, !.goOn = TRUE,
                          !.outcome = "none"]
    IN  \/ /\ ~j.fresh /\ j.goOn
           /\ Go(p, "drain") /\ Keep(p, away)
        \/ /\ p = "tick" /\ (j.fresh \/ ~j.goOn)
           /\ Go(p, "scan") /\ Keep(p, [Rest EXCEPT !.mode = j.mode])
        \/ /\ p = "manual" /\ ~j.fresh /\ ~j.goOn
           /\ Go(p, "idle") /\ Keep(p, Rest)

-----------------------------------------------------------------------------
(* Starting a batch and walking its rows: run_once, review_pending,        *)
(* drain_pending, _drain_one.                                              *)

\* A tick whose endpoint answers drains the queue first.
TickDrains(p) ==
    /\ p = "tick" /\ pc[p] = "idle"
    /\ \E cap \in Caps[p] :
          Keep(p, [Rest EXCEPT !.cap = cap, !.todo = AutoRows(cap)])
    /\ Go(p, "drain")
    /\ UNCHANGED <<row, slot, person, faults, crashes>>

\* A tick with the reviewer switched off, or its endpoint down, only scans.
TickOnlyScans(p) ==
    /\ p = "tick" /\ pc[p] = "idle"
    /\ Fault
    /\ \E mode \in {"offline", "off"} : Keep(p, [Rest EXCEPT !.mode = mode])
    /\ Go(p, "scan")
    /\ UNCHANGED <<row, slot, person, crashes>>

StartManual(p) ==
    /\ p = "manual" /\ pc[p] = "idle"
    /\ \E cap \in Caps[p] : Keep(p, [Rest EXCEPT !.cap = cap])
    /\ Go(p, "page")
    /\ UNCHANGED <<row, slot, person, faults, crashes>>

NextPage(p) ==
    /\ pc[p] = "page"
    /\ LET page == ManualPage(job[p].last)
       IN  \/ /\ page = {}
              /\ Go(p, "idle") /\ Keep(p, Rest)
           \/ \E s \in page :
              /\ \A t \in page : t.rid <= s.rid
              /\ Go(p, "drain")
              /\ Keep(p, [job[p] EXCEPT !.todo = page, !.last = s.rid])
    /\ UNCHANGED <<row, slot, person, faults, crashes>>

\* No row left; or the tick's drain has used its limit or its time budget.
EndRows(p) ==
    /\ pc[p] = "drain"
    /\ \/ /\ p = "tick" /\ (job[p].todo = {} \/ job[p].tried > 0)
          /\ Go(p, "scan") /\ Keep(p, Rest)
       \/ /\ p = "manual" /\ job[p].todo = {}
          /\ Go(p, "page") /\ UNCHANGED job
    /\ UNCHANGED <<row, slot, person, faults, crashes>>

\* s is the row the drain handles now.
IsNext(p, s) ==
    /\ pc[p] = "drain"
    /\ s \in job[p].todo
    /\ \A t \in job[p].todo : t = s \/ Before(s, t)
    /\ p = "tick" => job[p].tried < MaxPerTick

Skip(p, s) == [job[p] EXCEPT !.todo = @ \ {s}]

Take(p, s) == [Skip(p, s) EXCEPT !.rid = s.rid, !.was = s.reason,
                                 !.wasGone = s.gone]

Try(p, s) == [Take(p, s) EXCEPT !.tried = IF p = "tick" THEN @ + 1 ELSE @]

\* The auto-drain warns about attempts used up without a warning so far (its
\* query leaves out the ones that have a verdict).
Exhausted(p, s) == /\ p = "tick" /\ s.reason = "review_failed"
                   /\ s.attempts >= MaxAttempts

WarnExhausted(p, s) ==
    /\ IsNext(p, s) /\ Exhausted(p, s)
    /\ Keep(p, Take(p, s))
    /\ Go(p, "warnverdict")
    /\ UNCHANGED <<row, slot, person, faults, crashes>>

\* NULL > cap raises: counted as a failed attempt, the stored input kept.
NullRow(p, s) ==
    /\ IsNext(p, s) /\ ~Exhausted(p, s)
    /\ s.chars = NoInput
    /\ Keep(p, Try(p, s))
    /\ Go(p, "bump")
    /\ UNCHANGED <<row, slot, person, faults, crashes>>

OversizedRow(p, s) ==
    /\ IsNext(p, s) /\ ~Exhausted(p, s)
    /\ s.chars > job[p].cap
    /\ Keep(p, Skip(p, s))
    /\ row' = IF p = "tick"
              THEN [row EXCEPT ![s.rid] = SetPendingReason(@, "too_large", FALSE)]
              ELSE row
    /\ UNCHANGED <<pc, slot, person, faults, crashes>>

\* A row queued without its input has to be downloaded and scanned again.
EmptyRow(p, s) ==
    /\ IsNext(p, s) /\ ~Exhausted(p, s)
    /\ s.chars = 0
    /\ \/ /\ job[p].down                            \* not while PyPI is down
          /\ Keep(p, Skip(p, s))
          /\ UNCHANGED <<row, pc, faults>>
       \/ /\ ~job[p].down /\ Fault                  \* the guard refuses
          /\ row' = [row EXCEPT ![s.rid] =
                        SetPendingReason(@, "model_busy", FALSE)]
          /\ Done(p, [Take(p, s) EXCEPT !.goOn = FALSE])
       \/ /\ ~job[p].down
          /\ Keep(p, Try(p, s))
          /\ Go(p, "rebuild")
          /\ UNCHANGED <<row, faults>>
    /\ UNCHANGED <<slot, person, crashes>>

\* The input is read now, not when the row was: if it is gone, or empty by now
\* (refresh_marker finds no marker), that counts as a failed attempt.
StoredRow(p, s) ==
    /\ IsNext(p, s) /\ ~Exhausted(p, s)
    /\ s.chars \in 1..job[p].cap
    /\ \/ /\ row[s.rid].chars > 0
          /\ Keep(p, [Try(p, s) EXCEPT !.text = row[s.rid].chars])
          /\ Go(p, "admit")
       \/ /\ row[s.rid].chars <= 0
          /\ Keep(p, Try(p, s))
          /\ Go(p, "bump")
    /\ UNCHANGED <<row, slot, person, faults, crashes>>

-----------------------------------------------------------------------------
(* One review attempt: _attempt_review, _review_failed, _park_auto.        *)

Admitted(p) ==
    /\ pc[p] = "admit"
    /\ Go(p, "slot")
    /\ UNCHANGED <<row, job, slot, person, faults, crashes>>

\* The guard refuses: breaker open, model degrading or memory short.
Refused(p) ==
    /\ pc[p] = "admit"
    /\ Fault
    /\ Keep(p, [job[p] EXCEPT !.why = "model_busy", !.goOn = FALSE])
    /\ Go(p, "park")
    /\ UNCHANGED <<row, slot, person, crashes>>

\* Mutation: nobody waits for the review lock.
EnterAnyway(p) ==
    /\ pc[p] = "slot"
    /\ slot' = p
    /\ Go(p, "model")
    /\ UNCHANGED <<row, job, person, faults, crashes>>

EnterSlot(p) ==
    /\ pc[p] = "slot"
    /\ slot = "free"
    /\ slot' = p
    /\ Go(p, "model")
    /\ UNCHANGED <<row, job, person, faults, crashes>>

Answer(p, outcome) ==
    /\ pc[p] = "model"
    /\ slot' = "free"
    /\ Keep(p, [job[p] EXCEPT !.outcome = outcome])
    /\ Go(p, "clear")
    /\ UNCHANGED <<row, person, faults, crashes>>

\* Connection refused: an outage, which spends no attempt.
EndpointDown(p) ==
    /\ pc[p] = "model"
    /\ Fault
    /\ slot' = "free"
    /\ Keep(p, [job[p] EXCEPT !.why = "endpoint_unreachable", !.goOn = FALSE])
    /\ Go(p, "park")
    /\ UNCHANGED <<row, person, crashes>>

\* A malformed reply, an error or a timeout; a timeout also opens the breaker.
ReviewFails(p, timeout) ==
    /\ pc[p] = "model"
    /\ slot' = "free"
    /\ Keep(p, [job[p] EXCEPT !.goOn = ~timeout])
    /\ Go(p, "bump")
    /\ UNCHANGED <<row, person, faults, crashes>>

\* Mutation: the last attempt but one counts as the last.
CountAttemptEarly(p) ==
    /\ pc[p] = "bump"
    /\ Write(p, BumpReviewAttempts(Mine(p)))
    /\ Keep(p, [job[p] EXCEPT !.why = "review_failed",
                              !.spent = row'[job[p].rid].attempts >= MaxAttempts - 1])
    /\ Go(p, "park")
    /\ UNCHANGED <<slot, person, faults, crashes>>

\* Mutation: a failed review is parked under the reason of an outage.
CountAttemptAsOutage(p) ==
    /\ pc[p] = "bump"
    /\ Write(p, BumpReviewAttempts(Mine(p)))
    /\ Keep(p, [job[p] EXCEPT !.why = "endpoint_unreachable",
                              !.spent = row'[job[p].rid].attempts >= MaxAttempts])
    /\ Go(p, "park")
    /\ UNCHANGED <<slot, person, faults, crashes>>

CountAttempt(p) ==
    /\ pc[p] = "bump"
    /\ Write(p, BumpReviewAttempts(Mine(p)))
    /\ Keep(p, [job[p] EXCEPT !.why = "review_failed",
                              !.spent = row'[job[p].rid].attempts >= MaxAttempts])
    /\ Go(p, "park")
    /\ UNCHANGED <<slot, person, faults, crashes>>

ParkAgain(p) ==
    /\ pc[p] = "park"
    /\ Write(p, Park(Mine(p), job[p].why, job[p].text))
    /\ Go(p, IF job[p].spent THEN "warnverdict" ELSE "unscan")
    /\ UNCHANGED <<job, slot, person, faults, crashes>>

\* The auto-drain owns the release now: a stale UNREVIEWED verdict goes.  A
\* release parked as in_review is then reviewed.
DropUnreviewed(p) ==
    /\ pc[p] = "unscan"
    /\ Write(p, ClearUnscannedVerdict(Mine(p)))
    /\ \/ /\ job[p].why = "in_review"
          /\ Go(p, "admit") /\ UNCHANGED job
       \/ /\ job[p].why # "in_review"
          /\ Done(p, job[p])
    /\ UNCHANGED <<slot, person, faults, crashes>>

\* _alert_review_exhausted: the UNREVIEWED verdict, then the alert.
WarnVerdict(p) ==
    /\ pc[p] = "warnverdict"
    /\ Write(p, RecordVerdict(Mine(p), "unreviewed"))
    /\ Go(p, "warn")
    /\ UNCHANGED <<job, slot, person, faults, crashes>>

Warn(p) ==
    /\ pc[p] = "warn"
    /\ Write(p, Emit(Mine(p), "unscanned:review_failed"))
    /\ Done(p, job[p])
    /\ UNCHANGED <<slot, person, faults, crashes>>

-----------------------------------------------------------------------------
(* Recording a model's answer: _record, commit by commit.                  *)

\* Mutation: an incomplete review is stored under a class of its own.
StoredRaw == [benign |-> "benign", partial |-> "partial", unsure |-> "partial",
              suspicious |-> "suspicious", no_content |-> "unreviewed",
              downgraded |-> "suspicious", malicious |-> "malicious"]

\* The classification stored for each outcome, the stage it leads to, and
\* the alert it sends ("malicious" before the stage, the others after it).
Stored == [benign |-> "benign", partial |-> "benign", unsure |-> "suspicious",
           suspicious |-> "suspicious", no_content |-> "unreviewed",
           downgraded |-> "suspicious", malicious |-> "malicious"]

StageOf == [benign |-> "reviewed", partial |-> "reviewed_partial",
            unsure |-> "reviewed_partial", suspicious |-> "needs_adjudication",
            no_content |-> "needs_adjudication",
            downgraded |-> "needs_adjudication", malicious |-> "reviewed"]

KeyOf == [no_content |-> "unscanned:no_content",
          downgraded |-> "suspicious|downgraded", malicious |-> "malicious"]

\* Mutation: the queue entry is kept until the verdict is in.
StayParked(p) ==
    /\ pc[p] = "clear"
    /\ Go(p, "verdict")
    /\ UNCHANGED <<row, job, slot, person, faults, crashes>>

Unpark(p) ==
    /\ pc[p] = "clear"
    /\ Write(p, ClearPending(Mine(p)))
    /\ Go(p, "verdict")
    /\ UNCHANGED <<job, slot, person, faults, crashes>>

\* Mutation: a malicious release is staged before it alerts.
StoreVerdictStageFirst(p) ==
    /\ pc[p] = "verdict"
    /\ Write(p, RecordVerdict(Mine(p), Stored[job[p].outcome]))
    /\ Go(p, IF job[p].outcome = "benign" THEN "drop" ELSE "stage")
    /\ UNCHANGED <<job, slot, person, faults, crashes>>

StoreVerdict(p) ==
    /\ pc[p] = "verdict"
    /\ Write(p, RecordVerdict(Mine(p), Stored[job[p].outcome]))
    /\ Go(p, CASE job[p].outcome = "benign"    -> "drop"
               [] job[p].outcome = "malicious" -> "alert"
               [] OTHER                        -> "stage")
    /\ UNCHANGED <<job, slot, person, faults, crashes>>

DropEvidence(p) ==
    /\ pc[p] = "drop"
    /\ Write(p, ClearEvidence(Mine(p)))
    /\ Go(p, "stage")
    /\ UNCHANGED <<job, slot, person, faults, crashes>>

SetStage(p) ==
    /\ pc[p] = "stage"
    /\ Write(p, UpdateStage(Mine(p), StageOf[job[p].outcome]))
    /\ \/ /\ job[p].outcome \in {"no_content", "downgraded"}
          /\ Go(p, "alert") /\ UNCHANGED job
       \/ /\ job[p].outcome \notin {"no_content", "downgraded"}
          /\ Done(p, job[p])
    /\ UNCHANGED <<slot, person, faults, crashes>>

Alert(p) ==
    /\ pc[p] = "alert"
    /\ Write(p, Emit(Mine(p), KeyOf[job[p].outcome]))
    /\ \/ /\ job[p].outcome = "malicious"
          /\ Go(p, "stage") /\ UNCHANGED job
       \/ /\ job[p].outcome # "malicious"
          /\ Done(p, job[p])
    /\ UNCHANGED <<slot, person, faults, crashes>>

-----------------------------------------------------------------------------
(* A release the scan escalates: the end of _process_fetched and           *)
(* _review_escalated.                                                      *)

Triage(p, r) ==
    /\ pc[p] = "scan"
    /\ row[r].stage = "new"
    /\ row' = [row EXCEPT ![r] =
                  [UpdateStage(@, "triaged") EXCEPT !.escalated = TRUE]]
    /\ Keep(p, [job[p] EXCEPT !.rid = r, !.fresh = TRUE])
    /\ Go(p, IF job[p].mode = "off" THEN "queue" ELSE "evidence")
    /\ UNCHANGED <<slot, person, faults, crashes>>

\* build_evidence renders the flagged code; without any there is no evidence.
StoreEvidence(p) ==
    /\ pc[p] = "evidence"
    /\ Write(p, IF job[p].rid \in Coded THEN UpdateEvidence(Mine(p)) ELSE Mine(p))
    /\ Go(p, IF job[p].fresh THEN "queue" ELSE "requeue")
    /\ UNCHANGED <<job, slot, person, faults, crashes>>

\* Reviewer off: queued with no input.
QueueDisabled(p) ==
    /\ pc[p] = "queue" /\ job[p].mode = "off"
    /\ Write(p, ParkForReview(Mine(p), "reviewer_disabled", 0))
    /\ Done(p, job[p])
    /\ UNCHANGED <<slot, person, faults, crashes>>

\* The input fits: queued before the model is called.
QueueFitting(p) ==
    /\ pc[p] = "queue" /\ job[p].mode # "off"
    /\ \E cap \in Caps[p] : Need[job[p].rid] <= cap
    /\ LET why == IF job[p].mode = "online" THEN "in_review"
                  ELSE "endpoint_unreachable"
           n   == Need[job[p].rid]
       IN  /\ Write(p, ParkForReview(Mine(p), why, n))
           /\ Keep(p, [job[p] EXCEPT !.why = why, !.text = n])
    /\ Go(p, "unscan")
    /\ UNCHANGED <<slot, person, faults, crashes>>

\* Mutation: an input over the cap is left at `triaged`.
LeaveTooLarge(p) ==
    /\ pc[p] = "queue" /\ job[p].mode # "off"
    /\ \E cap \in Caps[p] : Need[job[p].rid] > cap
    /\ Done(p, job[p])
    /\ UNCHANGED <<row, slot, person, faults, crashes>>

QueueTooLarge(p) ==
    /\ pc[p] = "queue" /\ job[p].mode # "off"
    /\ \E cap \in Caps[p] : Need[job[p].rid] > cap
    /\ Write(p, ParkForReview(Mine(p), "too_large", Need[job[p].rid]))
    /\ Done(p, job[p])
    /\ UNCHANGED <<slot, person, faults, crashes>>

\* Preparing the input raised: parked as a failed review.
QueueRaises(p) ==
    /\ pc[p] = "queue" /\ job[p].mode # "off"
    /\ Keep(p, [job[p] EXCEPT !.text = Need[job[p].rid]])
    /\ Go(p, "bump")
    /\ UNCHANGED <<row, slot, person, faults, crashes>>

\* A tick that finds the last prune a day old prunes before it ends.
EndTick(p) ==
    /\ pc[p] = "scan"
    /\ Go(p, "idle")
    /\ Keep(p, Rest)
    /\ row' \in {row, Pruned}
    /\ UNCHANGED <<slot, person, faults, crashes>>

-----------------------------------------------------------------------------
(* Downloading and scanning a queued release again: _rebuild_review_input, *)
(* _rebuild_removed.                                                       *)

RebuildUnreachable(p) ==
    /\ pc[p] = "rebuild"
    /\ Fault
    /\ Write(p, SetPendingReason(Mine(p), job[p].was, FALSE))
    /\ Done(p, [job[p] EXCEPT !.down = TRUE])
    /\ UNCHANGED <<slot, person, crashes>>

RebuildFails(p, timeout) ==
    /\ pc[p] = "rebuild"
    /\ Keep(p, [job[p] EXCEPT !.text = 0, !.down = @ \/ timeout])
    /\ Go(p, "bump")
    /\ UNCHANGED <<row, slot, person, faults, crashes>>

\* PyPI no longer serves it: noted once, and re-checked once it is due.
RebuildMissing(p) ==
    /\ pc[p] = "rebuild"
    /\ \/ /\ ~job[p].wasGone
          /\ Write(p, SetPendingReason(Mine(p), job[p].was, TRUE))
          /\ Done(p, job[p])
          /\ UNCHANGED faults
       \/ /\ job[p].wasGone /\ Fault                \* not due yet
          /\ Done(p, job[p])
          /\ UNCHANGED row
       \/ /\ job[p].wasGone
          /\ Write(p, ClearPending(Mine(p)))
          /\ Go(p, "removed") /\ UNCHANGED <<job, faults>>
    /\ UNCHANGED <<slot, person, crashes>>

RecordRemoved(p) ==
    /\ pc[p] = "removed"
    /\ Write(p, UpdateStage(Mine(p), "removed_before_scan"))
    /\ Done(p, job[p])
    /\ UNCHANGED <<slot, person, faults, crashes>>

\* The current rules do not escalate it: three commits take it off the queue.
RebuildClears(p) ==
    /\ pc[p] = "rebuild"
    /\ Write(p, ClearPending(Mine(p)))
    /\ Go(p, "unwarn")
    /\ UNCHANGED <<job, slot, person, faults, crashes>>

ClearedVerdict(p) ==
    /\ pc[p] = "unwarn"
    /\ Write(p, ClearUnscannedVerdict(Mine(p)))
    /\ Go(p, "cleared")
    /\ UNCHANGED <<job, slot, person, faults, crashes>>

ClearedStage(p) ==
    /\ pc[p] = "cleared"
    /\ Write(p, [UpdateStage(Mine(p), "triaged") EXCEPT !.escalated = FALSE])
    /\ Done(p, job[p])
    /\ UNCHANGED <<slot, person, faults, crashes>>

RebuildEscalates(p) ==
    /\ pc[p] = "rebuild"
    /\ Write(p, [UpdateStage(Mine(p), "pending_review") EXCEPT
                    !.escalated = TRUE])
    /\ Go(p, "evidence")
    /\ UNCHANGED <<job, slot, person, faults, crashes>>

Requeue(p) ==
    /\ pc[p] = "requeue"
    /\ LET n == Need[job[p].rid]
       IN  \/ /\ n > job[p].cap
              /\ Write(p, ParkForReview(Mine(p), "too_large", n))
              /\ Done(p, job[p])
           \/ /\ n <= job[p].cap
              /\ Write(p, ParkForReview(Mine(p), "in_review", n))
              /\ Keep(p, [job[p] EXCEPT !.why = "in_review", !.text = n])
              /\ Go(p, "unscan")
    /\ UNCHANGED <<slot, person, faults, crashes>>

-----------------------------------------------------------------------------
(* The person who adjudicates, and the operator who kills a process.       *)

Adjudicate(r, label) ==
    /\ person = Nobody
    /\ row[r].stage # "new"
    /\ row' = [row EXCEPT ![r] = AdjudicateRow(@, label)]
    /\ person' = IF label = "benign" THEN Nobody ELSE [rid |-> r, label |-> label]
    /\ UNCHANGED <<pc, job, slot, faults, crashes>>

AdjudicationAlert ==
    /\ person # Nobody
    /\ row' = [row EXCEPT ![person.rid] = Emit(@, person.label)]
    /\ person' = Nobody
    /\ UNCHANGED <<pc, job, slot, faults, crashes>>

\* `pydiffwatch prune` takes no lock.
Prune ==
    /\ PrunedByHand
    /\ row' = Pruned
    /\ UNCHANGED <<pc, job, slot, person, faults, crashes>>

\* The rows stay as committed, the file lock is freed by the system.
Kill(p) ==
    /\ pc[p] # "idle"
    /\ crashes < MaxCrashes
    /\ crashes' = crashes + 1
    /\ slot' = IF slot = p THEN "free" ELSE slot
    /\ Go(p, "idle")
    /\ Keep(p, Rest)
    /\ UNCHANGED <<row, person, faults>>

-----------------------------------------------------------------------------

WalkRows(p) ==
    \/ TickDrains(p) \/ TickOnlyScans(p) \/ StartManual(p) \/ NextPage(p)
    \/ EndRows(p)
    \/ \E s \in job[p].todo :
          \/ WarnExhausted(p, s) \/ NullRow(p, s) \/ OversizedRow(p, s)
          \/ EmptyRow(p, s) \/ StoredRow(p, s)

AttemptReview(p) ==
    \/ Admitted(p) \/ Refused(p) \/ EnterSlot(p)
    \/ \E outcome \in Outcomes : Answer(p, outcome)
    \/ EndpointDown(p)
    \/ \E timeout \in BOOLEAN : ReviewFails(p, timeout)
    \/ CountAttempt(p) \/ ParkAgain(p) \/ DropUnreviewed(p)
    \/ WarnVerdict(p) \/ Warn(p)

Record(p) ==
    Unpark(p) \/ StoreVerdict(p) \/ DropEvidence(p) \/ SetStage(p) \/ Alert(p)

Scan(p) ==
    \/ \E r \in Releases : Triage(p, r)
    \/ StoreEvidence(p) \/ QueueDisabled(p) \/ QueueFitting(p)
    \/ QueueTooLarge(p) \/ QueueRaises(p) \/ EndTick(p)

Rebuild(p) ==
    \/ RebuildUnreachable(p)
    \/ \E timeout \in BOOLEAN : RebuildFails(p, timeout)
    \/ RebuildMissing(p) \/ RecordRemoved(p)
    \/ RebuildClears(p) \/ ClearedVerdict(p) \/ ClearedStage(p)
    \/ RebuildEscalates(p) \/ Requeue(p)

Step(p) == WalkRows(p) \/ AttemptReview(p) \/ Record(p) \/ Scan(p) \/ Rebuild(p)

Person == \/ \E r \in Releases, label \in Labels : Adjudicate(r, label)
          \/ AdjudicationAlert
          \/ Prune

Next == \/ \E p \in Drains : Step(p) \/ Kill(p)
        \/ Person

Spec == Init /\ [][Next]_vars

\* cron or watch starts the next tick, a started process keeps running, and a
\* model call ends: every request has a timeout.
FairSpec == Spec /\ \A p \in Drains : WF_vars(Step(p))

-----------------------------------------------------------------------------
(* Properties.                                                             *)

TypeOK == /\ row \in [Releases -> Row]
          /\ pc \in [Drains -> Places]
          /\ job \in [Drains -> Job]
          /\ slot \in Drains \cup {"free"}
          /\ person \in {Nobody} \cup Labelled
          /\ faults \in 0..MaxFaults
          /\ crashes \in 0..MaxCrashes

\* A running process has the release in hand.
InHand(r) == \E p \in Drains : job[p].rid = r

\* `pydiffwatch pending` lists it: pending_adjudication.
InPending(r) ==
    /\ row[r].label = "none"
    /\ \/ row[r].stage \in {"needs_adjudication", "reviewed_partial"}
       \/ row[r].stage = "pending_review" /\ row[r].verdict = "unreviewed"

Settled(r) == \/ row[r].stage \in {"reviewed", "removed_before_scan"}
              \/ row[r].stage = "triaged" /\ ~row[r].escalated

\* The review lock (_review_slot): `review-pending` and the watch loop never
\* have requests at the endpoint at the same time, whoever is killed when.
OneAtTheModel ==
    \A p, q \in Drains : pc[p] = "model" /\ pc[q] = "model" => p = q

\* park_for_review: a queued release keeps its review input until a verdict
\* lands, so that its review does not depend on PyPI.
QueuedHasInput ==
    \A r \in Releases :
        row[r].stage = "pending_review" /\ row[r].reason # NoReason
            => row[r].chars # NoInput

\* A release triage escalated is never dropped ("never silently dropped",
\* GETTING-STARTED.md): at any time a process works on it, it waits under a
\* reason a drain takes, it waits for a person, a person has labelled it, or
\* it is settled.
NothingDropped ==
    \A r \in Releases :
        row[r].stage # "new" =>
            \/ Settled(r) \/ InPending(r) \/ InHand(r)
            \/ row[r].label # "none"
            \/ row[r].stage = "pending_review" /\ row[r].reason \in Reasons

\* What a model concluded is final for the machine: no later drain, failed
\* attempt or exhaustion warning replaces it (clear_unscanned_verdict and
\* _review_failed only ever touch a release without a model's verdict).
VerdictFinal ==
    [][\A r \in Releases : row[r].verdict \in ModelClasses
                               => row'[r].verdict = row[r].verdict]_vars

\* _record routes and alerts by the stored classification: a machine's alert
\* has the verdict it reports behind it, and a release settled as malicious
\* has alerted.
AlertsMatchVerdicts ==
    \A r \in Releases :
        /\ "malicious" \in row[r].sent
              => row[r].verdict = "malicious" \/ row[r].label # "none"
        /\ "suspicious|downgraded" \in row[r].sent
              => row[r].verdict = "suspicious" \/ row[r].label # "none"
        /\ row[r].stage = "reviewed" /\ row[r].verdict = "malicious"
              => "malicious" \in row[r].sent

\* As long as nothing was killed: a queued release that `pending` shows as not
\* scanned has used up its review attempts and has alerted about it
\* (_review_failed), and without `review-pending` none is given more of them.
UnreviewedWarned ==
    crashes = 0 => \A r \in Releases :
        LET said == /\ row[r].stage = "pending_review" /\ row[r].verdict = "unreviewed"
                    /\ row[r].label = "none" /\ ~InHand(r)
        IN  /\ Drains = {"tick"} => row[r].attempts <= MaxAttempts
            /\ said => /\ row[r].attempts >= MaxAttempts
                       /\ "unscanned:review_failed" \in row[r].sent

\* Whatever `pending` asks a person to judge after a model has seen it comes
\* with the flagged code, if triage flagged any (_record keeps the evidence
\* "only where a person may act").
EvidenceForPerson ==
    \A r \in Coded :
        row[r].stage \in {"needs_adjudication", "reviewed_partial"}
            => row[r].evidence

\* A person's word is final (UNLABELLED in store.py): once given, the label
\* and its verdict row stay, and no review, not even one that was already at
\* the model, drops the evidence again (prune still may, where nobody needs it).
AdjudicationKept ==
    [][\A r \in Releases :
          row[r].label # "none" =>
              /\ row'[r].label # "none" /\ row'[r].verdict # "none"
              /\ row[r].evidence => row'[r].evidence \/ Prunable(row[r])]_vars

\* Every release queued for a reason the auto-drain retries leaves the queue,
\* is found too large, or waits for a person with its attempts used up:
\* neither outages nor the per-tick limit starve it (a kill may: NothingDropped).
QueueDrains ==
    \A r \in Releases :
        (row[r].stage = "pending_review" /\ row[r].reason \in AutoReasons)
            ~> \/ row[r].stage # "pending_review"
               \/ row[r].reason = "too_large"
               \/ InPending(r) \/ crashes > 0

-----------------------------------------------------------------------------
(* The queue implements ReleaseOutcome.  A row counts as judged when its    *)
(* stage says so, not when the verdict is stored: that is one commit before. *)

PlaceOf(r) ==
    CASE row[r].stage = "new"                                -> "unseen"
      [] Settled(r)                                          -> "closed"
      [] row[r].stage \in {"needs_adjudication",
                           "reviewed_partial"}               -> "person"
      [] /\ row[r].stage = "pending_review"
         /\ row[r].verdict = "unreviewed"                    -> "person"
      [] OTHER                                               -> "queue"

AnswerOf(r) ==
    IF /\ row[r].stage \in {"reviewed", "reviewed_partial", "needs_adjudication"}
       /\ row[r].verdict \in ModelClasses
    THEN row[r].verdict ELSE "none"

Outcome == INSTANCE ReleaseOutcome WITH
    place <- [r \in Releases |-> PlaceOf(r)],
    answer <- [r \in Releases |-> AnswerOf(r)],
    alarmed <- {r \in Releases : "malicious" \in row[r].sent}

\* One drain at a time, killed anywhere, implements the abstract life of a
\* release: a model's answer and a closed release are final, and a release is
\* closed as malicious only after its alert.
ImplementsOutcome == Outcome!Spec

=============================================================================
