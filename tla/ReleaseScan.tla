------------------------------ MODULE ReleaseScan ------------------------------
(***************************************************************************)
(* The stages of a release from the poll that lists it to the stage that   *)
(* settles it or hands it to the review queue: _process_fetched and the    *)
(* retry sweep of pydiffwatch's tick.  The scan lock keeps two ticks apart, *)
(* so there is one process; it may be killed between any two commits, and  *)
(* then the cursor does not move and the next tick polls from where the    *)
(* last finished one stopped.                                              *)
(*                                                                         *)
(* PyPI serves a release with or without its sdist, adds the sdist later,  *)
(* removes the release, and may serve a stale JSON.  A release stands for  *)
(* its project: one release of the project that matters, in serial order.  *)
(***************************************************************************)
EXTENDS Integers, FiniteSets

CONSTANTS
    Releases,       \* ids, in the order of their serials
    Switched,       \* the releases whose predecessor shipped an sdist
    Removable,      \* the releases PyPI may remove
    Attempts,       \* store.METADATA_ATTEMPTS
    SweepLimit,     \* rows of each kind a sweep reads
    MaxUpsets       \* bound: ticks killed, stale copies served, index failures,
                    \* cut sweeps, changes of a project that concern another release

ASSUME ReleasesAssumption == Releases \subseteq Nat \ {0}
ASSUME SwitchedAssumption == Switched \subseteq Releases
ASSUME RemovableAssumption == Removable \subseteq Releases
ASSUME AttemptsAssumption == Attempts \in Nat \ {0}
ASSUME BoundsAssumption == /\ SweepLimit \in Nat \ {0}
                           /\ MaxUpsets \in Nat

VARIABLES
    pypi,       \* how PyPI serves each release
    changed,    \* the projects with a serial above the cursor
    polled,     \* the ones the tick that runs has listed
    row,        \* the releases table
    pc,         \* where the tick is
    job,        \* its local variables
    faults, crashes

vars == <<pypi, changed, polled, row, pc, job, faults, crashes>>

-----------------------------------------------------------------------------
(* Rows.                                                                   *)

\* "queued" stands for every stage the review queue gives a release.
Terminal == {"triaged", "queued", "new_package_skipped", "refused_to_extract",
             "refused_to_fetch", "removed_before_scan", "metadata_retry",
             "gave_up", "no_sdist", "no_sdist_wait"}
Stages == Terminal \cup {"none", "ingested", "diffed"}
WheelOnly == {"no_sdist", "no_sdist_wait"}

\* The outcomes that leave a release unscanned, each with its own alert.
Unscanned == {"refused_to_fetch", "refused_to_extract", "gave_up", "no_sdist"}

Row == [stage : Stages,
        tries : 0..Attempts,                    \* fetch_attempts
        recheck : {"none", "later", "past"},    \* recheck_at, against the clock
        unreviewed : BOOLEAN,                   \* it has the UNREVIEWED verdict
        sent : SUBSET Unscanned]                \* its alerts

NewRow == [stage |-> "none", tries |-> 0, recheck |-> "none",
           unreviewed |-> FALSE, sent |-> {}]

UpdateStage(w, stage) == [w EXCEPT !.stage = stage]

RecordRelease(w) == IF w.stage = "none" THEN UpdateStage(w, "ingested") ELSE w

\* Mutation: one attempt more than METADATA_ATTEMPTS.
NoteFailureLate(w) ==
    LET n == w.tries + 1
    IN  [w EXCEPT !.tries = n,
                  !.stage = IF n > Attempts THEN "gave_up"
                            ELSE "metadata_retry"]

\* note_metadata_failure: the count and the stage in one commit.
NoteFailure(w) ==
    LET n == w.tries + 1
    IN  [w EXCEPT !.tries = n,
                  !.stage = IF n >= Attempts THEN "gave_up"
                            ELSE "metadata_retry"]

ClearFailures(w) == [w EXCEPT !.tries = 0]

WaitForSdist(w) == [w EXCEPT !.stage = "no_sdist_wait", !.recheck = "later"]

-----------------------------------------------------------------------------
(* What a tick goes through: the rows of the sweep, then the listed ones.  *)

Kinds == {"wait", "retry", "new", "sdist"}
Item == [rid : Releases, kind : Kinds, tries : 0..Attempts]
ItemOf(r, kind) == [rid |-> r, kind |-> kind, tries |-> row[r].tries]

\* Waits first, then the most tried retries, then by serial.
Before(s, t) ==
    \/ s.kind = "wait" /\ t.kind # "wait"
    \/ /\ (s.kind = "wait") = (t.kind = "wait")
       /\ \/ s.kind = "retry" /\ s.tries > t.tries
          \/ (s.kind = "retry" => s.tries = t.tries) /\ s.rid < t.rid

FirstItems(S) == {s \in S : Cardinality({t \in S : Before(t, s)}) < SweepLimit}

\* metadata_retries_due
DueRows ==
    FirstItems({ItemOf(r, "wait") : r \in
        {r \in Releases : row[r].stage = "no_sdist_wait"
                            /\ row[r].recheck = "past"}})
      \cup FirstItems({ItemOf(r, "retry") : r \in
        {r \in Releases : row[r].stage = "metadata_retry"}})

\* Mutation: a release left at `ingested` or `diffed` is not listed again.
ListedOnce ==
    LET served == {r \in changed : pypi[r] # "gone"}
    IN  {ItemOf(r, "new") : r \in {r \in served : row[r].stage = "none"}}
          \cup {ItemOf(r, "sdist") : r \in
                 {r \in served : row[r].stage \in WheelOnly /\ pypi[r] = "sdist"}}

\* Mutation: a late sdist is not an event.
ListedUnlessWheels ==
    LET served == {r \in changed : pypi[r] # "gone"}
    IN  {ItemOf(r, "new") : r \in {r \in served : row[r].stage \notin Terminal}}

\* _new_versions over the changed projects, and _to_fetch: unseen releases,
\* ones left at a stage that is not terminal, and the late sdists.
Listed ==
    LET served == {r \in changed : pypi[r] # "gone"}
    IN  {ItemOf(r, "new") : r \in {r \in served : row[r].stage \notin Terminal}}
          \cup {ItemOf(r, "sdist") : r \in
                 {r \in served : row[r].stage \in WheelOnly /\ pypi[r] = "sdist"}}

Places == {"idle", "sweep", "poll", "list",     \* between two releases
           "unwarn", "map", "nosdist", "diffed", "triaged", "clear",
           "verdict", "alert"}                  \* with one in hand

Job == [todo : SUBSET Item,
        rid : Releases \cup {0},
        kind : Kinds \cup {"none"},
        was : Stages,               \* its stage when it was taken up
        sweeping : BOOLEAN]

Rest == [todo |-> {}, rid |-> 0, kind |-> "none", was |-> "none",
         sweeping |-> FALSE]

Init == /\ pypi = [r \in Releases |-> "unpublished"]
        /\ changed = {} /\ polled = {}
        /\ row = [r \in Releases |-> NewRow]
        /\ pc = "idle"
        /\ job = Rest
        /\ faults = 0 /\ crashes = 0

Fault == faults + crashes < MaxUpsets /\ faults' = faults + 1

-----------------------------------------------------------------------------
(* PyPI and the clock.                                                     *)

\* A new release, an sdist uploaded after the wheels, a removal.
Serve(r, from, to) ==
    /\ pypi[r] = from
    /\ \A q \in Releases : q < r => pypi[q] # "unpublished"
    /\ pypi' = [pypi EXCEPT ![r] = to]
    /\ changed' = changed \cup {r}
    /\ UNCHANGED <<polled, row, pc, job, faults, crashes>>

Touch(r) ==
    /\ pypi[r] \in {"wheels", "sdist"} /\ r \notin changed
    /\ Fault
    /\ changed' = changed \cup {r}
    /\ UNCHANGED <<pypi, polled, row, pc, job, crashes>>

GraceEnds(r) ==
    /\ row[r].recheck = "later"
    /\ row' = [row EXCEPT ![r].recheck = "past"]
    /\ UNCHANGED <<pypi, changed, polled, pc, job, faults, crashes>>

PyPI == \E r \in Releases :
    \/ Serve(r, "unpublished", "wheels") \/ Serve(r, "unpublished", "sdist")
    \/ Serve(r, "wheels", "sdist")
    \/ r \in Removable /\ (Serve(r, "wheels", "gone") \/ Serve(r, "sdist", "gone"))
    \/ Touch(r)

-----------------------------------------------------------------------------
(* The tick: run_once, _retry_metadata.                                    *)

StartTick ==
    /\ pc = "idle"
    /\ pc' = "sweep"
    /\ job' = [Rest EXCEPT !.todo = DueRows, !.sweeping = TRUE]
    /\ UNCHANGED <<pypi, changed, polled, row, faults, crashes>>

\* All rows swept, or the sweep's time budget is spent.
EndSweep ==
    /\ pc = "sweep"
    /\ \/ job.todo = {} /\ UNCHANGED faults
       \/ job.todo # {} /\ Fault
    /\ pc' = "poll"
    /\ job' = Rest
    /\ UNCHANGED <<pypi, changed, polled, row, crashes>>

Poll ==
    /\ pc = "poll"
    /\ pc' = "list"
    /\ job' = [Rest EXCEPT !.todo = Listed]
    /\ polled' = changed
    /\ changed' = {}
    /\ UNCHANGED <<pypi, row, faults, crashes>>

\* The index could not be read: the cursor stays.
PollFails ==
    /\ pc = "poll"
    /\ Fault
    /\ pc' = "idle"
    /\ UNCHANGED <<pypi, changed, polled, row, job, crashes>>

\* Every listed release is terminal: the cursor passes their projects.
EndTick ==
    /\ pc = "list" /\ job.todo = {}
    /\ pc' = "idle"
    /\ job' = Rest
    /\ polled' = {}
    /\ UNCHANGED <<pypi, changed, row, faults, crashes>>

\* The rows stay as committed and the cursor stays below what was polled.
Kill ==
    /\ pc # "idle"
    /\ faults + crashes < MaxUpsets
    /\ crashes' = crashes + 1
    /\ pc' = "idle"
    /\ job' = Rest
    /\ changed' = changed \cup polled
    /\ polled' = {}
    /\ UNCHANGED <<pypi, row, faults>>

-----------------------------------------------------------------------------
(* One release: _process_fetched, commit by commit.                        *)

\* What the tick's own steps leave alone.
Outside == <<pypi, changed, polled, crashes>>

Mine == row[job.rid]
Write(w) == row' = [row EXCEPT ![job.rid] = w]
Go(place) == pc' = place /\ UNCHANGED job

\* The tick turns to the next release.
Done == /\ pc' = IF job.sweeping THEN "sweep" ELSE "list"
        /\ job' = [job EXCEPT !.rid = 0, !.kind = "none", !.was = "none"]

TakeUp(s) ==
    /\ pc \in {"sweep", "list"}
    /\ \A t \in job.todo : t = s \/ Before(s, t)
    /\ row' = [row EXCEPT ![s.rid] = RecordRelease(@)]
    /\ job' = [job EXCEPT !.todo = @ \ {s}, !.rid = s.rid, !.kind = s.kind,
                          !.was = row'[s.rid].stage]
    /\ pc' = IF row'[s.rid].stage = "no_sdist" THEN "unwarn" ELSE "map"
    /\ UNCHANGED <<Outside, faults>>

\* A switch that was warned about is looked at again: the warning goes.
DropSwitchWarning ==
    /\ pc = "unwarn"
    /\ Write([Mine EXCEPT !.unreviewed = FALSE])
    /\ Go("map")
    /\ UNCHANGED <<Outside, faults>>

\* Over-size or quarantined; an archive that must not be unpacked.
Refuse(stage) ==
    /\ pc = "map"
    /\ stage = "refused_to_extract" => pypi[job.rid] \in {"sdist", "gone"}
    /\ Write(UpdateStage(Mine, stage))
    /\ Go("verdict")
    /\ UNCHANGED <<Outside, faults>>

\* PyPI serves it no more, or a JSON that lags says so.
SeenGone == \/ pypi[job.rid] = "gone" /\ UNCHANGED faults
            \/ pypi[job.rid] # "gone" /\ Fault

\* Mutation: the re-check time is compared the wrong way round.
DueReversed(stages) == job.was \in stages /\ Mine.recheck = "later"

Due(stages) == job.was \in stages /\ Mine.recheck = "past"

\* Mutation: a re-check time that is over counts whatever the stage.
RemovedStale ==
    /\ pc = "map"
    /\ SeenGone
    /\ \/ Mine.recheck = "past" /\ Write(UpdateStage(Mine, "removed_before_scan"))
       \/ /\ Mine.recheck # "past"
          /\ Write(IF job.was = "no_sdist_wait" THEN Mine ELSE WaitForSdist(Mine))
    /\ Done
    /\ UNCHANGED Outside

\* A removal is confirmed at one re-check before it is recorded.
Removed ==
    /\ pc = "map"
    /\ SeenGone
    /\ \/ /\ Due({"no_sdist_wait"})
          /\ Write(UpdateStage(Mine, "removed_before_scan"))
       \/ /\ ~Due({"no_sdist_wait"})
          /\ Write(IF job.was = "no_sdist_wait" THEN Mine ELSE WaitForSdist(Mine))
    /\ Done
    /\ UNCHANGED Outside

\* _retry_later, from the stage the failure finds: the download or the scan
\* failed, or rendering the evidence of an escalated release raised.
Fails ==
    /\ pc \in {"map", "triaged"}
    /\ Write(NoteFailure(Mine))
    /\ \/ row'[job.rid].stage = "gave_up" /\ Go("verdict")
       \/ row'[job.rid].stage = "metadata_retry" /\ Done
    /\ UNCHANGED <<Outside, faults>>

\* No sdist: the fetch itself succeeded.
SeenWheels ==
    /\ pc = "map"
    /\ \/ pypi[job.rid] = "wheels" /\ UNCHANGED faults
       \/ pypi[job.rid] = "sdist" /\ Fault
    /\ Write(ClearFailures(Mine))
    /\ Go("nosdist")
    /\ UNCHANGED Outside

\* A switch to wheels only, or an sdist the JSON does not show yet, waits once.
AwaitSdist ==
    /\ pc = "nosdist"
    /\ job.rid \in Switched \/ job.kind = "sdist"
    /\ ~Due({"no_sdist_wait", "metadata_retry"})
    /\ Write(IF job.was = "no_sdist_wait" THEN Mine ELSE WaitForSdist(Mine))
    /\ Done
    /\ UNCHANGED <<Outside, faults>>

\* Only a switch warns; a package that was always wheel-only is silent.
SettleNoSdist ==
    /\ pc = "nosdist"
    /\ \/ job.rid \notin Switched /\ job.kind # "sdist"
       \/ Due({"no_sdist_wait", "metadata_retry"})
    /\ Write(UpdateStage(Mine, "no_sdist"))
    /\ IF job.rid \in Switched THEN Go("verdict") ELSE Done
    /\ UNCHANGED <<Outside, faults>>

SkipNewPackage ==
    /\ pc = "map" /\ pypi[job.rid] = "sdist"
    /\ job.rid \notin Switched
    /\ Write(UpdateStage(Mine, "new_package_skipped"))
    /\ Done
    /\ UNCHANGED <<Outside, faults>>

\* Downloaded, unpacked, diffed and triaged: two commits.
Diff ==
    /\ pc = "map" /\ pypi[job.rid] = "sdist"
    /\ Write(UpdateStage(Mine, "diffed"))
    /\ Go("diffed")
    /\ UNCHANGED <<Outside, faults>>

Triage(escalate) ==
    /\ pc = "diffed"
    /\ Write(UpdateStage(Mine, "triaged"))
    /\ Go(IF escalate THEN "triaged" ELSE "clear")
    /\ UNCHANGED <<Outside, faults>>

\* The review queue takes over (_review_escalated); see ReviewQueue.
HandOver ==
    /\ pc = "triaged"
    /\ Write(UpdateStage(Mine, "queued"))
    /\ Go("clear")
    /\ UNCHANGED <<Outside, faults>>

Succeed ==
    /\ pc = "clear"
    /\ Write(ClearFailures(Mine))
    /\ Done
    /\ UNCHANGED <<Outside, faults>>

\* _alert_unscanned: the UNREVIEWED verdict, then the alert.
RecordUnscanned ==
    /\ pc = "verdict"
    /\ Write([Mine EXCEPT !.unreviewed = TRUE])
    /\ Go("alert")
    /\ UNCHANGED <<Outside, faults>>

\* Mutation: no alert for a refusal.
AlertFailuresOnly ==
    /\ pc = "alert"
    /\ Write([Mine EXCEPT !.sent = @ \cup ({Mine.stage} \cap {"gave_up", "no_sdist"})])
    /\ Done
    /\ UNCHANGED <<Outside, faults>>

AlertUnscanned ==
    /\ pc = "alert"
    /\ Write([Mine EXCEPT !.sent = @ \cup {Mine.stage}])
    /\ Done
    /\ UNCHANGED <<Outside, faults>>

-----------------------------------------------------------------------------

Process ==
    \/ \E s \in job.todo : TakeUp(s)
    \/ DropSwitchWarning
    \/ \E stage \in {"refused_to_fetch", "refused_to_extract"} : Refuse(stage)
    \/ Removed \/ Fails \/ SeenWheels \/ AwaitSdist \/ SettleNoSdist
    \/ SkipNewPackage \/ Diff
    \/ \E escalate \in BOOLEAN : Triage(escalate)
    \/ HandOver \/ Succeed \/ RecordUnscanned \/ AlertUnscanned

Tick == StartTick \/ EndSweep \/ Poll \/ PollFails \/ EndTick \/ Process

Next == \/ PyPI
        \/ \E r \in Releases : GraceEnds(r)
        \/ Tick
        \/ Kill

Spec == Init /\ [][Next]_vars

\* Ticks are started for ever (cron or watch), a running one goes on (every
\* download has a deadline), and time passes.
FairSpec == /\ Spec
            /\ WF_vars(Tick)
            /\ \A r \in Releases : WF_vars(GraceEnds(r))

-----------------------------------------------------------------------------
(* Properties.                                                             *)

TypeOK == /\ pypi \in [Releases -> {"unpublished", "wheels", "sdist", "gone"}]
          /\ changed \subseteq Releases /\ polled \subseteq Releases
          /\ row \in [Releases -> Row]
          /\ pc \in Places
          /\ job \in Job
          /\ faults \in 0..MaxUpsets
          /\ crashes \in 0..MaxUpsets

Seen(r) == row[r].stage # "none"
InHand(r) == job.rid = r

\* Every release that is not at a terminal stage is one the running tick has
\* in hand or one the next poll lists again, as long as PyPI serves it: a kill
\* loses none.
NeverForgotten ==
    \A r \in Releases :
        Seen(r) /\ row[r].stage \notin Terminal
            => InHand(r) \/ r \in changed \cup polled \/ pypi[r] = "gone"

\* The same, but for a release killed at `diffed`: one that only the sweep
\* knows of by then is behind the cursor (NeverForgotten is refuted).
IngestedRevisited ==
    \A r \in Releases :
        \/ row[r].stage = "ingested"
        \/ row[r].stage = "diffed" /\ crashes = 0
        => InHand(r) \/ r \in changed \cup polled \/ pypi[r] = "gone"

\* As long as no tick was killed: a release left unscanned has alerted and
\* waits for a person with its UNREVIEWED verdict (_alert_unscanned); a package
\* that was always wheel-only does neither.  None is given up on with more or fewer
\* than METADATA_ATTEMPTS failures counted since a fetch last succeeded.
UnscannedReported ==
    \A r \in Releases :
        /\ row[r].stage = "gave_up" => row[r].tries = Attempts
        /\ crashes = 0 /\ row[r].stage \in Unscanned /\ ~InHand(r) =>
              LET loud == row[r].stage # "no_sdist" \/ r \in Switched
              IN  /\ row[r].unreviewed = loud
                  /\ loud => row[r].stage \in row[r].sent

\* No release is called removed, and no switch to wheels is warned about, at the
\* first look: a grace period the release itself entered has ended before.  A
\* re-check time left over from an earlier wait does not shorten a new one.
GraceFirst ==
    [][\A r \in Releases :
          /\ row'[r].stage = "removed_before_scan"
                => \/ row[r].stage = "removed_before_scan"
                   \/ row[r].stage = "no_sdist_wait" /\ row[r].recheck = "past"
          /\ row'[r].stage = "no_sdist" /\ r \in Switched
                => \/ row[r].stage = "no_sdist"
                   \/ /\ row[r].stage \in {"no_sdist_wait", "metadata_retry"}
                      /\ row[r].recheck = "past"]_vars

\* As long as no tick was killed: a release PyPI has listed is settled in the
\* end.  The retries, the waits and the re-checks do not send it round for ever.
Decided ==
    \A r \in Releases :
        r \in changed \cup polled ~>
            \/ row[r].stage \in Terminal \ {"metadata_retry", "no_sdist_wait"}
            \/ pypi[r] = "gone" \/ crashes > 0

\* A late sdist of a release left wheel-only, or of one that switched, is not
\* passed over in silence, although the cursor passes its upload only once and
\* one copy of the JSON that PyPI serves may be stale: it is fetched, or a person
\* is told.  (A release listed as new with its sdist and then served without it
\* is believed, unless it switched.)
LateSdistNoticed ==
    \A r \in Releases :
        /\ row[r].stage \in WheelOnly /\ pypi[r] = "sdist"
        /\ r \in Switched \cup changed
        ~> \/ row[r].stage \notin WheelOnly \/ row[r].unreviewed
           \/ pypi[r] = "gone" \/ crashes > 0
=============================================================================
