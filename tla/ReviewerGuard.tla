---------------------------- MODULE ReviewerGuard ----------------------------
(***************************************************************************)
(* The reviewer guard of pydiffwatch: may a review be sent to the model    *)
(* endpoint now?  A process builds a guard at the start of a batch from    *)
(* the endpoint's row of reviewer_stats, works with its own copy of it and *)
(* writes the whole row back.  A timeout opens the breaker, two slow       *)
(* reviews in a row pause the endpoint for degraded_pause_s, and an        *)
(* answered health probe closes either again.                              *)
(*                                                                         *)
(* What becomes of the releases is ReviewQueue's; the speed itself and the *)
(* input cap computed from it are not needed here: a review is slow, good, *)
(* or no sample of the speed.                                              *)
(***************************************************************************)
EXTENDS Naturals

CONSTANTS
    Drains,         \* the processes that send reviews: of {"tick", "manual"}
    MaxFaults,      \* bound: timeouts, slow reviews, unanswered requests
    MaxCrashes      \* bound: processes killed

ASSUME DrainsAssumption == Drains \subseteq {"tick", "manual"}
ASSUME BoundsAssumption == MaxFaults \in Nat /\ MaxCrashes \in Nat

VARIABLES
    stats,      \* the row of reviewer_stats
    mem,        \* each guard's copy of it
    pc,         \* where each process is
    slot,       \* who holds the review lock, or "free"
    pauses,     \* history: pauses begun so far
    ended,      \* the clock: how many of them are over
    owed,       \* history: no probe answered since the row was last opened or paused
    slowRun,    \* history: slow samples since the last good one or answered probe
    overlap,    \* history: a batch was started beside another one
    faults, crashes

vars == <<stats, mem, pc, slot, pauses, ended, owed, slowRun, overlap,
          faults, crashes>>

-----------------------------------------------------------------------------

\* paused_until is the pause it belongs to; 0 is no pause.
Stats == [state : {"closed", "open", "degraded"},
          pause : 0..MaxFaults,
          measured : BOOLEAN,           \* tok_s is not NULL
          streak : 0..2]                \* slow_streak

NewStats == [state |-> "closed", pause |-> 0, measured |-> FALSE, streak |-> 0]

\* clock() < paused_until: pauses have one length, so they end in order.
Running(s) == s.pause > ended

Places == {"idle", "begin", "probe", "resume", "calibrate", "batch", "slot",
           "model", "refresh", "save", "open", "degrade"}

Init == /\ stats = NewStats
        /\ mem = [p \in Drains |-> NewStats]
        /\ pc = [p \in Drains |-> "idle"]
        /\ slot = "free"
        /\ pauses = 0 /\ ended = 0
        /\ owed = FALSE /\ slowRun = 0 /\ overlap = FALSE
        /\ faults = 0 /\ crashes = 0

Go(p, place) == pc' = [pc EXCEPT ![p] = place]
Copy(p, s) == mem' = [mem EXCEPT ![p] = s]
Fault == faults < MaxFaults /\ faults' = faults + 1

Clock == <<pauses, ended, crashes>>
History == <<owed, slowRun, overlap>>

PauseEnds ==
    /\ ended < pauses
    /\ ended' = ended + 1
    /\ UNCHANGED <<stats, mem, pc, slot, pauses, History, faults, crashes>>

-----------------------------------------------------------------------------
(* The start of a batch: __init__, begin_batch, _calibrate.                *)

StartBatch(p) ==
    /\ pc[p] = "idle"
    /\ Copy(p, stats)
    /\ Go(p, "begin")
    /\ overlap' = (overlap \/ \E q \in Drains : pc[q] # "idle")
    /\ UNCHANGED <<stats, slot, Clock, owed, slowRun, faults>>

\* Where a guard goes on whose breaker is closed.
Unpaused(s) == IF s.measured THEN "batch" ELSE "calibrate"

\* Mutation: the pause is not waited for.
BeginAnyTime(p) ==
    /\ pc[p] = "begin"
    /\ Go(p, IF mem[p].state = "closed" THEN Unpaused(mem[p]) ELSE "probe")
    /\ UNCHANGED <<stats, mem, slot, Clock, History, faults>>

BeginBatch(p) ==
    /\ pc[p] = "begin"
    /\ \/ mem[p].state = "closed" /\ Go(p, Unpaused(mem[p]))
       \/ mem[p].state # "closed" /\ Running(mem[p]) /\ Go(p, "batch")
       \/ mem[p].state # "closed" /\ ~Running(mem[p]) /\ Go(p, "probe")
    /\ UNCHANGED <<stats, mem, slot, Clock, History, faults>>

ProbeAnswered(p) ==
    /\ pc[p] = "probe"
    /\ Go(p, "resume")
    /\ owed' = FALSE /\ slowRun' = 0
    /\ UNCHANGED <<stats, mem, slot, Clock, overlap, faults>>

\* Mutation: an endpoint that does not answer is taken as healthy.
ProbeIgnored(p) ==
    /\ pc[p] = "probe"
    /\ Fault
    /\ Go(p, "resume")
    /\ UNCHANGED <<stats, mem, slot, Clock, History>>

\* The batch goes on, with reviews paused.
ProbeUnanswered(p) ==
    /\ pc[p] = "probe"
    /\ Fault
    /\ Go(p, "batch")
    /\ UNCHANGED <<stats, mem, slot, Clock, History>>

\* _set: the copy is changed and written whole, the stored breaker overwritten.
Transition(p, s) == stats' = s /\ Copy(p, s)

\* Mutation: the slow streak outlives the pause it caused.
ResumeWithStreak(p) ==
    /\ pc[p] = "resume"
    /\ Transition(p, [mem[p] EXCEPT !.state = "closed", !.pause = 0])
    /\ Go(p, Unpaused(mem[p]))
    /\ UNCHANGED <<slot, Clock, History, faults>>

\* Mutation: a plain _save, which reads the stored breaker back first.
ResumeBySaving(p) ==
    /\ pc[p] = "resume"
    /\ Transition(p, [mem[p] EXCEPT !.state = stats.state, !.pause = stats.pause,
                                    !.streak = 0])
    /\ Go(p, Unpaused(mem[p]))
    /\ UNCHANGED <<slot, Clock, History, faults>>

Resume(p) ==
    /\ pc[p] = "resume"
    /\ Transition(p, [mem[p] EXCEPT !.state = "closed", !.pause = 0, !.streak = 0])
    /\ Go(p, Unpaused(mem[p]))
    /\ UNCHANGED <<slot, Clock, History, faults>>

\* A probe and a request with filler text; its speed may be no sample either.
Calibrate(p) ==
    /\ pc[p] = "calibrate"
    /\ \/ Copy(p, [mem[p] EXCEPT !.measured = TRUE]) /\ Go(p, "refresh")
       \/ UNCHANGED mem /\ Go(p, "batch")
    /\ UNCHANGED <<stats, slot, Clock, History, faults>>

-----------------------------------------------------------------------------
(* A review: admit, the request under the review lock, and its record.     *)

\* admit reads the breaker again: another process may have opened it.
Refreshed(p) == [mem[p] EXCEPT !.state = stats.state, !.pause = stats.pause]

Admit(p) ==
    /\ pc[p] = "batch"
    /\ stats.state = "closed"
    /\ Copy(p, Refreshed(p))
    /\ Go(p, "slot")
    /\ UNCHANGED <<stats, slot, Clock, History, faults>>

\* Refused, or host memory short, or nothing left to review.
EndBatch(p) ==
    /\ pc[p] = "batch"
    /\ Go(p, "idle")
    /\ UNCHANGED <<stats, mem, slot, Clock, History, faults>>

EnterSlot(p) ==
    /\ pc[p] = "slot" /\ slot = "free"
    /\ slot' = p
    /\ Go(p, "model")
    /\ UNCHANGED <<stats, mem, Clock, History, faults>>

\* Too small, timed by the wall clock only, escalated to another model, malformed.
NoSample(p) ==
    /\ pc[p] = "model"
    /\ slot' = "free"
    /\ Go(p, "batch")
    /\ UNCHANGED <<stats, mem, Clock, History, faults>>

GoodSample(p) ==
    /\ pc[p] = "model"
    /\ slot' = "free"
    /\ Copy(p, [mem[p] EXCEPT !.measured = TRUE, !.streak = 0])
    /\ Go(p, "refresh")
    /\ slowRun' = 0
    /\ UNCHANGED <<stats, Clock, owed, overlap, faults>>

\* Mutation: it takes three slow reviews.
SlowSampleLate(p) ==
    /\ pc[p] = "model" /\ mem[p].measured
    /\ Fault
    /\ slot' = "free"
    /\ Copy(p, [mem[p] EXCEPT !.streak = @ + 1])
    /\ Go(p, IF mem[p].streak >= 2 THEN "degrade" ELSE "refresh")
    /\ slowRun' = slowRun + 1
    /\ UNCHANGED <<stats, Clock, owed, overlap>>

\* Below slowdown_ratio of the measured speed, by the server's own timing.
SlowSample(p) ==
    /\ pc[p] = "model" /\ mem[p].measured
    /\ Fault
    /\ slot' = "free"
    /\ Copy(p, [mem[p] EXCEPT !.streak = IF @ < 2 THEN @ + 1 ELSE 2])
    /\ Go(p, IF mem[p].streak >= 1 THEN "degrade" ELSE "refresh")
    /\ slowRun' = slowRun + 1
    /\ UNCHANGED <<stats, Clock, owed, overlap>>

\* _save without a transition: the stored breaker is read, then all is written.
Refresh(p) ==
    /\ pc[p] = "refresh"
    /\ Copy(p, Refreshed(p))
    /\ Go(p, "save")
    /\ UNCHANGED <<stats, slot, Clock, History, faults>>

Save(p) ==
    /\ pc[p] = "save"
    /\ stats' = mem[p]
    /\ Go(p, "batch")
    /\ UNCHANGED <<mem, slot, Clock, History, faults>>

Degrade(p) ==
    /\ pc[p] = "degrade"
    /\ pauses < MaxFaults
    /\ pauses' = pauses + 1
    /\ Transition(p, [mem[p] EXCEPT !.state = "degraded", !.pause = pauses'])
    /\ owed' = TRUE
    /\ Go(p, "batch")
    /\ UNCHANGED <<slot, ended, slowRun, overlap, faults, crashes>>

\* The lock is freed, the failed attempt recorded (ReviewQueue), ...
TimesOut(p) ==
    /\ pc[p] = "model"
    /\ Fault
    /\ slot' = "free"
    /\ Go(p, "open")
    /\ UNCHANGED <<stats, mem, Clock, History>>

\* ... and the breaker opened.
Open(p) ==
    /\ pc[p] = "open"
    /\ Transition(p, [mem[p] EXCEPT !.state = "open", !.pause = 0])
    /\ owed' = TRUE
    /\ Go(p, "batch")
    /\ UNCHANGED <<slot, Clock, slowRun, overlap, faults>>

Kill(p) ==
    /\ pc[p] # "idle"
    /\ crashes < MaxCrashes
    /\ crashes' = crashes + 1
    /\ slot' = IF slot = p THEN "free" ELSE slot
    /\ Go(p, "idle")
    /\ UNCHANGED <<stats, mem, pauses, ended, History, faults>>

-----------------------------------------------------------------------------

Begin(p) == \/ StartBatch(p) \/ BeginBatch(p)
            \/ ProbeAnswered(p) \/ ProbeUnanswered(p) \/ Resume(p) \/ Calibrate(p)

Review(p) == \/ Admit(p) \/ EndBatch(p) \/ EnterSlot(p)
             \/ NoSample(p) \/ GoodSample(p) \/ SlowSample(p)
             \/ Refresh(p) \/ Save(p) \/ Degrade(p) \/ TimesOut(p) \/ Open(p)

Step(p) == Begin(p) \/ Review(p)

Next == PauseEnds \/ \E p \in Drains : Step(p) \/ Kill(p)

Spec == Init /\ [][Next]_vars

\* Batches are started for ever, every request ends at its timeout, and time passes.
FairSpec ==
    /\ Spec
    /\ WF_vars(PauseEnds)
    /\ \A p \in Drains : WF_vars(Step(p))

-----------------------------------------------------------------------------
(* Properties.                                                             *)

TypeOK == /\ stats \in Stats
          /\ mem \in [Drains -> Stats]
          /\ pc \in [Drains -> Places]
          /\ slot \in Drains \cup {"free"}
          /\ pauses \in 0..MaxFaults /\ ended \in 0..pauses
          /\ owed \in BOOLEAN /\ slowRun \in Nat /\ overlap \in BOOLEAN
          /\ faults \in 0..MaxFaults
          /\ crashes \in 0..MaxCrashes

\* A paused endpoint is left alone (GETTING-STARTED.md, "Model protection"): a
\* review is at the model only when a health probe has been answered since the last
\* timeout or slowdown on record, and every pause is over.
PausedMeansPaused ==
    \A p \in Drains : pc[p] = "model" => ~owed /\ ended = pauses

\* This holds over any number of batches, of the tick and of `review-pending`, and
\* any kills, until a batch is started beside another one.
PausedUnlessOverlapped == ~overlap => PausedMeansPaused

\* So does the pause itself: the endpoint is not even probed before it ends.
PauseKept ==
    ~overlap => \A p \in Drains : pc[p] \in {"probe", "resume"} => ended = pauses

\* As long as nothing was killed: two slow reviews in a row, in one batch or over
\* several, pause the endpoint before a third is sent, and one alone does not.
SlowTwice ==
    crashes = 0 /\ ~overlap =>
        /\ slowRun >= 2 => \A p \in Drains : pc[p] \notin {"slot", "model"}
        /\ stats.state = "degraded" =>
              slowRun >= 2 \/ \E p \in Drains : pc[p] = "resume"

\* No pause lasts for ever: reviews resume once the endpoint answers again, even if
\* two processes overwrite each other's row.
Resumes == []<>(stats.state = "closed")
=============================================================================
