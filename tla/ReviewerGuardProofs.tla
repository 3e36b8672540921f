------------------------- MODULE ReviewerGuardProofs -------------------------
(***************************************************************************)
(* Proofs about ReviewerGuard: type correctness, and that no review reaches *)
(* a paused endpoint, nor a probe before the pause is over, as long as no  *)
(* batch is started beside another one.                                    *)
(***************************************************************************)
EXTENDS ReviewerGuard, TLAPS

-----------------------------------------------------------------------------
(* Type correctness.                                                       *)

\* The copies a step writes are rows, too.
LEMMA CopyTypes ==
    ASSUME TypeOK, NEW p \in Drains
    PROVE  /\ mem[p] \in Stats
           /\ \A state \in {"closed", "open"}, n \in 0..2 :
                 [mem[p] EXCEPT !.state = state, !.pause = 0, !.streak = n] \in Stats
           /\ \A state \in {"closed", "open"} :
                 [mem[p] EXCEPT !.state = state, !.pause = 0] \in Stats
           /\ \A n \in 0..MaxFaults :
                 [mem[p] EXCEPT !.state = "degraded", !.pause = n] \in Stats
           /\ [mem[p] EXCEPT !.measured = TRUE] \in Stats
           /\ \A n \in 0..2 :
                 /\ [mem[p] EXCEPT !.streak = n] \in Stats
                 /\ [mem[p] EXCEPT !.measured = TRUE, !.streak = n] \in Stats
           /\ Refreshed(p) \in Stats
<1>1. mem[p] \in Stats /\ stats \in Stats /\ 0 \in 0..MaxFaults
  BY BoundsAssumption DEF TypeOK
<1>2. \A state \in {"closed", "open"}, n \in 0..2 :
         [mem[p] EXCEPT !.state = state, !.pause = 0, !.streak = n] \in Stats
  BY <1>1 DEF Stats
<1>3. \A state \in {"closed", "open"} :
         [mem[p] EXCEPT !.state = state, !.pause = 0] \in Stats
  BY <1>1 DEF Stats
<1>4. \A n \in 0..MaxFaults :
         [mem[p] EXCEPT !.state = "degraded", !.pause = n] \in Stats
  BY <1>1 DEF Stats
<1>5. \A n \in 0..2 : /\ [mem[p] EXCEPT !.streak = n] \in Stats
                      /\ [mem[p] EXCEPT !.measured = TRUE, !.streak = n] \in Stats
  BY <1>1 DEF Stats
<1>6. [mem[p] EXCEPT !.measured = TRUE] \in Stats
  BY <1>1 DEF Stats
<1>7. Refreshed(p) \in Stats
  BY <1>1 DEF Stats, Refreshed
<1> QED
  BY <1>1, <1>2, <1>3, <1>4, <1>5, <1>6, <1>7

\* A step that changes nothing but these: the places of the processes, the row and a
\* copy of it, the lock, the faults.
LEMMA StepTypes ==
    ASSUME TypeOK, NEW p \in Drains,
           NEW place \in Places, Go(p, place),
           \/ mem' = mem
           \/ \E s \in Stats : Copy(p, s),
           stats' \in Stats,
           slot' \in {slot, p, "free"},
           faults' = faults \/ Fault,
           UNCHANGED <<pauses, ended, crashes>>,
           owed' \in BOOLEAN, slowRun' \in Nat, overlap' \in BOOLEAN
    PROVE  TypeOK'
<1>1. mem' \in [Drains -> Stats]
  BY DEF TypeOK, Copy
<1>2. pc' \in [Drains -> Places]
  BY DEF TypeOK, Go
<1>3. faults' \in 0..MaxFaults
  BY BoundsAssumption DEF TypeOK, Fault
<1> QED
  BY <1>1, <1>2, <1>3 DEF TypeOK

LEMMA BeginTypes ==
    ASSUME TypeOK, NEW p \in Drains, Begin(p)
    PROVE  TypeOK'
<1>a. /\ stats \in Stats /\ slowRun \in Nat /\ 0 \in Nat /\ 0 \in 0..2
      /\ owed \in BOOLEAN /\ overlap \in BOOLEAN
      /\ {"begin", "batch", "calibrate", "probe", "resume", "refresh"} \subseteq Places
  BY DEF TypeOK, Places
<1> USE CopyTypes, StepTypes DEF Clock, History
<1>1. CASE StartBatch(p)
  BY <1>a, <1>1 DEF StartBatch
<1>2. CASE BeginBatch(p)
  BY <1>a, <1>2 DEF BeginBatch, Unpaused
<1>3. CASE ProbeAnswered(p)
  BY <1>a, <1>3 DEF ProbeAnswered
<1>4. CASE ProbeUnanswered(p)
  BY <1>a, <1>4 DEF ProbeUnanswered
<1>5. CASE Resume(p)
  <2> DEFINE s == [mem[p] EXCEPT !.state = "closed", !.pause = 0, !.streak = 0]
  <2>1. s \in Stats
    BY <1>a
  <2>2. \E place \in Places : Go(p, place)
    BY <1>a, <1>5 DEF Resume, Unpaused
  <2>3. Copy(p, s) /\ stats' = s /\ slot' = slot /\ faults' = faults
    BY <1>5 DEF Resume, Transition
  <2>4. UNCHANGED <<pauses, ended, crashes, owed, slowRun, overlap>>
    BY <1>5 DEF Resume
  <2> QED
    BY <1>a, <2>1, <2>2, <2>3, <2>4
<1>6. CASE Calibrate(p)
  BY <1>a, <1>6 DEF Calibrate
<1> QED
  BY <1>1, <1>2, <1>3, <1>4, <1>5, <1>6 DEF Begin

LEMMA ReviewTypes ==
    ASSUME TypeOK, NEW p \in Drains, Review(p)
    PROVE  TypeOK'
<1>a. /\ stats \in Stats /\ slowRun \in Nat /\ slowRun + 1 \in Nat /\ 0 \in Nat
      /\ 0 \in 0..2
      /\ owed \in BOOLEAN /\ TRUE \in BOOLEAN /\ overlap \in BOOLEAN
      /\ {"slot", "idle", "model", "batch", "refresh", "degrade", "save", "open"}
            \subseteq Places
  BY DEF TypeOK, Places
<1>b. (IF mem[p].streak < 2 THEN mem[p].streak + 1 ELSE 2) \in 0..2
  BY DEF TypeOK, Stats
<1>c. Degrade(p) => pauses' \in 0..MaxFaults /\ ended \in 0..pauses'
  BY BoundsAssumption DEF Degrade, TypeOK
<1> USE CopyTypes, StepTypes DEF Clock, History
<1>1. CASE Admit(p)
  BY <1>a, <1>1 DEF Admit
<1>2. CASE EndBatch(p)
  BY <1>a, <1>2 DEF EndBatch
<1>3. CASE EnterSlot(p)
  BY <1>a, <1>3 DEF EnterSlot
<1>4. CASE NoSample(p)
  BY <1>a, <1>4 DEF NoSample
<1>5. CASE GoodSample(p)
  BY <1>a, <1>5 DEF GoodSample
<1>6. CASE SlowSample(p)
  <2> DEFINE n == IF mem[p].streak < 2 THEN mem[p].streak + 1 ELSE 2
  <2>1. n \in 0..2
    BY <1>b
  <2>2. Copy(p, [mem[p] EXCEPT !.streak = n])
    BY <1>6 DEF SlowSample
  <2>3. \E place \in Places : Go(p, place)
    BY <1>a, <1>6 DEF SlowSample
  <2>4. /\ Fault /\ slot' = "free" /\ slowRun' = slowRun + 1
        /\ UNCHANGED <<stats, pauses, ended, crashes, owed, overlap>>
    BY <1>6 DEF SlowSample
  <2> HIDE DEF n
  <2> QED
    BY <1>a, <2>1, <2>2, <2>3, <2>4
<1>7. CASE Refresh(p)
  BY <1>a, <1>7 DEF Refresh
<1>8. CASE Save(p)
  BY <1>a, <1>8 DEF Save
<1>9. CASE Degrade(p)
  <2>1. pauses' \in 0..MaxFaults /\ ended \in 0..pauses'
    BY <1>9, <1>c
  <2> DEFINE s == [mem[p] EXCEPT !.state = "degraded", !.pause = pauses']
  <2>2. s \in Stats
    BY <2>1
  <2>3. mem' = [mem EXCEPT ![p] = s] /\ stats' = s
    BY <1>9 DEF Degrade, Transition, Copy
  <2>4. /\ pc' = [pc EXCEPT ![p] = "batch"] /\ owed' = TRUE
        /\ UNCHANGED <<slot, ended, slowRun, overlap, faults, crashes>>
    BY <1>9 DEF Degrade, Go
  <2> HIDE DEF s
  <2> QED
    BY <1>a, <2>1, <2>2, <2>3, <2>4 DEF TypeOK
<1>10. CASE TimesOut(p)
  BY <1>a, <1>10 DEF TimesOut
<1>11. CASE Open(p)
  BY <1>a, <1>11 DEF Open, Transition
<1> QED
  BY <1>1, <1>2, <1>3, <1>4, <1>5, <1>6, <1>7, <1>8, <1>9, <1>10, <1>11 DEF Review

LEMMA InitTypes == Init => TypeOK
<1>1. NewStats \in Stats
  BY BoundsAssumption DEF NewStats, Stats
<1>2. 0 \in Nat /\ 0 \in 0..MaxFaults /\ 0 \in 0..MaxCrashes /\ 0 \in 0..0
  BY BoundsAssumption
<1> QED
  BY <1>1, <1>2 DEF Init, TypeOK, Places

\* The row, the copies, the clock and the histories keep their types.
THEOREM GuardTypeCorrect == Spec => []TypeOK
<1>1. Init => TypeOK
  BY InitTypes
<1>2. TypeOK /\ [Next]_vars => TypeOK'
  <2> SUFFICES ASSUME TypeOK, [Next]_vars  PROVE TypeOK'
    OBVIOUS
  <2>1. CASE PauseEnds
    BY <2>1, BoundsAssumption DEF PauseEnds, History, TypeOK
  <2>2. ASSUME NEW p \in Drains, Step(p)  PROVE TypeOK'
    BY <2>2, BeginTypes, ReviewTypes DEF Step
  <2>3. ASSUME NEW p \in Drains, Kill(p)  PROVE TypeOK'
    BY <2>3, BoundsAssumption DEF Kill, Go, History, TypeOK, Places
  <2>4. CASE UNCHANGED vars
    BY <2>4 DEF vars, TypeOK
  <2> QED
    BY <2>1, <2>2, <2>3, <2>4 DEF Next
<1> QED
  BY <1>1, <1>2, PTL DEF Spec

-----------------------------------------------------------------------------
(* A paused endpoint is left alone.                                        *)

\* Between batches and within the only one that runs, the row tells whether a
\* probe is owed and whether a pause may still run.
RowIsTrue ==
    /\ stats.state = "closed" => ~owed /\ ended = pauses
    /\ stats.state = "open" => ended = pauses
    /\ stats.state = "degraded" => stats.pause = pauses

\* What the process of that batch knows, place by place.
Informed(p) ==
    /\ pc[p] \in {"slot", "model"} => stats.state = "closed"
    /\ pc[p] \in {"probe", "resume", "open"} => ended = pauses
    /\ pc[p] = "resume" => ~owed
    /\ pc[p] \in {"begin", "save"}
          => mem[p].state = stats.state /\ mem[p].pause = stats.pause

Alone == \A p, q \in Drains : pc[p] # "idle" /\ pc[q] # "idle" => p = q

GuardInv == /\ TypeOK
            /\ ~overlap => Alone /\ RowIsTrue /\ \A p \in Drains : Informed(p)

\* While p has a batch, the others are idle and stay so.
LEMMA OthersIdle ==
    ASSUME GuardInv, NEW p \in Drains, Step(p) \/ Kill(p), ~overlap'
    PROVE  /\ ~overlap
           /\ \A q \in Drains \ {p} : pc[q] = "idle" /\ pc'[q] = "idle"
<1>a. /\ pc \in [Drains -> Places] /\ overlap \in BOOLEAN
  BY DEF GuardInv, TypeOK
<1>1. PICK place : Go(p, place)
  BY DEF Step, Begin, Review, StartBatch, BeginBatch, ProbeAnswered,
     ProbeUnanswered, Resume, Calibrate, Admit, EndBatch, EnterSlot, NoSample,
     GoodSample, SlowSample, Refresh, Save, Degrade, TimesOut, Open, Kill
<1>2. \/ pc[p] # "idle" /\ overlap' = overlap
      \/ overlap' = (overlap \/ \E q \in Drains : pc[q] # "idle")
  BY DEF Step, Begin, Review, StartBatch, BeginBatch, ProbeAnswered,
     ProbeUnanswered, Resume, Calibrate, Admit, EndBatch, EnterSlot, NoSample,
     GoodSample, SlowSample, Refresh, Save, Degrade, TimesOut, Open, Kill, History
<1>3. ~overlap
  BY <1>2
<1>4. \A q \in Drains \ {p} : pc[q] = "idle"
  BY <1>2, <1>3 DEF GuardInv, Alone
<1>5. \A q \in Drains \ {p} : pc'[q] = "idle"
  BY <1>a, <1>1, <1>4 DEF Go
<1> QED
  BY <1>3, <1>4, <1>5

\* What a step of p leaves to be shown.
LEMMA OnlyMine ==
    ASSUME GuardInv, NEW p \in Drains, Step(p) \/ Kill(p), ~overlap'
    PROVE  /\ ~overlap /\ Alone'
           /\ \A q \in Drains \ {p} : Informed(q)'
  BY OthersIdle DEF Alone, Informed

LEMMA BeginInforms ==
    ASSUME GuardInv, NEW p \in Drains, Begin(p), ~overlap'
    PROVE  RowIsTrue' /\ Informed(p)'
<1>a. /\ stats \in Stats /\ mem \in [Drains -> Stats] /\ mem[p] \in Stats
      /\ pc \in [Drains -> Places]
      /\ pauses \in Nat /\ ended \in Nat /\ ended <= pauses
  BY BoundsAssumption DEF GuardInv, TypeOK
<1>b. RowIsTrue /\ Informed(p)
  BY OnlyMine DEF GuardInv, Step
<1> USE DEF Go, Copy, Clock, History, RowIsTrue, Informed
<1>1. CASE StartBatch(p)
  BY <1>a, <1>b, <1>1 DEF StartBatch
<1>2. CASE BeginBatch(p)
  BY <1>a, <1>b, <1>2 DEF BeginBatch, Running, Unpaused, Stats
<1>3. CASE ProbeAnswered(p)
  BY <1>a, <1>b, <1>3 DEF ProbeAnswered
<1>4. CASE ProbeUnanswered(p)
  BY <1>a, <1>b, <1>4 DEF ProbeUnanswered
<1>5. CASE Resume(p)
  BY <1>a, <1>b, <1>5 DEF Resume, Transition, Unpaused, Stats
<1>6. CASE Calibrate(p)
  BY <1>a, <1>b, <1>6 DEF Calibrate
<1> QED
  BY <1>1, <1>2, <1>3, <1>4, <1>5, <1>6 DEF Begin

LEMMA ReviewInforms ==
    ASSUME GuardInv, NEW p \in Drains, Review(p), ~overlap'
    PROVE  RowIsTrue' /\ Informed(p)'
<1>a. /\ stats \in Stats /\ mem \in [Drains -> Stats] /\ mem[p] \in Stats
      /\ pc \in [Drains -> Places]
      /\ pauses \in Nat /\ ended \in Nat /\ ended <= pauses
  BY BoundsAssumption DEF GuardInv, TypeOK
<1>b. RowIsTrue /\ Informed(p)
  BY OnlyMine DEF GuardInv, Step
<1> USE DEF Go, Copy, Clock, History, RowIsTrue, Informed
<1>1. CASE Admit(p)
  BY <1>a, <1>b, <1>1 DEF Admit
<1>2. CASE EndBatch(p)
  BY <1>a, <1>b, <1>2 DEF EndBatch
<1>3. CASE EnterSlot(p)
  BY <1>a, <1>b, <1>3 DEF EnterSlot
<1>4. CASE NoSample(p)
  BY <1>a, <1>b, <1>4 DEF NoSample
<1>5. CASE GoodSample(p)
  BY <1>a, <1>b, <1>5 DEF GoodSample
<1>6. CASE SlowSample(p)
  BY <1>a, <1>b, <1>6 DEF SlowSample
<1>7. CASE Refresh(p)
  BY <1>a, <1>b, <1>7 DEF Refresh, Refreshed, Stats
<1>8. CASE Save(p)
  BY <1>a, <1>b, <1>8 DEF Save
<1>9. CASE Degrade(p)
  BY <1>a, <1>b, <1>9 DEF Degrade, Transition, Stats
<1>10. CASE TimesOut(p)
  BY <1>a, <1>b, <1>10 DEF TimesOut
<1>11. CASE Open(p)
  BY <1>a, <1>b, <1>11 DEF Open, Transition, Stats
<1> QED
  BY <1>1, <1>2, <1>3, <1>4, <1>5, <1>6, <1>7, <1>8, <1>9, <1>10, <1>11 DEF Review

LEMMA GuardInductive == GuardInv /\ TypeOK' /\ [Next]_vars => GuardInv'
<1> SUFFICES ASSUME GuardInv, TypeOK', [Next]_vars, ~overlap'
             PROVE  Alone' /\ RowIsTrue' /\ \A p \in Drains : Informed(p)'
  BY DEF GuardInv
<1>1. CASE PauseEnds
  <2>1. pauses \in Nat /\ ended \in Nat /\ ended < pauses
    BY <1>1, BoundsAssumption DEF PauseEnds, GuardInv, TypeOK
  <2>2. /\ UNCHANGED <<stats, mem, pc, pauses, owed, overlap>>
        /\ ended # pauses
    BY <1>1, <2>1 DEF PauseEnds, History
  <2> QED
    BY <2>2 DEF GuardInv, Alone, RowIsTrue, Informed
<1>2. ASSUME NEW p \in Drains, Step(p)
      PROVE  Alone' /\ RowIsTrue' /\ \A q \in Drains : Informed(q)'
  BY <1>2, OnlyMine, BeginInforms, ReviewInforms DEF Step
<1>3. ASSUME NEW p \in Drains, Kill(p)
      PROVE  Alone' /\ RowIsTrue' /\ \A q \in Drains : Informed(q)'
  <2>1. pc'[p] = "idle" /\ UNCHANGED <<stats, mem, pauses, ended, owed>>
    BY <1>3 DEF Kill, Go, History, GuardInv, TypeOK
  <2>2. Informed(p)'
    BY <2>1 DEF Informed
  <2> QED
    BY <1>3, <2>1, <2>2, OnlyMine DEF GuardInv, RowIsTrue
<1>4. CASE UNCHANGED vars
  BY <1>4 DEF vars, GuardInv, Alone, RowIsTrue, Informed
<1> QED
  BY <1>1, <1>2, <1>3, <1>4 DEF Next

LEMMA GuardInvariant == Spec => []GuardInv
<1>1. Init => GuardInv
  <2>1. Init => /\ stats.state = "closed" /\ ~owed /\ ended = pauses
                /\ \A p \in Drains : pc[p] = "idle"
    BY DEF Init, NewStats
  <2> QED
    BY <2>1, InitTypes DEF GuardInv, Alone, RowIsTrue, Informed
<1>2. GuardInv /\ [Next]_vars /\ TypeOK' => GuardInv'
  BY GuardInductive
<1> QED
  BY <1>1, <1>2, GuardTypeCorrect, PTL DEF Spec

\* Until batches overlap, a review is at the model only when a probe has been
\* answered since the last trouble on record and every pause is over, whatever the
\* number of processes, batches, faults and kills.
THEOREM PausedKept == Spec => []PausedUnlessOverlapped
<1>1. GuardInv => PausedUnlessOverlapped
  BY DEF GuardInv, RowIsTrue, Informed, PausedUnlessOverlapped, PausedMeansPaused
<1> QED
  BY <1>1, GuardInvariant, PTL

\* Nor is the endpoint probed before the pause is over.
THEOREM ProbedAfterPause == Spec => []PauseKept
<1>1. GuardInv => PauseKept
  BY DEF GuardInv, Informed, PauseKept
<1> QED
  BY <1>1, GuardInvariant, PTL

-----------------------------------------------------------------------------
(* Two slow reviews in a row pause the endpoint.                           *)

\* Nobody has counted a sample the row does not know of, or is about to reset it.
Saved == \A p \in Drains : pc[p] \notin {"refresh", "save", "degrade", "resume"}

\* What the row says of the slow samples in a row.
StreakKept ==
    /\ Saved => stats.streak = slowRun
    /\ stats.state = "degraded" => slowRun >= 2 \/ \E p \in Drains : pc[p] = "resume"
    /\ slowRun >= 2 => stats.state # "closed" \/ \E p \in Drains : pc[p] = "degrade"

\* What the process of the batch knows of them, place by place.
Counts(p) ==
    /\ pc[p] \notin {"idle", "resume"} => mem[p].streak = slowRun
    /\ pc[p] = "resume" => slowRun = 0
    /\ pc[p] = "degrade" => slowRun >= 2
    /\ pc[p] \in {"calibrate", "slot", "model", "refresh", "save", "open"} => slowRun < 2

SlowInv == GuardInv /\ (crashes = 0 /\ ~overlap => StreakKept /\ \A p \in Drains : Counts(p))

\* One step of the process whose batch runs.
LEMMA BeginCounts ==
    ASSUME SlowInv, NEW p \in Drains, Begin(p), ~overlap', crashes' = 0
    PROVE  StreakKept' /\ Counts(p)'
<1>a. /\ stats \in Stats /\ mem \in [Drains -> Stats] /\ mem[p] \in Stats
      /\ pc \in [Drains -> Places] /\ slowRun \in Nat
      /\ pauses \in Nat /\ ended \in Nat
  BY BoundsAssumption DEF SlowInv, GuardInv, TypeOK
<1>b. /\ ~overlap /\ \A q \in Drains \ {p} : pc[q] = "idle" /\ pc'[q] = "idle"
      /\ crashes = 0
  <2>1. UNCHANGED crashes
    BY DEF Begin, StartBatch, BeginBatch, ProbeAnswered, ProbeUnanswered, Resume, Calibrate,
       Clock
  <2> QED
    BY <2>1, OthersIdle DEF SlowInv, Step
<1>c. StreakKept /\ Counts(p) /\ Informed(p)
  BY <1>b DEF SlowInv, GuardInv
<1> USE DEF Go, Copy, Clock, History, StreakKept, Saved, Counts, Informed
<1>1. CASE StartBatch(p)
  BY <1>a, <1>b, <1>c, <1>1 DEF StartBatch
<1>2. CASE BeginBatch(p)
  BY <1>a, <1>b, <1>c, <1>2 DEF BeginBatch, Running, Unpaused, Stats
<1>3. CASE ProbeAnswered(p)
  BY <1>a, <1>b, <1>c, <1>3 DEF ProbeAnswered
<1>4. CASE ProbeUnanswered(p)
  BY <1>a, <1>b, <1>c, <1>4 DEF ProbeUnanswered
<1>5. CASE Resume(p)
  BY <1>a, <1>b, <1>c, <1>5 DEF Resume, Transition, Unpaused, Stats
<1>6. CASE Calibrate(p)
  BY <1>a, <1>b, <1>c, <1>6 DEF Calibrate, Stats
<1> QED
  BY <1>1, <1>2, <1>3, <1>4, <1>5, <1>6 DEF Begin

LEMMA ReviewCounts ==
    ASSUME SlowInv, NEW p \in Drains, Review(p), ~overlap', crashes' = 0
    PROVE  StreakKept' /\ Counts(p)'
<1>a. /\ stats \in Stats /\ mem \in [Drains -> Stats] /\ mem[p] \in Stats
      /\ pc \in [Drains -> Places] /\ slowRun \in Nat
  BY BoundsAssumption DEF SlowInv, GuardInv, TypeOK
<1>b. /\ ~overlap /\ \A q \in Drains \ {p} : pc[q] = "idle" /\ pc'[q] = "idle"
      /\ crashes = 0
  <2>1. UNCHANGED crashes
    BY DEF Review, Admit, EndBatch, EnterSlot, NoSample, GoodSample, SlowSample, Refresh, Save,
       Degrade, TimesOut, Open, Clock
  <2> QED
    BY <2>1, OthersIdle DEF SlowInv, Step
<1>c. StreakKept /\ Counts(p) /\ Informed(p)
  BY <1>b DEF SlowInv, GuardInv
<1> USE DEF Go, Copy, Clock, History, StreakKept, Saved, Counts, Informed
<1>1. CASE Admit(p)
  BY <1>a, <1>b, <1>c, <1>1 DEF Admit, Refreshed, Stats
<1>2. CASE EndBatch(p)
  BY <1>a, <1>b, <1>c, <1>2 DEF EndBatch
<1>3. CASE EnterSlot(p)
  BY <1>a, <1>b, <1>c, <1>3 DEF EnterSlot
<1>4. CASE NoSample(p)
  BY <1>a, <1>b, <1>c, <1>4 DEF NoSample
<1>5. CASE GoodSample(p)
  BY <1>a, <1>b, <1>c, <1>5 DEF GoodSample, Stats
<1>6. CASE SlowSample(p)
  BY <1>a, <1>b, <1>c, <1>6 DEF SlowSample, Stats
<1>7. CASE Refresh(p)
  BY <1>a, <1>b, <1>c, <1>7 DEF Refresh, Refreshed, Stats
<1>8. CASE Save(p)
  BY <1>a, <1>b, <1>c, <1>8 DEF Save
<1>9. CASE Degrade(p)
  BY <1>a, <1>b, <1>c, <1>9 DEF Degrade, Transition, Stats
<1>10. CASE TimesOut(p)
  BY <1>a, <1>b, <1>c, <1>10 DEF TimesOut
<1>11. CASE Open(p)
  BY <1>a, <1>b, <1>c, <1>11 DEF Open, Transition, Stats
<1> QED
  BY <1>1, <1>2, <1>3, <1>4, <1>5, <1>6, <1>7, <1>8, <1>9, <1>10, <1>11 DEF Review

LEMMA SlowInductive == SlowInv /\ GuardInv' /\ [Next]_vars => SlowInv'
<1> SUFFICES ASSUME SlowInv, GuardInv', [Next]_vars, ~overlap', crashes' = 0
             PROVE  StreakKept' /\ \A p \in Drains : Counts(p)'
  BY DEF SlowInv
<1>1. CASE PauseEnds
  BY <1>1 DEF PauseEnds, History, SlowInv, StreakKept, Saved, Counts
<1>2. ASSUME NEW p \in Drains, Step(p)
      PROVE  StreakKept' /\ \A q \in Drains : Counts(q)'
  <2>1. StreakKept' /\ Counts(p)'
    BY <1>2, BeginCounts, ReviewCounts DEF Step
  <2>2. \A q \in Drains \ {p} : pc'[q] = "idle"
    BY <1>2, OthersIdle DEF SlowInv
  <2> QED
    BY <2>1, <2>2 DEF Counts
<1>3. ASSUME NEW p \in Drains, Kill(p)
      PROVE  FALSE
  BY <1>3 DEF Kill, SlowInv, GuardInv, TypeOK
<1>4. CASE UNCHANGED vars
  BY <1>4 DEF vars, SlowInv, StreakKept, Saved, Counts
<1> QED
  BY <1>1, <1>2, <1>3, <1>4 DEF Next

\* As long as nothing was killed and no batch was started beside another, two slow reviews in a
\* row, in one batch or over several, pause the endpoint before a third is sent, and one alone
\* does not: the streak in the row is the number of slow samples since the last good one, but
\* where a step is about to write it.
THEOREM SlowCounted == Spec => []SlowTwice
<1>1. Init => SlowInv
  BY InitTypes DEF Init, NewStats, SlowInv, GuardInv, Alone, RowIsTrue, Informed, StreakKept,
     Saved, Counts
<1>2. SlowInv /\ GuardInv' /\ [Next]_vars => SlowInv'
  BY SlowInductive
<1>3. SlowInv => SlowTwice
  <2> SUFFICES ASSUME SlowInv, crashes = 0, ~overlap
               PROVE  /\ slowRun >= 2 => \A p \in Drains : pc[p] \notin {"slot", "model"}
                      /\ stats.state = "degraded" =>
                            slowRun >= 2 \/ \E p \in Drains : pc[p] = "resume"
    BY DEF SlowTwice
  <2>1. slowRun \in Nat /\ StreakKept /\ \A p \in Drains : Counts(p)
    BY DEF SlowInv, GuardInv, TypeOK
  <2> QED
    BY <2>1 DEF StreakKept, Counts
<1> QED
  BY <1>1, <1>2, <1>3, GuardInvariant, PTL DEF Spec
=============================================================================
