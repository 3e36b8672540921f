----------------------------- MODULE SandboxProofs -----------------------------
(***************************************************************************)
(* Proofs about Sandbox: type correctness; that package bytes are parsed   *)
(* only where the mode allows; that a call leaves nothing behind; and that *)
(* a reply counts exactly when it is whole.                                *)
(***************************************************************************)
EXTENDS Sandbox, TLAPS

\* A sandbox in use was found on this machine.
BoxFound ==
    /\ tick.box \in {"seatbelt", "systemd"} => machine # "none"
    /\ ~Idle => machine # "none"

\* While a command scans, its choice stands, and a call belongs to its phase.
BoxChosen ==
    /\ tick.phase = "scanning" =>
           \/ tick.box = "off" /\ (mode = "off" \/ (mode = "auto" /\ tick.warned))
           \/ tick.box \in {"seatbelt", "systemd"} /\ tick.held
    /\ ~Idle /\ call.for = "probe" => tick.phase \in {"choosing", "stopping"}
    /\ ~Idle /\ call.for = "scan" => tick.phase \in {"scanning", "stopping"}

\* Where an interrupt has brought the command.
Stopped ==
    /\ tick.phase = "stopping" => call.at \in {"finally", "reap"}
    /\ tick.phase = "stopped" => Idle
    /\ early => tick.phase = "stopped" /\ call.outcome = "interrupted"

\* What is known of the child and the timer at each place of the main thread.
Cleared ==
    /\ call.at \in {"reap", "join", "judge"} => threads.timer # "armed"
    /\ call.at = "reap" => worker.child \in {"dead", "reaped"}
    /\ call.at \in {"join", "judge"} => worker.child = "reaped"
    /\ call.at = "judge" => threads.drainer = "over"
    /\ Idle /\ ~early => worker.child \notin {"up", "dead"} /\ threads.timer # "armed"

\* And of the worker: only a unit outlives its child, and only an interrupt leaves it.
WorkerKnown ==
    /\ ~Idle => worker.child # "none" /\ worker.at # "none"
    /\ Alive => worker.child = "up" \/ machine = "systemd"
    /\ threads.drainer = "over" => ~Alive /\ worker.child # "up"
    /\ Idle /\ Alive => tick.phase = "stopped" /\ call.outcome = "interrupted"

\* The chunks of a reply are read, in the pipe, or to be written.
Counted ==
    /\ worker.left + worker.pipe + call.out = worker.size
    /\ worker.at \in {"none", "boot", "working"} =>
           worker.says = "nothing" /\ worker.size = 0 /\ worker.left = 0 /\ worker.pipe = 0
    /\ call.over <=> call.out > Cap
    /\ call.for = "scan" => worker.says # "held"

\* Past the loop, and not interrupted, all that was written was read.
ReadUp ==
    /\ call.at \in {"wait", "finally", "reap", "join", "judge"}
    /\ ~call.over /\ tick.phase # "stopping"
    => worker.pipe = 0 /\ ~StdoutOpen

SandboxInv == /\ TypeOK /\ OnlyInBox /\ BoxFound /\ BoxChosen /\ Stopped /\ Cleared
              /\ WorkerKnown /\ Counted /\ ReadUp /\ ReplyWhole

-----------------------------------------------------------------------------
(* Type correctness.                                                       *)

\* A killed worker is a worker.
LEMMA KillType ==
    ASSUME NEW w \in Workers
    PROVE  Kill(w) \in Workers
BY DEF Kill, Workers, Words

\* So is one that ended by itself.
LEMMA EndedType ==
    ASSUME NEW w \in Workers, NEW code \in {"ok", "failed"}
    PROVE  Ended(w, code) \in Workers
BY DEF Ended, Workers, Words

\* Falling back, or giving up, gives a command.
LEMMA FallBackType ==
    ASSUME NEW t \in Ticks
    PROVE  FallBack(t) \in Ticks
BY DEF FallBack, Ticks

\* What a command, a call and its threads start from.
LEMMA NewTypes ==
    /\ \A b \in {"unset", "off", "seatbelt", "systemd"} : [NewTick EXCEPT !.box = b] \in Ticks
    /\ NewTick \in Ticks /\ NoCall \in Calls /\ NoThreads \in Threads /\ NoWorker \in Workers
BY DEF NewTick, NoCall, NoThreads, NoWorker, Ticks, Calls, Threads, Workers, Words

\* Commands.
LEMMA CommandTypes ==
    ASSUME TypeOK, BoxFound, Commands
    PROVE  TypeOK'
<1>t. tick \in Ticks /\ call \in Calls /\ threads \in Threads /\ worker \in Workers
  BY DEF TypeOK
<1>s. ASSUME NEW purpose \in {"probe", "scan"}, Start(purpose)
      PROVE  call' \in Calls /\ threads' \in Threads /\ worker' \in Workers
  <2>1. call' \in Calls
    BY <1>s DEF Start, NoCall, Calls
  <2>2. threads' \in Threads
    BY <1>s, NewTypes DEF Start
  <2>3. worker' \in Workers
    BY <1>s DEF Start, NoWorker, Workers, Words
  <2> QED
    BY <2>1, <2>2, <2>3
<1>1. CASE ChooseOff
  <2>1. tick' \in Ticks
    BY <1>t, <1>1 DEF ChooseOff, Ticks
  <2> QED
    BY <1>1, <2>1 DEF ChooseOff, TypeOK
<1>2. CASE NoSandbox
  BY <1>t, <1>2, FallBackType DEF NoSandbox, TypeOK
<1>3. CASE Probe
  BY <1>s, <1>3 DEF Probe, Start, TypeOK
<1>4. CASE ProbeNotStarted
  BY <1>t, <1>4, FallBackType DEF ProbeNotStarted, TypeOK
<1>5. CASE NextTick
  <2>1. tick.box \in {"unset", "off", "seatbelt", "systemd"}
    BY <1>t DEF Ticks
  <2> QED
    BY <1>5, <2>1, NewTypes DEF NextTick, TypeOK
<1>6. CASE ScanInProcess
  <2>1. tick' \in Ticks
    BY <1>t, <1>6 DEF ScanInProcess, Ticks
  <2> QED
    BY <1>6, <2>1 DEF ScanInProcess, TypeOK
<1>7. CASE ScanInBox
  <2>1. tick' \in Ticks
    BY <1>t, <1>7 DEF ScanInBox, Ticks
  <2> QED
    BY <1>s, <1>7, <2>1 DEF ScanInBox, Start, TypeOK
<1>8. CASE ScanNotStarted
  <2>1. [NoCall EXCEPT !.for = "scan", !.outcome = "error"] \in Calls
    BY DEF NoCall, Calls
  <2> QED
    BY <1>8, <2>1, NewTypes DEF ScanNotStarted, TypeOK
<1> QED
  BY <1>1, <1>2, <1>3, <1>4, <1>5, <1>6, <1>7, <1>8 DEF Commands

\* The main thread.
LEMMA MainTypes ==
    ASSUME TypeOK, BoxFound, MainThread \/ Interrupt
    PROVE  TypeOK'
<1>t. tick \in Ticks /\ call \in Calls /\ threads \in Threads /\ worker \in Workers
  BY DEF TypeOK
<1>m. ASSUME NEW from, NEW to \in {"start threads", "read", "wait", "finally", "reap", "join", "judge"},
             Main(from, to)
      PROVE  call' \in Calls
  BY <1>t, <1>m DEF Main, Calls
<1>k. Kill(worker) \in Workers
  BY <1>t, KillType
<1>r. [worker EXCEPT !.child = "reaped"] \in Workers
  BY <1>t DEF Workers, Words
<1>i. ASSUME NEW o \in {"error", "scanned", "refused", "held", "interrupted"}
      PROVE  [call EXCEPT !.at = "idle", !.outcome = o] \in Calls
  BY <1>t DEF Calls
<1>p. \A p \in {"stopping", "stopped"} : [tick EXCEPT !.phase = p] \in Ticks
  BY <1>t DEF Ticks
<1>1. CASE StartTimer
  <2>1. threads' \in Threads
    BY <1>t, <1>1 DEF StartTimer, Threads
  <2> QED
    BY <1>m, <1>1, <2>1 DEF StartTimer, Config, TypeOK
<1>2. CASE StartThreads
  <2>1. threads' \in Threads
    BY <1>t, <1>2 DEF StartThreads, Threads
  <2> QED
    BY <1>m, <1>2, <2>1 DEF StartThreads, Config, TypeOK
<1>3. CASE ReadChunk
  <2> DEFINE over == call.out + 1 > Cap
             w == [worker EXCEPT !.pipe = @ - 1]
  <2>1. w \in Workers
    BY <1>t, <1>3 DEF ReadChunk, Workers, Words
  <2>2. Kill(w) \in Workers
    BY <2>1, KillType
  <2>3. worker' \in Workers
    BY <1>3, <2>1, <2>2 DEF ReadChunk
  <2>4. ASSUME NEW n \in Nat, NEW b \in BOOLEAN, NEW at \in {"read", "wait"}
        PROVE  [call EXCEPT !.out = n, !.over = b, !.at = at] \in Calls
    BY <1>t, ZenonT(30) DEF Calls
  <2>5. over \in BOOLEAN /\ (IF over THEN "wait" ELSE call.at) \in {"read", "wait"}
    BY <1>3 DEF ReadChunk
  <2>6. call' = [call EXCEPT !.out = @ + 1, !.over = over, !.at = IF over THEN "wait" ELSE @]
    BY <1>3 DEF ReadChunk
  <2>o. call.out \in Nat
    BY <1>t, ZenonT(30) DEF Calls
  <2>7. call.out + 1 \in Nat
    BY <2>o
  <2> HIDE DEF over
  <2>8. call' \in Calls
    BY <2>4, <2>5, <2>6, <2>7
  <2> QED
    BY <1>3, <2>3, <2>8 DEF ReadChunk, Config, TypeOK
<1>4. CASE ReadEnd
  BY <1>m, <1>4 DEF ReadEnd, Config, TypeOK
<1>5. CASE Wait
  BY <1>m, <1>r, <1>5 DEF Wait, Config, TypeOK
<1>6. CASE Finally
  <2>1. threads' \in Threads
    BY <1>t, <1>6 DEF Finally, Threads
  <2> QED
    BY <1>m, <1>k, <1>6, <2>1 DEF Finally, Config, TypeOK
<1>7. CASE Reap
  <2>1. [call EXCEPT !.at = "join"] \in Calls
    BY <1>t DEF Calls
  <2> QED
    BY <1>i, <1>p, <1>r, <1>7, <2>1 DEF Reap, TypeOK
<1>8. CASE Join
  BY <1>m, <1>8 DEF Join, Config, TypeOK
<1>9. CASE Judge
  <2> DEFINE outcome == IF call.late \/ call.over \/ worker.code # "ok" THEN "error" ELSE Reply
  <2>1. outcome \in {"error", "scanned", "refused", "held"}
    BY DEF Reply
  <2>2. machine \in {"seatbelt", "systemd"}
    BY <1>9, MachinesAssumption DEF Judge, BoxFound, Idle, TypeOK
  <2>3. [tick EXCEPT !.box = machine, !.held = TRUE, !.phase = "scanning"] \in Ticks
    BY <1>t, <2>2 DEF Ticks
  <2>4. Chosen(outcome) \in Ticks
    BY <1>t, <2>3, FallBackType DEF Chosen
  <2>5. call' = [call EXCEPT !.at = "idle", !.outcome = outcome]
    BY <1>9 DEF Judge
  <2>6. call' \in Calls
    BY <1>i, <2>1, <2>5
  <2>7. tick' \in Ticks
    BY <1>t, <1>9, <2>4 DEF Judge
  <2> QED
    BY <1>9, <2>6, <2>7 DEF Judge, TypeOK
<1>10. CASE Interrupt
  <2>1. [call EXCEPT !.at = "finally"] \in Calls
    BY <1>t DEF Calls
  <2>2. call' \in Calls
    BY <1>i, <1>10, <2>1 DEF Interrupt
  <2>3. tick' \in Ticks
    BY <1>p, <1>10 DEF Interrupt
  <2>4. early' \in BOOLEAN
    BY <1>10 DEF Interrupt, TypeOK
  <2> QED
    BY <1>10, <2>2, <2>3, <2>4 DEF Interrupt, TypeOK
<1> QED
  BY <1>1, <1>2, <1>3, <1>4, <1>5, <1>6, <1>7, <1>8, <1>9, <1>10 DEF MainThread

\* The threads beside it and the worker.
Beside == \/ TimerExpires \/ TimerKills \/ Feed \/ FeedBreaks \/ DrainEnds
          \/ Answers \/ Writes \/ Exits \/ Dies \/ ClosesStdout \/ ClientEnds \/ UnitExpires

LEMMA BesideTypes ==
    ASSUME TypeOK, Beside
    PROVE  TypeOK'
<1>t. call \in Calls /\ threads \in Threads /\ worker \in Workers
  BY DEF TypeOK
<1>1. call' \in Calls
  BY <1>t DEF Beside, TimerExpires, TimerKills, Feed, FeedBreaks, DrainEnds, Answers, Writes,
     Exits, Dies, ClosesStdout, ClientEnds, UnitExpires, Worker, Calls
<1>2. threads' \in Threads
  BY <1>t DEF Beside, TimerExpires, TimerKills, Feed, FeedBreaks, DrainEnds, Answers, Writes,
     Exits, Dies, ClosesStdout, ClientEnds, UnitExpires, Worker, Threads
<1>3. worker' \in Workers
  <2>1. CASE TimerKills
    BY <1>t, <2>1, KillType DEF TimerKills
  <2>2. CASE Exits \/ Dies \/ UnitExpires
    BY <1>t, <2>2, EndedType DEF Exits, Dies, UnitExpires
  <2>3. CASE Answers
    <3>1. PICK word \in Says(call.for), size \in 1..MaxReply :
              worker' = [worker EXCEPT !.at = "writing", !.says = word, !.size = size,
                                       !.left = size]
      BY <2>3 DEF Answers
    <3>2. word \in Words /\ size \in Nat
      BY SizesAssumption DEF Says, Words
    <3>3. ASSUME NEW wd \in Words, NEW n \in Nat
          PROVE  [worker EXCEPT !.at = "writing", !.says = wd, !.size = n, !.left = n] \in Workers
      BY <1>t DEF Workers
    <3> QED
      BY <3>1, <3>2, <3>3
  <2>4. CASE Writes
    <3>1. worker.left - 1 \in Nat /\ worker.pipe + 1 \in Nat
      BY <1>t, <2>4 DEF Writes, Workers
    <3>2. ASSUME NEW n \in Nat, NEW m \in Nat
          PROVE  [worker EXCEPT !.left = n, !.pipe = m] \in Workers
      BY <1>t DEF Workers
    <3> QED
      BY <2>4, <3>1, <3>2 DEF Writes
  <2>5. CASE Feed \/ ClosesStdout \/ ClientEnds
    BY <1>t, <2>5 DEF Feed, ClosesStdout, ClientEnds, Workers, Words
  <2>6. CASE TimerExpires \/ FeedBreaks \/ DrainEnds
    BY <1>t, <2>6 DEF TimerExpires, FeedBreaks, DrainEnds
  <2> QED
    BY <2>1, <2>2, <2>3, <2>4, <2>5, <2>6 DEF Beside
<1>4. UNCHANGED Config
  BY DEF Beside, TimerExpires, TimerKills, Feed, FeedBreaks, DrainEnds, Answers, Writes,
     Exits, Dies, ClosesStdout, ClientEnds, UnitExpires, Worker, Config
<1> QED
  BY <1>1, <1>2, <1>3, <1>4 DEF TypeOK, Config

-----------------------------------------------------------------------------
(* What the steps share.                                                   *)

\* The numbers and flags of a call and its worker.
LEMMA Numbers ==
    ASSUME TypeOK
    PROVE  /\ call.out \in Nat /\ worker.left \in Nat /\ worker.pipe \in Nat
           /\ worker.size \in Nat /\ call.over \in BOOLEAN /\ call.late \in BOOLEAN
BY ZenonT(30) DEF TypeOK, Calls, Workers

\* What a kill changes, field by field.
LEMMA KillFacts ==
    ASSUME NEW w \in Workers
    PROVE  /\ Kill(w).left = w.left /\ Kill(w).pipe = w.pipe /\ Kill(w).size = w.size
           /\ Kill(w).says = w.says
           /\ Kill(w).child = IF w.child = "up" THEN "dead" ELSE w.child
           /\ Kill(w).at = IF w.child = "up" /\ machine # "systemd" THEN "gone" ELSE w.at
           /\ Kill(w).code = IF w.child = "up" THEN "killed" ELSE w.code
BY DEF Kill, Workers

\* What an end of the worker's own changes.
LEMMA EndedFacts ==
    ASSUME NEW w \in Workers, NEW code
    PROVE  /\ Ended(w, code).left = w.left /\ Ended(w, code).pipe = w.pipe
           /\ Ended(w, code).size = w.size /\ Ended(w, code).says = w.says
           /\ Ended(w, code).child = IF machine = "systemd" THEN w.child ELSE "dead"
           /\ Ended(w, code).at = "gone"
           /\ Ended(w, code).code = IF w.child = "up" THEN code ELSE w.code
BY DEF Ended, Workers

\* What falling back changes.
LEMMA FallBackFacts ==
    ASSUME NEW t \in Ticks
    PROVE  /\ FallBack(t).where = t.where
           /\ mode = "on" => FallBack(t).phase = "stopped" /\ FallBack(t).warned = t.warned
           /\ mode # "on" => /\ FallBack(t).phase = "scanning" /\ FallBack(t).box = "off"
                             /\ FallBack(t).warned
           /\ FallBack(t).box \in {t.box, "off"}
BY DEF FallBack, Ticks

\* A step within a call, or beside it, leaves the command where it was.
LEMMA SameCommand ==
    ASSUME SandboxInv, UNCHANGED Config, call'.for = call.for, call'.outcome = call.outcome,
           Idle' <=> Idle, tick.phase = "stopping" => call'.at \in {"finally", "reap"}
    PROVE  OnlyInBox' /\ BoxFound' /\ BoxChosen' /\ Stopped'
BY DEF SandboxInv, Config, OnlyInBox, BoxFound, BoxChosen, Stopped, Idle

\* A step that reads, writes and answers nothing leaves the counts as they were.
LEMMA SameCounts ==
    ASSUME SandboxInv, call'.out = call.out, call'.over = call.over,
           worker'.says = worker.says, worker'.size = worker.size,
           worker'.left = worker.left, worker'.pipe = worker.pipe, call'.for = call.for,
           worker'.at \in {"none", "boot", "working"} => worker.at \in {"none", "boot", "working"}
    PROVE  Counted'
BY DEF SandboxInv, Counted

\* What has no worker left is settled: no thread changes what was judged.
LEMMA Settled ==
    ASSUME SandboxInv, Beside, Idle, call.outcome # "interrupted"
    PROVE  worker' = worker /\ call' = call
<1>1. ~early /\ threads.timer # "armed" /\ worker.child # "up" /\ ~Alive
  BY DEF SandboxInv, Stopped, Cleared, WorkerKnown
<1>2. ~(\/ TimerExpires \/ Feed \/ Answers \/ Writes \/ Dies \/ ClosesStdout \/ UnitExpires
        \/ Exits \/ ClientEnds)
  BY <1>1 DEF TimerExpires, Feed, Answers, Writes, Dies, ClosesStdout, UnitExpires, Exits,
     ClientEnds, Alive
<1>3. TimerKills \/ FeedBreaks \/ DrainEnds
  BY <1>2 DEF Beside
<1> QED
  BY <1>1, <1>3 DEF TimerKills, FeedBreaks, DrainEnds, Kill

-----------------------------------------------------------------------------
(* Each step keeps the invariant.                                          *)

\* A command's steps between its calls.
LEMMA CommandsKeep ==
    ASSUME SandboxInv, Commands
    PROVE  SandboxInv'
<1>0. TypeOK /\ TypeOK'
  BY CommandTypes DEF SandboxInv
<1>t. tick \in Ticks /\ machine # "none" => machine \in {"seatbelt", "systemd"}
  BY <1>0, MachinesAssumption DEF TypeOK
<1>i. Idle /\ tick.phase \in {"choosing", "scanning"} /\ ~early /\ ~Alive
  BY DEF SandboxInv, Stopped, WorkerKnown, Commands, ChooseOff, NoSandbox, Probe, ProbeNotStarted,
     NextTick, ScanInProcess, ScanInBox, ScanNotStarted, Choosing, Scanning
<1>m. mode \in {"on", "auto", "off"}
  BY <1>0, ModesAssumption DEF TypeOK
<1>n. Cap \in Nat
  BY SizesAssumption
<1>a. ASSUME UNCHANGED <<call, threads, worker, early, machine>>, ChooseOff \/ NoSandbox
             \/ ProbeNotStarted \/ NextTick \/ ScanInProcess
      PROVE  Cleared' /\ WorkerKnown' /\ Counted' /\ ReadUp' /\ ReplyWhole' /\ Stopped'
  <2>1. Idle' /\ ~early' /\ ~Alive'
    BY <1>i, <1>a DEF Idle, Alive
  <2>2. tick'.phase # "stopping"
    BY <1>0, <1>a, FallBackFacts
    DEF TypeOK, ChooseOff, NoSandbox, ProbeNotStarted, NextTick, ScanInProcess, Scanning, NewTick, Ticks
  <2>3. Cleared' /\ Counted' /\ ReplyWhole'
    BY <1>a DEF SandboxInv, Cleared, Counted, ReplyWhole, Idle
  <2>4. WorkerKnown' /\ ReadUp' /\ Stopped'
    BY <1>a, <2>1, <2>2 DEF SandboxInv, WorkerKnown, ReadUp, Stopped, Idle, Alive
  <2> QED
    BY <2>3, <2>4
<1>1. CASE ChooseOff
  <2>1. OnlyInBox' /\ BoxFound' /\ BoxChosen'
    BY <1>0, <1>i, <1>1 DEF SandboxInv, TypeOK, Ticks, OnlyInBox, BoxFound, BoxChosen, ChooseOff, Idle
  <2> QED
    BY <1>0, <1>1, <1>a, <2>1 DEF SandboxInv, ChooseOff
<1>2. CASE NoSandbox \/ ProbeNotStarted
  <2>1. tick' = FallBack(tick) /\ mode \in {"on", "auto"}
    BY <1>m, <1>2 DEF NoSandbox, ProbeNotStarted
  <2>2. UNCHANGED <<mode, machine, call, threads, worker, early>>
    BY <1>2 DEF NoSandbox, ProbeNotStarted
  <2>3. OnlyInBox'
    BY <1>0, <1>i, <2>1, <2>2, FallBackFacts DEF SandboxInv, TypeOK, OnlyInBox, Idle
  <2>4. BoxFound'
    BY <1>0, <1>i, <2>1, <2>2, FallBackFacts DEF SandboxInv, TypeOK, BoxFound, Idle
  <2>5. BoxChosen'
    BY <1>0, <1>i, <2>1, <2>2, FallBackFacts DEF TypeOK, BoxChosen, Idle
  <2> QED
    BY <1>0, <1>2, <1>a, <2>2, <2>3, <2>4, <2>5 DEF SandboxInv
<1>3. CASE NextTick
  <2>1. OnlyInBox' /\ BoxFound' /\ BoxChosen'
    BY <1>0, <1>i, <1>3 DEF SandboxInv, TypeOK, Ticks, OnlyInBox, BoxFound, BoxChosen, NextTick,
       NewTick, Idle
  <2> QED
    BY <1>0, <1>3, <1>a, <2>1 DEF SandboxInv, NextTick
<1>4. CASE ScanInProcess
  <2>1. OnlyInBox' /\ BoxFound' /\ BoxChosen'
    BY <1>0, <1>i, <1>4 DEF SandboxInv, TypeOK, Ticks, OnlyInBox, BoxFound, BoxChosen,
       ScanInProcess, Scanning, Idle
  <2> QED
    BY <1>0, <1>4, <1>a, <2>1 DEF SandboxInv, ScanInProcess
<1>5. CASE Probe \/ ScanInBox
  <2>0. PICK p : Start(p)
    BY <1>5 DEF Probe, ScanInBox
  <2>c. call'.at = "launched" /\ call'.out = 0 /\ ~call'.over
    BY <2>0 DEF Start, NoCall
  <2>1. /\ call'.at = "launched" /\ call'.out = 0 /\ ~call'.over
        /\ worker'.at = "boot" /\ worker'.child = "up" /\ worker'.says = "nothing"
        /\ worker'.size = 0 /\ worker'.left = 0 /\ worker'.pipe = 0
        /\ threads'.drainer = "off"
        /\ UNCHANGED <<mode, machine, early>>
    BY <2>0, <2>c DEF Start, NoWorker, NoThreads
  <2>2. /\ tick'.phase = tick.phase /\ tick'.box = tick.box /\ tick'.held = tick.held
        /\ tick'.warned = tick.warned
        /\ \/ Probe /\ call'.for = "probe" /\ tick.phase = "choosing" /\ tick'.where = tick.where
              /\ machine # "none"
           \/ ScanInBox /\ call'.for = "scan" /\ tick.phase = "scanning" /\ tick'.where = "box"
              /\ tick.box # "off"
    BY <1>0, <1>5 DEF TypeOK, Ticks, Probe, ScanInBox, Choosing, Scanning, Start, NoCall
  <2>3. OnlyInBox' /\ BoxFound' /\ BoxChosen' /\ Stopped'
    BY <1>i, <2>1, <2>2 DEF SandboxInv, OnlyInBox, BoxFound, BoxChosen, Stopped, Idle
  <2>4. Cleared' /\ WorkerKnown' /\ ReadUp' /\ ReplyWhole'
    BY <2>1 DEF Cleared, WorkerKnown, ReadUp, ReplyWhole, Idle, Alive
  <2>5. Counted'
    BY <1>n, <2>1 DEF Counted
  <2> QED
    BY <1>0, <2>3, <2>4, <2>5 DEF SandboxInv
<1>6. CASE ScanNotStarted
  <2>1. /\ call'.at = "idle" /\ call'.out = 0 /\ ~call'.over /\ call'.for = "scan"
        /\ call'.outcome = "error"
        /\ worker'.at = "none" /\ worker'.child = "none" /\ worker'.says = "nothing"
        /\ worker'.size = 0 /\ worker'.left = 0 /\ worker'.pipe = 0
        /\ threads'.drainer = "off" /\ threads'.timer = "off"
        /\ UNCHANGED <<mode, machine, tick, early>>
    BY <1>6 DEF ScanNotStarted, NoCall, NoWorker, NoThreads
  <2>2. OnlyInBox' /\ BoxFound' /\ BoxChosen' /\ Stopped'
    BY <1>i, <2>1 DEF SandboxInv, OnlyInBox, BoxFound, BoxChosen, Stopped, Idle
  <2>3. Cleared' /\ WorkerKnown' /\ ReadUp' /\ ReplyWhole'
    BY <2>1 DEF Cleared, WorkerKnown, ReadUp, ReplyWhole, Idle, Alive
  <2>4. Counted'
    BY <1>n, <2>1 DEF Counted
  <2> QED
    BY <1>0, <2>2, <2>3, <2>4 DEF SandboxInv
<1> QED
  BY <1>1, <1>2, <1>3, <1>4, <1>5, <1>6 DEF Commands

\* The main thread.
LEMMA MainKeeps ==
    ASSUME SandboxInv, MainThread \/ Interrupt
    PROVE  SandboxInv'
<1>0. /\ TypeOK /\ TypeOK' /\ call \in Calls /\ worker \in Workers
      /\ threads \in Threads /\ tick \in Ticks
  BY MainTypes DEF SandboxInv, TypeOK
<1>i. ~Idle /\ ~early
  BY DEF SandboxInv, Stopped, Idle, MainThread, StartTimer, StartThreads, ReadChunk, ReadEnd, Wait,
     Finally, Reap, Join, Judge, Interrupt, Main
<1>j. ASSUME call'.at # "idle" PROVE ReplyWhole'
  BY <1>j DEF ReplyWhole, Idle
<1>f. ASSUME NEW from, NEW to, Main(from, to)
      PROVE  /\ call.at = from /\ call'.at = to /\ call'.for = call.for
             /\ call'.outcome = call.outcome /\ call'.out = call.out /\ call'.over = call.over
  BY <1>0, <1>f DEF Main, Calls
<1>1. CASE StartTimer
  <2>1. call.at = "launched" /\ call'.at = "start threads" /\ UNCHANGED <<Config, worker>>
    BY <1>1, <1>f DEF StartTimer
  <2>2. threads'.drainer = threads.drainer
    BY <1>0, <1>1 DEF StartTimer, Threads
  <2>3. OnlyInBox' /\ BoxFound' /\ BoxChosen' /\ Stopped'
    BY <1>1, <1>f, <2>1, SameCommand DEF StartTimer, Idle, SandboxInv, Stopped
  <2>4. Cleared' /\ WorkerKnown' /\ ReadUp'
    BY <2>1, <2>2 DEF SandboxInv, Cleared, WorkerKnown, ReadUp, Idle, Alive, Config
  <2>5. Counted'
    BY <1>1, <1>f, <2>1, SameCounts DEF StartTimer
  <2> QED
    BY <1>0, <1>j, <2>1, <2>3, <2>4, <2>5 DEF SandboxInv
<1>2. CASE StartThreads
  <2>1. call.at = "start threads" /\ call'.at = "read" /\ UNCHANGED <<Config, worker>>
    BY <1>2, <1>f DEF StartThreads
  <2>2. threads'.drainer = "on"
    BY <1>0, <1>2 DEF StartThreads, Threads
  <2>3. OnlyInBox' /\ BoxFound' /\ BoxChosen' /\ Stopped'
    BY <1>2, <1>f, <2>1, SameCommand DEF StartThreads, Idle, SandboxInv, Stopped
  <2>4. Cleared' /\ WorkerKnown' /\ ReadUp'
    BY <2>1, <2>2 DEF SandboxInv, Cleared, WorkerKnown, ReadUp, Idle, Alive, Config
  <2>5. Counted'
    BY <1>2, <1>f, <2>1, SameCounts DEF StartThreads
  <2> QED
    BY <1>0, <1>j, <2>1, <2>3, <2>4, <2>5 DEF SandboxInv
<1>3. CASE ReadChunk
  <2> DEFINE over == call.out + 1 > Cap
             w == [worker EXCEPT !.pipe = @ - 1]
  <2>1. call.at = "read" /\ worker.pipe > 0 /\ UNCHANGED <<Config, threads>>
    BY <1>3 DEF ReadChunk
  <2>2. /\ w \in Workers /\ w.left = worker.left /\ w.pipe = worker.pipe - 1
        /\ w.size = worker.size /\ w.says = worker.says /\ w.child = worker.child /\ w.at = worker.at
    BY <1>0, <2>1 DEF Workers, Words
  <2>3. worker' = IF over THEN Kill(w) ELSE w
    BY <1>3 DEF ReadChunk
  <2>4. /\ worker'.left = worker.left /\ worker'.pipe = worker.pipe - 1
        /\ worker'.size = worker.size /\ worker'.says = worker.says
    BY <2>2, <2>3, KillFacts
  <2>5. /\ worker'.child = IF over /\ worker.child = "up" THEN "dead" ELSE worker.child
        /\ worker'.at = IF over /\ worker.child = "up" /\ machine # "systemd" THEN "gone"
                        ELSE worker.at
    BY <2>2, <2>3, KillFacts
  <2>6. call' = [call EXCEPT !.out = @ + 1, !.over = over, !.at = IF over THEN "wait" ELSE @]
    BY <1>3 DEF ReadChunk
  <2>7. /\ call'.out = call.out + 1 /\ call'.at = IF over THEN "wait" ELSE "read"
        /\ call'.for = call.for /\ call'.outcome = call.outcome
    BY <1>0, <2>1, <2>6 DEF Calls
  <2>8. call'.over <=> over
    BY <1>0, <2>6 DEF Calls
  <2> HIDE DEF over
  <2>9. OnlyInBox' /\ BoxFound' /\ BoxChosen' /\ Stopped'
    BY <2>1, <2>7, SameCommand DEF Idle, SandboxInv, Stopped
  <2>10. Cleared' /\ ReadUp'
    BY <1>i, <2>1, <2>7, <2>8 DEF Cleared, ReadUp, Idle, Config
  <2>11. WorkerKnown'
    BY <1>i, <2>1, <2>5, <2>7 DEF SandboxInv, WorkerKnown, Idle, Alive, Config
  <2>12. Counted'
    <3>1. worker'.left + worker'.pipe + call'.out = worker'.size
      BY <1>0, <2>4, <2>7, Numbers DEF SandboxInv, Counted
    <3>2. worker.at \notin {"none", "boot", "working"} /\ worker'.at \notin {"none", "boot", "working"}
      BY <2>1, <2>5 DEF SandboxInv, Counted
    <3>3. call'.over <=> call'.out > Cap
      BY <2>7, <2>8 DEF over
    <3> QED
      BY <2>4, <2>7, <3>1, <3>2, <3>3 DEF SandboxInv, Counted
  <2> QED
    BY <1>0, <1>j, <2>7, <2>9, <2>10, <2>11, <2>12 DEF SandboxInv
<1>4. CASE ReadEnd
  <2>1. /\ call.at = "read" /\ call'.at = "wait" /\ worker.pipe = 0 /\ ~StdoutOpen
        /\ UNCHANGED <<Config, threads, worker>>
    BY <1>4, <1>f DEF ReadEnd
  <2>2. OnlyInBox' /\ BoxFound' /\ BoxChosen' /\ Stopped'
    BY <1>4, <1>f, <2>1, SameCommand DEF ReadEnd, Idle, SandboxInv, Stopped
  <2>3. Cleared' /\ WorkerKnown' /\ ReadUp'
    BY <2>1 DEF SandboxInv, Cleared, WorkerKnown, ReadUp, Idle, Alive, StdoutOpen, Config
  <2>4. Counted'
    BY <1>4, <1>f, <2>1, SameCounts DEF ReadEnd
  <2> QED
    BY <1>0, <1>j, <2>1, <2>2, <2>3, <2>4 DEF SandboxInv
<1>5. CASE Wait
  <2>1. /\ call.at = "wait" /\ call'.at = "finally" /\ call'.over = call.over
        /\ worker.child = "dead" /\ UNCHANGED <<Config, threads>>
    BY <1>5, <1>f DEF Wait
  <2>2. /\ worker'.child = "reaped" /\ worker'.at = worker.at /\ worker'.left = worker.left
        /\ worker'.pipe = worker.pipe /\ worker'.size = worker.size /\ worker'.says = worker.says
    BY <1>0, <1>5 DEF Wait, Workers
  <2>3. OnlyInBox' /\ BoxFound' /\ BoxChosen' /\ Stopped'
    BY <1>5, <1>f, <2>1, SameCommand DEF Wait, Idle, SandboxInv, Stopped
  <2>4. Cleared' /\ WorkerKnown' /\ ReadUp'
    BY <1>i, <2>1, <2>2 DEF SandboxInv, Cleared, WorkerKnown, ReadUp, Idle, Alive, StdoutOpen, Config
  <2>5. Counted'
    BY <1>5, <1>f, <2>2, SameCounts DEF Wait
  <2> QED
    BY <1>0, <1>j, <2>1, <2>3, <2>4, <2>5 DEF SandboxInv
<1>6. CASE Finally
  <2>1. /\ call.at = "finally" /\ call'.at = "reap" /\ call'.over = call.over
        /\ worker' = Kill(worker) /\ UNCHANGED Config
    BY <1>6, <1>f DEF Finally
  <2>2. threads'.timer # "armed" /\ threads'.drainer = threads.drainer
    BY <1>0, <1>6 DEF Finally, Threads
  <2>3. OnlyInBox' /\ BoxFound' /\ BoxChosen' /\ Stopped'
    BY <1>6, <1>f, <2>1, SameCommand DEF Finally, Idle, SandboxInv, Stopped
  <2>4. worker.child # "none" /\ worker'.child \in {"dead", "reaped"}
    BY <1>0, <1>i, <2>1, KillFacts DEF SandboxInv, WorkerKnown, Workers
  <2>5. Cleared'
    BY <1>i, <2>1, <2>2, <2>4 DEF Cleared, Idle, Config
  <2>6. WorkerKnown' /\ ReadUp'
    BY <1>0, <1>i, <2>1, <2>2, <2>4, KillFacts
    DEF SandboxInv, WorkerKnown, ReadUp, Idle, Alive, StdoutOpen, Config
  <2>7. Counted'
    BY <1>0, <1>6, <1>f, <2>1, KillFacts, SameCounts DEF Finally
  <2> QED
    BY <1>0, <1>j, <2>1, <2>3, <2>5, <2>6, <2>7 DEF SandboxInv
<1>7. CASE Reap
  <2>1. /\ worker'.child = "reaped" /\ worker'.at = worker.at /\ worker'.left = worker.left
        /\ worker'.pipe = worker.pipe /\ worker'.size = worker.size /\ worker'.says = worker.says
    BY <1>0, <1>7 DEF Reap, Workers
  <2>2. /\ call.at = "reap" /\ worker.child \in {"dead", "reaped"}
        /\ UNCHANGED <<mode, machine, threads, early>>
    BY <1>7 DEF Reap
  <2>3. /\ call'.for = call.for /\ call'.out = call.out /\ call'.over = call.over
        /\ tick'.where = tick.where /\ tick'.held = tick.held /\ tick'.warned = tick.warned
        /\ tick'.box = tick.box
        /\ \/ /\ tick.phase = "stopping" /\ tick'.phase = "stopped"
              /\ call'.at = "idle" /\ call'.outcome = "interrupted"
           \/ /\ tick.phase # "stopping" /\ tick'.phase = tick.phase
              /\ call'.at = "join" /\ call'.outcome = call.outcome
    BY <1>0, <1>7 DEF Reap, Calls, Ticks
  <2>4. OnlyInBox' /\ BoxFound' /\ BoxChosen' /\ Stopped'
    BY <1>i, <2>2, <2>3 DEF SandboxInv, OnlyInBox, BoxFound, BoxChosen, Stopped, Idle
  <2>5. Cleared' /\ WorkerKnown' /\ ReplyWhole'
    BY <1>i, <2>1, <2>2, <2>3 DEF SandboxInv, Cleared, WorkerKnown, ReplyWhole, Idle, Alive
  <2>6. ReadUp'
    BY <2>1, <2>2, <2>3 DEF SandboxInv, ReadUp, StdoutOpen
  <2>7. Counted'
    BY <2>1, <2>3, SameCounts
  <2> QED
    BY <1>0, <2>4, <2>5, <2>6, <2>7 DEF SandboxInv
<1>8. CASE Join
  <2>1. /\ call.at = "join" /\ call'.at = "judge" /\ call'.over = call.over
        /\ threads.drainer = "over" /\ UNCHANGED <<Config, threads, worker>>
    BY <1>8, <1>f DEF Join
  <2>2. OnlyInBox' /\ BoxFound' /\ BoxChosen' /\ Stopped'
    BY <1>8, <1>f, <2>1, SameCommand DEF Join, Idle, SandboxInv, Stopped
  <2>3. Cleared' /\ WorkerKnown' /\ ReadUp'
    BY <1>i, <2>1 DEF SandboxInv, Cleared, WorkerKnown, ReadUp, Idle, Alive, StdoutOpen, Config
  <2>4. Counted'
    BY <1>8, <1>f, <2>1, SameCounts DEF Join
  <2> QED
    BY <1>0, <1>j, <2>1, <2>2, <2>3, <2>4 DEF SandboxInv
<1>9. CASE Judge
  <2> DEFINE outcome == IF call.late \/ call.over \/ worker.code # "ok" THEN "error" ELSE Reply
  <2>1. /\ call.at = "judge" /\ call' = [call EXCEPT !.at = "idle", !.outcome = outcome]
        /\ tick' = IF call.for = "probe" THEN Chosen(outcome) ELSE tick
        /\ UNCHANGED <<mode, machine, threads, worker, early>>
    BY <1>9 DEF Judge
  <2>2. /\ call'.at = "idle" /\ call'.outcome = outcome /\ call'.for = call.for
        /\ call'.out = call.out
    BY <1>0, <2>1 DEF Calls
  <2>3. call'.over = call.over /\ call'.late = call.late
    BY <1>0, <2>1 DEF Calls
  <2>4. /\ threads.timer # "armed" /\ worker.child = "reaped" /\ ~Alive /\ worker.at = "gone"
        /\ tick.phase # "stopping" /\ machine \in {"seatbelt", "systemd"}
    BY <1>0, <1>i, <2>1, MachinesAssumption
    DEF SandboxInv, Cleared, WorkerKnown, Stopped, BoxFound, TypeOK, Workers, Alive
  <2>5. \/ call.for = "probe" /\ tick.phase = "choosing"
        \/ call.for = "scan" /\ tick.phase = "scanning"
    BY <1>0, <1>i, <2>4 DEF SandboxInv, BoxChosen, TypeOK, Calls
  <2>6. ReplyWhole'
    <3>1. worker.left + worker.pipe + call.out = worker.size /\ (call.over <=> call.out > Cap)
      BY DEF SandboxInv, Counted
    <3>2. ~call.over => worker.pipe = 0
      BY <2>1, <2>4 DEF SandboxInv, ReadUp
    <3>3. call.over => worker.size > Cap
      BY <1>0, <3>1, Numbers, SizesAssumption
    <3>4. ~call.over /\ worker.left = 0 => call.out = worker.size /\ worker.size <= Cap
      BY <1>0, <3>1, <3>2, Numbers, SizesAssumption
    <3>5. call.for = "scan" => worker.says # "held"
      BY DEF SandboxInv, Counted
    <3> DEFINE whole == /\ worker.code = "ok" /\ ~call.late
                        /\ worker.says \in {"scanned", "refused"}
                        /\ worker.left = 0 /\ worker.size <= Cap
    <3>6. whole => ~call.over /\ call.out = worker.size
      BY <1>0, <3>3, <3>4, Numbers, SizesAssumption
    <3>7. call.for = "scan" => outcome = IF whole THEN worker.says ELSE "error"
      BY <3>4, <3>5, <3>6 DEF Reply
    <3> HIDE DEF outcome
    <3> QED
      BY <2>1, <2>2, <2>3, <2>4, <3>7 DEF ReplyWhole
  <2> HIDE DEF outcome
  <2>7. /\ tick'.where = tick.where
        /\ tick'.phase \in {"scanning", "stopped"}
        /\ tick'.warned \/ tick'.warned = tick.warned
        /\ tick'.phase = "scanning" =>
              \/ tick' = tick
              \/ tick'.box = machine /\ tick'.held
              \/ tick'.box = "off" /\ mode # "on" /\ tick'.warned
        /\ tick'.box \in {tick.box, "off", machine}
    <3>1. CASE call.for = "scan"
      BY <2>1, <2>5, <3>1
    <3>2. CASE call.for = "probe" /\ outcome = "held"
      BY <1>0, <2>1, <3>2 DEF Chosen, Ticks
    <3>3. CASE call.for = "probe" /\ outcome # "held"
      BY <1>0, <2>1, <3>3, FallBackFacts DEF Chosen
    <3> QED
      BY <2>5, <3>1, <3>2, <3>3
  <2>8. OnlyInBox' /\ BoxFound' /\ BoxChosen' /\ Stopped'
    <3>1. mode \in {"on", "auto", "off"}
      BY <1>0, ModesAssumption DEF TypeOK
    <3> QED
      BY <1>i, <2>1, <2>2, <2>4, <2>7, <3>1
      DEF SandboxInv, OnlyInBox, BoxFound, BoxChosen, Stopped, Idle
  <2>9. Cleared' /\ WorkerKnown' /\ ReadUp'
    BY <1>i, <2>1, <2>2, <2>4 DEF SandboxInv, Cleared, WorkerKnown, ReadUp, Idle, Alive
  <2>10. Counted'
    BY <2>1, <2>2, <2>3, SameCounts
  <2> QED
    BY <1>0, <2>6, <2>8, <2>9, <2>10 DEF SandboxInv
<1>10. CASE Interrupt
  <2>1. /\ call'.for = call.for /\ call'.out = call.out /\ call'.over = call.over
        /\ UNCHANGED <<mode, machine, threads, worker>>
    BY <1>0, <1>10 DEF Interrupt, Calls
  <2>2. /\ tick'.where = tick.where /\ tick'.held = tick.held /\ tick'.warned = tick.warned
        /\ tick'.box = tick.box /\ tick'.phase \in {"stopping", "stopped"}
    BY <1>0, <1>10 DEF Interrupt, Ticks
  <2>3. /\ tick.phase # "stopping"
        /\ \/ call.at \in {"read", "wait"} /\ call'.at = "finally" /\ tick'.phase = "stopping"
              /\ ~early'
           \/ /\ call.at \in {"join", "launched", "start threads"}
              /\ call'.at = "idle" /\ call'.outcome = "interrupted" /\ tick'.phase = "stopped"
              /\ call.at = "join" \/ early'
    <3>1. CASE call.at \in {"read", "wait"}
      <4>1. /\ call' = [call EXCEPT !.at = "finally"]
            /\ tick.phase # "stopping" /\ tick' = [tick EXCEPT !.phase = "stopping"]
        BY <1>10, <3>1 DEF Interrupt
      <4>2. ~early'
        BY <1>i, <1>10, <3>1, Zenon DEF Interrupt
      <4> QED
        BY <1>0, <3>1, <4>1, <4>2 DEF Calls, Ticks
    <3>2. CASE call.at \notin {"read", "wait"}
      <4>1. /\ call.at \in {"join", "launched", "start threads"}
            /\ call' = [call EXCEPT !.at = "idle", !.outcome = "interrupted"]
            /\ tick.phase # "stopping" /\ tick' = [tick EXCEPT !.phase = "stopped"]
        BY <1>10, <3>2 DEF Interrupt
      <4>2. call.at = "join" \/ early'
        BY <1>10, <3>2, Zenon DEF Interrupt
      <4> QED
        BY <1>0, <4>1, <4>2 DEF Calls, Ticks
    <3> QED
      BY <3>1, <3>2
  <2>4. OnlyInBox' /\ BoxFound' /\ BoxChosen' /\ Stopped'
    BY <1>i, <2>1, <2>2, <2>3
    DEF SandboxInv, OnlyInBox, BoxFound, BoxChosen, Stopped, Idle
  <2>5. Cleared' /\ WorkerKnown' /\ ReadUp' /\ ReplyWhole'
    BY <1>i, <2>1, <2>2, <2>3
    DEF SandboxInv, Cleared, WorkerKnown, ReadUp, ReplyWhole, Idle, Alive
  <2>6. Counted'
    BY <2>1, SameCounts
  <2> QED
    BY <1>0, <2>4, <2>5, <2>6 DEF SandboxInv
<1> QED
  BY <1>1, <1>2, <1>3, <1>4, <1>5, <1>6, <1>7, <1>8, <1>9, <1>10 DEF MainThread

\* The threads beside it and the worker.
LEMMA BesideKeeps ==
    ASSUME SandboxInv, Beside
    PROVE  SandboxInv'
<1>0. TypeOK /\ TypeOK' /\ call \in Calls /\ worker \in Workers /\ threads \in Threads
  BY BesideTypes DEF SandboxInv, TypeOK
<1>c. /\ call'.at = call.at /\ call'.for = call.for /\ call'.outcome = call.outcome
      /\ call'.out = call.out /\ call'.over = call.over /\ UNCHANGED Config
  BY <1>0 DEF Beside, TimerExpires, TimerKills, Feed, FeedBreaks, DrainEnds, Answers, Writes,
     Exits, Dies, ClosesStdout, ClientEnds, UnitExpires, Worker, Config, Calls
<1>b. OnlyInBox' /\ BoxFound' /\ BoxChosen' /\ Stopped'
  BY <1>c, SameCommand DEF SandboxInv, Stopped, Idle
<1>r. ReplyWhole'
  <2>1. CASE Idle /\ call.outcome # "interrupted"
    BY <2>1, Settled DEF SandboxInv, ReplyWhole, Idle
  <2>2. CASE ~(Idle /\ call.outcome # "interrupted")
    BY <1>c, <2>2 DEF ReplyWhole, Idle
  <2> QED
    BY <2>1, <2>2
<1>1. CASE TimerExpires
  <2>1. threads'.drainer = threads.drainer /\ threads'.timer = "firing" /\ UNCHANGED worker
    BY <1>0, <1>1 DEF TimerExpires, Threads
  <2>2. Cleared' /\ WorkerKnown' /\ ReadUp'
    BY <1>c, <2>1 DEF SandboxInv, Cleared, WorkerKnown, ReadUp, Idle, Alive, StdoutOpen, Config
  <2> QED
    BY <1>0, <1>b, <1>r, <1>c, <2>1, <2>2, SameCounts DEF SandboxInv
<1>2. CASE TimerKills
  <2>1. threads'.drainer = threads.drainer /\ threads'.timer = "over" /\ worker' = Kill(worker)
    BY <1>0, <1>2 DEF TimerKills, Threads
  <2>2. worker'.child = IF worker.child = "up" THEN "dead" ELSE worker.child
    BY <1>0, <2>1, KillFacts
  <2>3. worker'.at = IF worker.child = "up" /\ machine # "systemd" THEN "gone" ELSE worker.at
    BY <1>0, <2>1, KillFacts
  <2>4. worker'.pipe = worker.pipe
    BY <1>0, <2>1, KillFacts
  <2>5. Cleared' /\ WorkerKnown' /\ ReadUp'
    BY <1>c, <2>1, <2>2, <2>3, <2>4
    DEF SandboxInv, Cleared, WorkerKnown, ReadUp, Idle, Alive, StdoutOpen, Config
  <2>6. Counted'
    BY <1>0, <1>c, <2>1, KillFacts, SameCounts
  <2> QED
    BY <1>0, <1>b, <1>r, <2>5, <2>6 DEF SandboxInv
<1>3. CASE Feed
  <2>1. /\ threads'.drainer = threads.drainer /\ threads'.timer = threads.timer
        /\ worker.at = "boot" /\ worker'.at = "working" /\ worker'.child = worker.child
        /\ worker'.left = worker.left /\ worker'.pipe = worker.pipe
        /\ worker'.size = worker.size /\ worker'.says = worker.says
    BY <1>0, <1>3 DEF Feed, Threads, Workers
  <2>2. Cleared' /\ WorkerKnown' /\ ReadUp'
    BY <1>c, <2>1 DEF SandboxInv, Cleared, WorkerKnown, ReadUp, Idle, Alive, StdoutOpen, Config
  <2> QED
    BY <1>0, <1>b, <1>r, <1>c, <2>1, <2>2, SameCounts DEF SandboxInv
<1>4. CASE FeedBreaks
  <2>1. threads'.drainer = threads.drainer /\ threads'.timer = threads.timer /\ UNCHANGED worker
    BY <1>0, <1>4 DEF FeedBreaks, Threads
  <2>2. Cleared' /\ WorkerKnown' /\ ReadUp'
    BY <1>c, <2>1 DEF SandboxInv, Cleared, WorkerKnown, ReadUp, Idle, Alive, StdoutOpen, Config
  <2> QED
    BY <1>0, <1>b, <1>r, <1>c, <2>1, <2>2, SameCounts DEF SandboxInv
<1>5. CASE DrainEnds
  <2>1. /\ ~StderrOpen /\ threads'.drainer = "over" /\ threads'.timer = threads.timer
        /\ UNCHANGED worker
    BY <1>0, <1>5 DEF DrainEnds, Threads
  <2>2. Cleared' /\ WorkerKnown' /\ ReadUp'
    BY <1>c, <2>1
    DEF SandboxInv, Cleared, WorkerKnown, ReadUp, Idle, Alive, StdoutOpen, StderrOpen, Config
  <2> QED
    BY <1>0, <1>b, <1>r, <1>c, <2>1, <2>2, SameCounts DEF SandboxInv
<1>6. CASE Answers
  <2>1. PICK word \in Says(call.for), size \in 1..MaxReply :
            worker' = [worker EXCEPT !.at = "writing", !.says = word, !.size = size, !.left = size]
    BY <1>6 DEF Answers
  <2>2. /\ worker'.at = "writing" /\ worker'.child = worker.child /\ worker'.pipe = worker.pipe
        /\ worker'.says = word /\ worker'.size = size /\ worker'.left = size
    BY <1>0, <2>1 DEF Workers
  <2>3. worker.at = "working" /\ UNCHANGED threads
    BY <1>6 DEF Answers, Worker
  <2>4. Cleared' /\ WorkerKnown' /\ ReadUp'
    BY <1>c, <2>2, <2>3 DEF SandboxInv, Cleared, WorkerKnown, ReadUp, Idle, Alive, StdoutOpen, Config
  <2>5. Counted'
    <3>1. worker.size = 0 /\ worker.left = 0 /\ worker.pipe = 0 /\ call.out = 0
      BY <1>0, <2>3, Numbers DEF SandboxInv, Counted
    <3>2. size \in Nat
      BY SizesAssumption
    <3>3. call.for = "scan" => word # "held"
      BY DEF Says
    <3>4. worker'.left + worker'.pipe + call'.out = worker'.size
      BY <1>c, <2>2, <3>1, <3>2
    <3> QED
      BY <1>c, <2>2, <3>3, <3>4 DEF SandboxInv, Counted
  <2> QED
    BY <1>0, <1>b, <1>r, <2>4, <2>5 DEF SandboxInv
<1>7. CASE Writes
  <2>1. /\ worker'.at = worker.at /\ worker'.child = worker.child
        /\ worker'.left = worker.left - 1 /\ worker'.pipe = worker.pipe + 1
        /\ worker'.size = worker.size /\ worker'.says = worker.says
    BY <1>0, <1>7 DEF Writes, Workers
  <2>2. worker.at = "writing" /\ UNCHANGED threads
    BY <1>7 DEF Writes, Worker
  <2>3. Cleared' /\ WorkerKnown' /\ ReadUp'
    BY <1>c, <2>1, <2>2 DEF SandboxInv, Cleared, WorkerKnown, ReadUp, Idle, Alive, StdoutOpen, Config
  <2>4. worker'.left + worker'.pipe + call'.out = worker'.size
    BY <1>0, <1>c, <2>1, Numbers DEF SandboxInv, Counted
  <2>5. Counted'
    BY <1>c, <2>1, <2>2, <2>4 DEF SandboxInv, Counted
  <2> QED
    BY <1>0, <1>b, <1>r, <2>3, <2>5 DEF SandboxInv
<1>8. CASE Exits \/ Dies \/ UnitExpires
  <2>1. PICK code \in {"ok", "failed"} : worker' = Ended(worker, code)
    BY <1>8 DEF Exits, Dies, UnitExpires
  <2>2. /\ worker'.at = "gone"
        /\ worker'.child = IF machine = "systemd" THEN worker.child ELSE "dead"
        /\ worker'.pipe = worker.pipe
    BY <1>0, <2>1, EndedFacts
  <2>3. Alive /\ UNCHANGED threads
    BY <1>8 DEF Exits, Dies, UnitExpires, Worker, Alive
  <2>4. Cleared' /\ WorkerKnown' /\ ReadUp'
    BY <1>c, <2>2, <2>3 DEF SandboxInv, Cleared, WorkerKnown, ReadUp, Idle, Alive, StdoutOpen, Config
  <2>5. Counted'
    BY <1>0, <1>c, <2>1, EndedFacts, SameCounts
  <2> QED
    BY <1>0, <1>b, <1>r, <2>4, <2>5 DEF SandboxInv
<1>9. CASE ClosesStdout
  <2>1. /\ worker.at \in {"working", "writing"} /\ worker'.at = "closed"
        /\ worker'.child = worker.child /\ worker'.left = worker.left
        /\ worker'.pipe = worker.pipe /\ worker'.size = worker.size
        /\ worker'.says = worker.says /\ UNCHANGED threads
    BY <1>0, <1>9 DEF ClosesStdout, Workers, Worker
  <2>2. Cleared' /\ WorkerKnown' /\ ReadUp'
    BY <1>c, <2>1 DEF SandboxInv, Cleared, WorkerKnown, ReadUp, Idle, Alive, StdoutOpen, Config
  <2> QED
    BY <1>0, <1>b, <1>r, <1>c, <2>1, <2>2, SameCounts DEF SandboxInv
<1>10. CASE ClientEnds
  <2>1. /\ worker.at = "gone" /\ worker.child = "up" /\ worker'.at = worker.at
        /\ worker'.child = "dead" /\ worker'.left = worker.left
        /\ worker'.pipe = worker.pipe /\ worker'.size = worker.size
        /\ worker'.says = worker.says /\ UNCHANGED threads
    BY <1>0, <1>10 DEF ClientEnds, Workers, Worker
  <2>2. Cleared' /\ WorkerKnown' /\ ReadUp'
    BY <1>c, <2>1 DEF SandboxInv, Cleared, WorkerKnown, ReadUp, Idle, Alive, StdoutOpen, Config
  <2> QED
    BY <1>0, <1>b, <1>r, <1>c, <2>1, <2>2, SameCounts DEF SandboxInv
<1> QED
  BY <1>1, <1>2, <1>3, <1>4, <1>5, <1>6, <1>7, <1>8, <1>9, <1>10 DEF Beside

\* The invariant holds at first.
LEMMA InitInv ==
    ASSUME Init
    PROVE  SandboxInv
<1>1. TypeOK
  BY NewTypes DEF Init, TypeOK
<1>2. /\ call.at = "idle" /\ call.for = "probe" /\ call.out = 0 /\ ~call.over
      /\ tick.phase = "choosing" /\ tick.box = "unset" /\ tick.where = "nowhere"
      /\ threads.timer = "off" /\ threads.drainer = "off" /\ ~early
      /\ worker.at = "none" /\ worker.child = "none" /\ worker.says = "nothing"
      /\ worker.size = 0 /\ worker.left = 0 /\ worker.pipe = 0
  BY DEF Init, NewTick, NoCall, NoThreads, NoWorker
<1>3. OnlyInBox /\ BoxFound /\ BoxChosen /\ Stopped
  BY <1>2 DEF OnlyInBox, BoxFound, BoxChosen, Stopped, Idle
<1>4. Cleared /\ WorkerKnown /\ ReadUp /\ ReplyWhole
  BY <1>2 DEF Cleared, WorkerKnown, ReadUp, ReplyWhole, Idle, Alive
<1>5. Counted
  BY <1>2, SizesAssumption DEF Counted
<1> QED
  BY <1>1, <1>3, <1>4, <1>5 DEF SandboxInv

\* And in a step that changes nothing.
LEMMA StutterInv ==
    ASSUME SandboxInv, UNCHANGED vars
    PROVE  SandboxInv'
BY DEF vars, SandboxInv, TypeOK, OnlyInBox, BoxFound, BoxChosen, Stopped, Cleared, WorkerKnown,
   Counted, ReadUp, ReplyWhole, Idle, Alive, StdoutOpen

\* What the theorems rest on: the invariant is kept from the first state on.
THEOREM InvariantHolds == Spec => []SandboxInv
<1>1. SandboxInv /\ [Next]_vars => SandboxInv'
  <2> SUFFICES ASSUME SandboxInv, [Next]_vars PROVE SandboxInv'
    OBVIOUS
  <2>1. CASE Commands
    BY <2>1, CommandsKeep
  <2>2. CASE MainThread \/ Interrupt
    BY <2>2, MainKeeps
  <2>3. CASE Beside
    BY <2>3, BesideKeeps
  <2>4. CASE UNCHANGED vars
    BY <2>4, StutterInv
  <2> QED
    BY <2>1, <2>2, <2>3, <2>4 DEF Next, Beside
<1> QED
  BY InitInv, <1>1, PTL DEF Spec

\* The command, its call, threads and worker keep their types.
THEOREM SandboxTypeCorrect == Spec => []TypeOK
<1>1. SandboxInv => TypeOK
  BY DEF SandboxInv
<1> QED
  BY <1>1, InvariantHolds, PTL

\* Package bytes are parsed in a sandbox that held when this command probed it, or in
\* this process under "off", or under "auto" after a warning (choose, analyze).
THEOREM ParsedInBox == Spec => []OnlyInBox
<1>1. SandboxInv => OnlyInBox
  BY DEF SandboxInv
<1> QED
  BY <1>1, InvariantHolds, PTL

\* A release is scanned or refused exactly on the whole reply, within the cap, of a
\* worker that ended by itself and in time (_run, _decode_output).
THEOREM ReplyCounts == Spec => []ReplyWhole
<1>1. SandboxInv => ReplyWhole
  BY DEF SandboxInv
<1> QED
  BY <1>1, InvariantHolds, PTL

\* A call that is over leaves no child and no armed timer, and one that returned no
\* worker; all but after an interrupt before the try (finally of _run).
THEOREM LeavesNothing == Spec => []NothingLeft
<1>1. SandboxInv => NothingLeft
  BY DEF SandboxInv, TypeOK, Cleared, WorkerKnown, NothingLeft, Idle, Alive
<1> QED
  BY <1>1, InvariantHolds, PTL

=============================================================================
