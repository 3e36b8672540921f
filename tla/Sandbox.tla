-------------------------------- MODULE Sandbox --------------------------------
(***************************************************************************)
(* The parse sandbox of pydiffwatch (sandbox.py, _parse_worker.py): each   *)
(* scanning command first chooses where package bytes are parsed, with a   *)
(* probe of the sandbox, then has each release parsed by a worker process  *)
(* of its own.  One call of _run is the main thread, a timer, a thread     *)
(* that feeds the request and one that drains stderr, and the worker,      *)
(* which may answer, die, hang or be taken over at any step.  Under        *)
(* systemd the worker is a unit, and the child that is killed is only the  *)
(* client that started it.                                                 *)
(*                                                                         *)
(* A reply is a number of chunks and what they say; what a worker that has *)
(* been taken over may make up is "junk" or passes for its word.           *)
(***************************************************************************)
EXTENDS Naturals

CONSTANTS
    Modes,          \* parse_sandbox: of {"on", "auto", "off"}
    Machines,       \* the sandbox this machine has: of {"seatbelt", "systemd", "none"}
    Cap,            \* _reply_cap, in chunks of a reply
    PipeSize,       \* chunks that a pipe holds
    MaxReply        \* bound: chunks of a reply

ASSUME ModesAssumption == Modes \subseteq {"on", "auto", "off"}
ASSUME MachinesAssumption == Machines \subseteq {"seatbelt", "systemd", "none"}
ASSUME SizesAssumption == Cap \in Nat /\ PipeSize \in Nat \ {0} /\ MaxReply \in Nat

VARIABLES
    mode, machine,  \* the configuration
    tick,           \* this scanning command: see Ticks
    call,           \* this call of _run, or the last one: see Calls
    threads,        \* its timer and the two threads beside it
    worker,         \* its worker and the child process that it is, or that started it
    early           \* history: interrupted before any reply could be read

vars == <<mode, machine, tick, call, threads, worker, early>>

-----------------------------------------------------------------------------

\* box is _backend, or "unset"; held, warned and where are history: the probe of
\* this command held, its fallback was printed, where package bytes were parsed.
Ticks == [phase : {"choosing", "scanning", "stopping", "stopped"},
          box : {"unset", "off", "seatbelt", "systemd"},
          held : BOOLEAN, warned : BOOLEAN, where : {"nowhere", "parent", "box"}]
Calls == [at : {"idle", "launched", "start threads", "read", "wait", "finally", "reap",
                "join", "judge"},
          for : {"probe", "scan"}, out : Nat, over : BOOLEAN, late : BOOLEAN,
          outcome : {"none", "error", "scanned", "refused", "held", "interrupted"}]
Threads == [timer : {"off", "armed", "firing", "over"},
            feeder : {"off", "on", "over"}, drainer : {"off", "on", "over"}]
Words == {"nothing", "scanned", "refused", "held", "open", "error", "junk"}
Workers == [at : {"none", "boot", "working", "writing", "closed", "gone"},
            child : {"none", "up", "dead", "reaped"},
            code : {"none", "ok", "failed", "killed"},
            says : Words, size : Nat, left : Nat, pipe : Nat]

NoCall == [at |-> "idle", for |-> "probe", out |-> 0, over |-> FALSE, late |-> FALSE,
           outcome |-> "none"]
NoThreads == [timer |-> "off", feeder |-> "off", drainer |-> "off"]
NoWorker == [at |-> "none", child |-> "none", code |-> "none", says |-> "nothing",
             size |-> 0, left |-> 0, pipe |-> 0]
NewTick == [phase |-> "choosing", box |-> "unset", held |-> FALSE, warned |-> FALSE,
            where |-> "nowhere"]

Init == /\ mode \in Modes /\ machine \in Machines
        /\ tick = NewTick /\ call = NoCall /\ threads = NoThreads /\ worker = NoWorker
        /\ early = FALSE

Idle == call.at = "idle"
Alive == worker.at \in {"boot", "working", "writing", "closed"}
StdoutOpen == \/ worker.at \in {"boot", "working", "writing"}
              \/ worker.child = "up" /\ machine = "systemd"
StderrOpen == Alive \/ worker.child = "up"

\* The worker ends by itself: it is the child, or a unit whose client is told.
Ended(w, code) ==
    [w EXCEPT !.at = "gone", !.code = IF w.child = "up" THEN code ELSE @,
              !.child = IF machine = "systemd" THEN @ ELSE "dead"]

\* proc.kill: of a child that has not been waited for; a unit outlives its client.
Kill(w) ==
    IF w.child # "up" THEN w
    ELSE [w EXCEPT !.child = "dead", !.code = "killed",
                   !.at = IF machine = "systemd" THEN @ ELSE "gone"]

-----------------------------------------------------------------------------
(* choose: once per scanning command, before any package byte is parsed.   *)

\* Mutation: "on" falls back like "auto".
FallBackAlways(t) == [t EXCEPT !.box = "off", !.warned = TRUE, !.phase = "scanning"]

FallBack(t) ==
    IF mode = "on" THEN [t EXCEPT !.phase = "stopped"]
    ELSE [t EXCEPT !.box = "off", !.warned = TRUE, !.phase = "scanning"]

Choosing == tick.phase = "choosing" /\ Idle

ChooseOff ==
    /\ Choosing /\ mode = "off"
    /\ tick' = [tick EXCEPT !.box = "off", !.phase = "scanning"]
    /\ UNCHANGED <<mode, machine, call, threads, worker, early>>

NoSandbox ==
    /\ Choosing /\ mode # "off" /\ machine = "none"
    /\ tick' = FallBack(tick)
    /\ UNCHANGED <<mode, machine, call, threads, worker, early>>

\* _run: Popen.
Start(purpose) ==
    /\ call' = [NoCall EXCEPT !.at = "launched", !.for = purpose]
    /\ threads' = NoThreads
    /\ worker' = [NoWorker EXCEPT !.at = "boot", !.child = "up"]
    /\ UNCHANGED <<mode, machine, early>>

Probe == Choosing /\ mode # "off" /\ machine # "none" /\ Start("probe") /\ UNCHANGED tick
ProbeNotStarted ==
    /\ Choosing /\ mode # "off" /\ machine # "none"
    /\ tick' = FallBack(tick)
    /\ UNCHANGED <<mode, machine, call, threads, worker, early>>

\* The probe's result: a sandbox that lets anything through is not used.
Chosen(outcome) ==
    IF outcome = "held"
    THEN [tick EXCEPT !.box = machine, !.held = TRUE, !.phase = "scanning"] ELSE FallBack(tick)

\* The next scanning command; _backend stays what it was until it is chosen again.
NextTick ==
    /\ tick.phase = "scanning" /\ Idle
    /\ tick' = [NewTick EXCEPT !.box = tick.box]
    /\ UNCHANGED <<mode, machine, call, threads, worker, early>>

-----------------------------------------------------------------------------
(* analyze: one release; nothing else is parsed while a command chooses.   *)

Scanning == tick.phase = "scanning" /\ Idle

ScanInProcess ==
    /\ Scanning /\ tick.box = "off"
    /\ tick' = [tick EXCEPT !.where = "parent"]
    /\ UNCHANGED <<mode, machine, call, threads, worker, early>>

ScanInBox ==
    /\ Scanning /\ tick.box # "off"
    /\ Start("scan")
    /\ tick' = [tick EXCEPT !.where = "box"]

ScanNotStarted ==
    /\ Scanning /\ tick.box # "off"
    /\ call' = [NoCall EXCEPT !.for = "scan", !.outcome = "error"]
    /\ threads' = NoThreads /\ worker' = NoWorker
    /\ UNCHANGED <<mode, machine, tick, early>>

-----------------------------------------------------------------------------
(* _run: the main thread.                                                  *)

Main(from, to) == call.at = from /\ call' = [call EXCEPT !.at = to]
Config == <<mode, machine, tick, early>>

StartTimer ==
    /\ Main("launched", "start threads")
    /\ threads' = [threads EXCEPT !.timer = "armed"]
    /\ UNCHANGED <<Config, worker>>

StartThreads ==
    /\ Main("start threads", "read")
    /\ threads' = [threads EXCEPT !.feeder = "on", !.drainer = "on"]
    /\ UNCHANGED <<Config, worker>>

\* Mutation: a reply that fills the cap is one too many.
ReadChunkUpTo ==
    /\ call.at = "read" /\ worker.pipe > 0
    /\ LET over == call.out + 1 >= Cap
       IN  /\ call' = [call EXCEPT !.out = @ + 1, !.over = over, !.at = IF over THEN "wait" ELSE @]
           /\ worker' = LET w == [worker EXCEPT !.pipe = @ - 1] IN IF over THEN Kill(w) ELSE w
    /\ UNCHANGED <<Config, threads>>

\* Past the cap the worker is killed and the rest of its reply is not read.
ReadChunk ==
    /\ call.at = "read" /\ worker.pipe > 0
    /\ LET over == call.out + 1 > Cap
       IN  /\ call' = [call EXCEPT !.out = @ + 1, !.over = over, !.at = IF over THEN "wait" ELSE @]
           /\ worker' = LET w == [worker EXCEPT !.pipe = @ - 1] IN IF over THEN Kill(w) ELSE w
    /\ UNCHANGED <<Config, threads>>

\* Mutation: the timer is stopped once the reply has ended.
ReadEndCancels ==
    /\ worker.pipe = 0 /\ ~StdoutOpen
    /\ Main("read", "wait")
    /\ threads' = [threads EXCEPT !.timer = IF @ = "armed" THEN "over" ELSE @]
    /\ UNCHANGED <<Config, worker>>

ReadEnd ==
    /\ worker.pipe = 0 /\ ~StdoutOpen
    /\ Main("read", "wait")
    /\ UNCHANGED <<Config, threads, worker>>

\* proc.wait
Wait ==
    /\ worker.child = "dead"
    /\ Main("wait", "finally")
    /\ worker' = [worker EXCEPT !.child = "reaped"]
    /\ UNCHANGED <<Config, threads>>

\* Mutation: the timer is left to run out.
FinallyKills ==
    /\ Main("finally", "reap")
    /\ worker' = Kill(worker)
    /\ UNCHANGED <<Config, threads>>

\* timer.cancel, and the kill of a worker that has not been waited for.
Finally ==
    /\ Main("finally", "reap")
    /\ threads' = [threads EXCEPT !.timer = IF @ = "armed" THEN "over" ELSE @]
    /\ worker' = Kill(worker)
    /\ UNCHANGED Config

Reap ==
    /\ call.at = "reap" /\ worker.child \in {"dead", "reaped"}
    /\ worker' = [worker EXCEPT !.child = "reaped"]
    /\ IF tick.phase = "stopping"
       THEN /\ call' = [call EXCEPT !.at = "idle", !.outcome = "interrupted"]
            /\ tick' = [tick EXCEPT !.phase = "stopped"]
       ELSE call' = [call EXCEPT !.at = "join"] /\ UNCHANGED tick
    /\ UNCHANGED <<mode, machine, threads, early>>

Join ==
    /\ threads.feeder = "over" /\ threads.drainer = "over"
    /\ Main("join", "judge")
    /\ UNCHANGED <<Config, threads, worker>>

\* Mutation: whatever was read.
ReplyUnchecked == worker.says

\* _decode_output, probe and _holds: only a whole reply of the right form counts.
Reply ==
    IF call.out = worker.size /\ worker.left = 0 /\ worker.says \in {"scanned", "refused", "held"}
    THEN worker.says ELSE "error"

\* The checks at the end of _run, and what choose or analyze makes of its result.
Judge ==
    /\ call.at = "judge"
    /\ LET outcome == IF call.late \/ call.over \/ worker.code # "ok" THEN "error" ELSE Reply
       IN  /\ call' = [call EXCEPT !.at = "idle", !.outcome = outcome]
           /\ tick' = IF call.for = "probe" THEN Chosen(outcome) ELSE tick
    /\ UNCHANGED <<mode, machine, threads, worker, early>>

\* Ctrl-C, once: within the try, after it, or before it.
Interrupt ==
    /\ tick.phase \in {"choosing", "scanning"}
    /\ \/ /\ call.at \in {"read", "wait"}
          /\ call' = [call EXCEPT !.at = "finally"]
          /\ tick' = [tick EXCEPT !.phase = "stopping"]
          /\ UNCHANGED early
       \/ /\ call.at \in {"join", "launched", "start threads"}
          /\ call' = [call EXCEPT !.at = "idle", !.outcome = "interrupted"]
          /\ tick' = [tick EXCEPT !.phase = "stopped"]
          /\ early' = (call.at # "join")
    /\ UNCHANGED <<mode, machine, threads, worker>>

-----------------------------------------------------------------------------
(* The timer and the two threads.                                          *)

TimerExpires ==
    /\ threads.timer = "armed"
    /\ threads' = [threads EXCEPT !.timer = "firing"]
    /\ call' = [call EXCEPT !.late = TRUE]
    /\ UNCHANGED <<Config, worker>>

TimerKills ==
    /\ threads.timer = "firing"
    /\ threads' = [threads EXCEPT !.timer = "over"]
    /\ worker' = Kill(worker)
    /\ UNCHANGED <<Config, call>>

\* The worker reads its whole request before it answers.
Feed ==
    /\ threads.feeder = "on" /\ worker.at = "boot"
    /\ threads' = [threads EXCEPT !.feeder = "over"]
    /\ worker' = [worker EXCEPT !.at = "working"]
    /\ UNCHANGED <<Config, call>>

FeedBreaks ==
    /\ threads.feeder = "on" /\ ~Alive
    /\ threads' = [threads EXCEPT !.feeder = "over"]
    /\ UNCHANGED <<Config, call, worker>>

DrainEnds ==
    /\ threads.drainer = "on" /\ ~StderrOpen
    /\ threads' = [threads EXCEPT !.drainer = "over"]
    /\ UNCHANGED <<Config, call, worker>>

-----------------------------------------------------------------------------
(* The worker (main of _parse_worker.py), and its unit.                    *)

Says(purpose) == {"error", "junk"} \cup
    (IF purpose = "probe" THEN {"held", "open"} ELSE {"scanned", "refused"})

Worker == <<Config, call, threads>>

Answers ==
    /\ worker.at = "working"
    /\ \E word \in Says(call.for), size \in 1..MaxReply :
           /\ word \in {"scanned", "junk"} \/ size = 1
           /\ worker' = [worker EXCEPT !.at = "writing", !.says = word, !.size = size,
                                       !.left = size]
    /\ UNCHANGED Worker

Writes ==
    /\ worker.at = "writing" /\ worker.left > 0 /\ worker.pipe < PipeSize /\ ~Idle
    /\ worker' = [worker EXCEPT !.left = @ - 1, !.pipe = @ + 1]
    /\ UNCHANGED Worker

Exits ==
    /\ worker.at = "writing" /\ worker.left = 0
    /\ worker' = Ended(worker, "ok")
    /\ UNCHANGED Worker

\* A crash, the CPU limit, the memory limit, or an exit in mid-reply.
Dies ==
    /\ Alive
    /\ \E code \in {"ok", "failed"} : worker' = Ended(worker, code)
    /\ UNCHANGED Worker

\* The reply has ended and the worker has not.
ClosesStdout ==
    /\ worker.at \in {"working", "writing"}
    /\ worker' = [worker EXCEPT !.at = "closed"]
    /\ UNCHANGED Worker

\* systemd-run ends with its unit.
ClientEnds ==
    /\ machine = "systemd" /\ worker.at = "gone" /\ worker.child = "up"
    /\ worker' = [worker EXCEPT !.child = "dead"]
    /\ UNCHANGED Worker

\* RuntimeMaxSec
UnitExpires ==
    /\ machine = "systemd" /\ Alive
    /\ worker' = Ended(worker, "failed")
    /\ UNCHANGED Worker

-----------------------------------------------------------------------------

MainThread == \/ StartTimer \/ StartThreads \/ ReadChunk \/ ReadEnd \/ Wait
              \/ Finally \/ Reap \/ Join \/ Judge

Commands == \/ ChooseOff \/ NoSandbox \/ Probe \/ ProbeNotStarted \/ NextTick
            \/ ScanInProcess \/ ScanInBox \/ ScanNotStarted

Next == \/ Commands
        \/ MainThread
        \/ Interrupt
        \/ TimerExpires
        \/ TimerKills
        \/ Feed
        \/ FeedBreaks
        \/ DrainEnds
        \/ Answers
        \/ Writes
        \/ Exits
        \/ Dies
        \/ ClosesStdout
        \/ ClientEnds
        \/ UnitExpires

Spec == Init /\ [][Next]_vars

\* The parent's threads and the system go on; the worker need not.
FairSpec == /\ Spec
            /\ WF_vars(MainThread)
            /\ WF_vars(TimerExpires)
            /\ WF_vars(TimerKills)
            /\ WF_vars(FeedBreaks)
            /\ WF_vars(DrainEnds)
            /\ WF_vars(ClientEnds)
            /\ WF_vars(UnitExpires)

-----------------------------------------------------------------------------
(* Properties.                                                             *)

TypeOK == /\ mode \in Modes /\ machine \in Machines
          /\ tick \in Ticks /\ call \in Calls /\ threads \in Threads /\ worker \in Workers
          /\ early \in BOOLEAN

\* Package bytes are parsed in a sandbox that held when this very command probed it;
\* inside this process only under "off", or under "auto" after a warning (choose:
\* "auto falls back loudly, on refuses"), whatever the probe's worker did.
OnlyInBox ==
    /\ tick.where = "parent" => (mode = "off" \/ (mode = "auto" /\ tick.warned))
    /\ (call.for = "scan" /\ ~Idle) => (tick.where = "box" /\ tick.held)

\* The release is scanned, or refused for good, only on the whole reply of a worker
\* that ended by itself and in time, and such a reply, up to the cap, is never lost;
\* all else is one failure to be retried (_run, _decode_output).
ReplyWhole ==
    Idle /\ call.for = "scan" /\ call.outcome \notin {"none", "interrupted"} =>
        LET whole == /\ worker.at = "gone" /\ worker.code = "ok" /\ ~call.late
                     /\ worker.says \in {"scanned", "refused"}
                     /\ worker.left = 0 /\ worker.size <= Cap
        IN  call.outcome = IF whole THEN worker.says ELSE "error"

\* A call that is over, however it ended, leaves no child and no armed timer behind,
\* and one that returned no worker (finally of _run); all but an interrupt that comes
\* before the try, when the worker and the timer are left to themselves.
NothingLeft ==
    Idle /\ ~early =>
        /\ worker.child \notin {"up", "dead"} /\ threads.timer # "armed"
        /\ Alive => machine = "systemd" /\ tick.phase = "stopped"

\* Every call ends, whatever the worker does: silent, flooding, its output closed, deaf
\* to the CPU limit (_run; R12); and what an interrupt leaves under a timer or in a
\* unit ends as well.
Ends == /\ ~Idle ~> Idle
        /\ (Alive /\ (threads.timer = "armed" \/ machine = "systemd")) ~> ~Alive

=============================================================================
