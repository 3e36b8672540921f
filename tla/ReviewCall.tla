------------------------------ MODULE ReviewCall ------------------------------
(***************************************************************************)
(* One review at the model endpoint: how much may be sent (guard.py:       *)
(* _cap_terms; orchestrator.py: _max_tokens_for), what the replies amount  *)
(* to (backends.py: validate_verdict; reviewer.py: review_text, _call) and *)
(* what becomes of the release (orchestrator.py: _record).                 *)
(*                                                                         *)
(* A reply is NoReply (no answer, or no JSON object) or a record of the    *)
(* keys the decision rests on.  Absent: the key is missing or null; Odd:   *)
(* a value of another type, or outside the schema's enum.  Confidence is   *)
(* in hundredths; text that reads as a number is that number, and whatever *)
(* else is no finite number is NoNumber.                                   *)
(***************************************************************************)
EXTENDS Integers, FiniteSetsExt

CONSTANTS
    SystemPrompt,       \* characters of SYSTEM_PROMPT
    DefaultCpt,         \* DEFAULT_CPT, in tenths of a character per token
    ColdStartCap,       \* COLD_START_CAP
    MaxInputChars,      \* max_input_chars
    ReadingTime,        \* timeout * budget_safety, in seconds
    EscalationFloor,    \* opus_escalation_confidence, in hundredths
    MaliciousFloor      \* malicious_min_confidence, in hundredths

\* The prompt is long beside what a window keeps for the answer at least.
ASSUME LimitsAssumption ==
    /\ SystemPrompt \in Nat /\ DefaultCpt \in Nat \ {0} /\ ReadingTime \in Nat
    /\ ColdStartCap \in Nat \ {0} /\ MaxInputChars \in Nat \ {0}
    /\ 10 * SystemPrompt >= 768 * DefaultCpt

ASSUME FloorsAssumption == EscalationFloor \in Int /\ MaliciousFloor \in Int

Absent == "absent"
Odd == "odd"
Failed == "failed"
NoNumber == -1000       \* also a confidence of None
NoReply == [class |-> Absent, confidence |-> NoNumber, runs |-> Absent,
            action |-> Absent, cites |-> FALSE]
NoModel == "none"

-----------------------------------------------------------------------------
(* How much may be sent.  An endpoint is [measured, speed, cpt, window,    *)
(* maxOut]: cpt in tenths; speed 0: not measured yet; window 0: unknown.   *)

Endpoints == [measured : BOOLEAN, speed : Nat, cpt : Nat \ {0}, window : Nat,
              maxOut : Nat \ {0}]

\* Mutation: the whole of max_output_tokens is kept for the answer.
ReserveAll(e) == e.maxOut

\* What the window keeps for the answer: at most a quarter of it.
Reserve(e) == Min({e.maxOut, e.window \div 4})

\* The characters the window has room for beside the system prompt and the answer.
WindowRoom(e) ==
    (((e.window - Reserve(e)) * DefaultCpt - SystemPrompt * 10) * e.cpt)
        \div (DefaultCpt * 10)

CapTerms(e) ==
    {MaxInputChars}
    \cup (IF ~e.measured THEN {}
          ELSE {IF e.speed = 0 THEN ColdStartCap
                ELSE (e.speed * ReadingTime * e.cpt) \div 10}
               \cup (IF e.window = 0 THEN {} ELSE {WindowRoom(e)}))

InputCapChars(e) == Max({Min(CapTerms(e)), 0})

\* math.ceil((len(SYSTEM_PROMPT) + len(text)) / cpt)
PromptEstimate(e, chars) == -((-(SystemPrompt + chars) * 10) \div e.cpt)

\* window: that of the model asked, the primary's or the escalation model's.
MaxTokensFor(e, window, chars) ==
    IF window = 0 THEN e.maxOut
    ELSE Min({e.maxOut, Max({256, window - PromptEstimate(e, chars) - 64})})

-----------------------------------------------------------------------------
(* What the replies amount to.                                             *)

\* validate_verdict: only a classification of the three can carry a verdict.
ValidReply(reply) == reply.class \in {"malicious", "suspicious", "benign"}

\* _clamp01
Clamp(x) == IF x = NoNumber THEN NoNumber ELSE Max({0, Min({100, x})})

\* pick: the value if it is one of the enum, else the default.
Pick(x, default) == IF x \in {Absent, Odd} THEN default ELSE x

\* _call: the verdict one model gives, or Failed.
Call(model, reply) ==
    IF ~ValidReply(reply) THEN [model |-> Failed]
    ELSE [model |-> model, class |-> reply.class, cites |-> reply.cites,
          confidence |-> Clamp(reply.confidence),
          runs |-> Pick(reply.runs, "unknown"),
          action |-> IF reply.class = "malicious" THEN "report-to-pypi"
                     ELSE Pick(reply.action, "monitor")]

Unreviewed == [model |-> NoModel, class |-> "suspicious", cites |-> FALSE,
               confidence |-> 0, runs |-> "unknown", action |-> "monitor"]

\* Mutation: a reply that gives no confidence is taken for a sure one.
UnsureIfLow(v) == v.confidence # NoNumber /\ v.confidence < EscalationFloor

Unsure(v) == v.confidence = NoNumber \/ v.confidence < EscalationFloor

\* review_text.  A review is [content, primary, second, escalates, unseen, gate]:
\* the replies of the two models, whether there is a second one, whether the
\* text left something out, and what the chain gate makes of the quotes.
ReviewVerdict(r) ==
    LET first == Call("primary", r.primary)
    IN  CASE ~r.content -> Unreviewed
          [] r.content /\ r.escalates /\ first.model # Failed /\ Unsure(first) ->
                Call("second", r.second)
          [] OTHER -> first

-----------------------------------------------------------------------------
(* What becomes of the release.                                            *)

\* _weak_malicious
WeakMalicious(v) ==
    \/ v.runs \in {"user-command", "not-shipped", "unknown"}
    \/ v.confidence = NoNumber
    \/ v.confidence < MaliciousFloor

\* gate: quotes of both ends that stand; an error in it is weak evidence too.
GateStands(r, v) == v.cites /\ r.gate = "stands"

\* The verdict as it is stored, the release's stage and the alert sent.
Recorded(v, class, stage, alert) ==
    [class |-> class, stage |-> stage, alert |-> alert, action |-> v.action]

\* _record
RecordOf(r, v) ==
    CASE /\ v.model # NoModel /\ r.unseen
         /\ v.class = "benign" \/ (v.class = "suspicious" /\ ~v.cites) ->
            Recorded(v, v.class, "reviewed_partial", "none")
      [] v.class = "malicious" /\ (~GateStands(r, v) \/ WeakMalicious(v)) ->
            Recorded(v, "suspicious", "needs_adjudication", "downgraded")
      [] v.class = "malicious" /\ GateStands(r, v) /\ ~WeakMalicious(v) ->
            Recorded(v, "malicious", "reviewed", "malicious")
      [] v.class = "benign" /\ ~r.unseen ->
            Recorded(v, "benign", "reviewed", "none")
      [] OTHER ->
            Recorded(v, "suspicious", "needs_adjudication",
                 IF v.model = NoModel THEN "unreviewed" ELSE "none")

Review(r) ==
    LET v == ReviewVerdict(r)
    IN  IF v.model = Failed
        THEN [class |-> "none", stage |-> "pending", alert |-> "none", action |-> "none"]
        ELSE RecordOf(r, v)

-----------------------------------------------------------------------------
\* The reply the release is judged by: the second model's, if the first was not sure.
Sure(reply) ==
    reply.confidence # NoNumber /\ Clamp(reply.confidence) >= EscalationFloor
LastWord(r) == IF r.escalates /\ ~Sure(r.primary) THEN r.second ELSE r.primary

\* A release leaves every queue without an alert only on the last word of a model
\* that saw all of it and called it benign.
SilentOnWord(r, out) ==
    out.stage = "reviewed" /\ out.alert = "none" =>
        r.content /\ ~r.unseen /\ LastWord(r).class = "benign"

\* The malicious alert has a chain that stands, code that runs by itself and a
\* number of confidence behind it.
AlarmOnEvidence(r, out) ==
    out.alert = "malicious" =>
        LET word == LastWord(r)
        IN  /\ r.content /\ word.class = "malicious"
            /\ word.cites /\ r.gate = "stands"
            /\ word.runs \notin {Absent, Odd, "unknown", "user-command", "not-shipped"}
            /\ word.confidence # NoNumber
            /\ Clamp(word.confidence) >= MaliciousFloor

\* A last word of "malicious" always alerts somebody, and is never dismissed.
WarningKept(r, out) ==
    r.content /\ ValidReply(r.primary) /\ LastWord(r).class = "malicious" =>
        out.alert \in {"malicious", "downgraded"} /\ out.action = "report-to-pypi"

\* A text within the cap leaves, by the guard's own estimate, room for the answer
\* in the window, as long as the text is not denser than DefaultCpt.
AnswerFits(e, cap) ==
    e.measured /\ e.window # 0 /\ cap > 0 /\ e.cpt >= DefaultCpt =>
        \A chars \in {(cap * k) \div 4 : k \in 0..4} :
            PromptEstimate(e, chars) + MaxTokensFor(e, e.window, chars) <= e.window

\* An endpoint with a window of twice the system prompt is sent something.
NotStarved(e, cap) ==
    /\ e.window = 0 \/ e.window * DefaultCpt >= 20 * SystemPrompt
    /\ e.speed = 0 \/ e.speed * ReadingTime * e.cpt >= 10
    => cap > 0

=============================================================================
