--------------------------- MODULE DecisionsProofs ---------------------------
(***************************************************************************)
(* Proofs about the decisions taken on data alone: for every case, and not *)
(* only for the cases of the run, the review input fits its cap and leaves *)
(* no selected file unsaid, silence and alarm rest on the last word of a   *)
(* model, a retried scan keeps its baseline, a dependency is let go on     *)
(* data only, no fact and no rule lowers a score, a file runs no later     *)
(* than it is said to, what an update changes is scanned or recorded, and  *)
(* a window is shared between what a model reads and what it answers.      *)
(***************************************************************************)
EXTENDS Decisions, TLAPS, FiniteSetTheorems, WellFoundedInduction

-----------------------------------------------------------------------------
(* One review: ReviewCall.                                                 *)

\* _clamp01 leaves a number within 0..100 as it is.
LEMMA ClampOf ==
    ASSUME NEW x \in Int
    PROVE  Clamp(x) = IF x = NoNumber THEN NoNumber
                      ELSE IF x < 0 THEN 0 ELSE IF x > 100 THEN 100 ELSE x
<1>1. Min({100, x}) = IF x < 100 THEN x ELSE 100
  BY DEF Min
<1>2. \A y \in Int : Max({0, y}) = IF y < 0 THEN 0 ELSE y
  BY DEF Max
<1>3. QED
  BY <1>1, <1>2 DEF Clamp, NoNumber

\* What review_text calls unsure of a verdict is what it is of the reply.
LEMMA SureOf ==
    ASSUME NEW model, NEW reply, reply.confidence \in Int, ValidReply(reply)
    PROVE  Unsure(Call(model, reply)) <=> ~Sure(reply)
BY ClampOf, FloorsAssumption DEF Unsure, Call, Sure, NoNumber

\* A model's verdict is made of the last word, and without one there was no last
\* word that is a verdict.
LEMMA WordGiven ==
    ASSUME NEW r, r.primary.confidence \in Int, r.content
    PROVE  /\ ReviewVerdict(r).model # Failed =>
                  ValidReply(r.primary) /\ ValidReply(LastWord(r))
           /\ ValidReply(r.primary) =>
                  \E m \in {"primary", "second"} : ReviewVerdict(r) = Call(m, LastWord(r))
<1>1. ValidReply(r.primary) => (Unsure(Call("primary", r.primary)) <=> ~Sure(r.primary))
  BY SureOf
<1>2. ReviewVerdict(r) =
        IF /\ r.escalates /\ Call("primary", r.primary).model # Failed
           /\ Unsure(Call("primary", r.primary))
        THEN Call("second", r.second) ELSE Call("primary", r.primary)
  BY DEF ReviewVerdict
<1>3. \A y : \A m \in {"primary", "second"} :
          (Call(m, y).model # Failed) <=> ValidReply(y)
  BY DEF Call, Failed
<1>4. QED
  BY <1>1, <1>2, <1>3 DEF LastWord

\* What the verdict of a review says, when there is one: the last word's class and
\* quotes, its confidence within bounds, and its enum values or their defaults.
LEMMA VerdictSays ==
    ASSUME NEW r, r.primary.confidence \in Int, r.content,
           ReviewVerdict(r).model # Failed
    PROVE  LET v == ReviewVerdict(r)
               word == LastWord(r)
           IN  /\ v.model # NoModel
               /\ v.class = word.class /\ v.class \in {"malicious", "suspicious", "benign"}
               /\ v.cites = word.cites
               /\ v.confidence = Clamp(word.confidence)
               /\ v.runs = Pick(word.runs, "unknown")
               /\ v.class = "malicious" => v.action = "report-to-pypi"
<1>1. ValidReply(r.primary) /\ ValidReply(LastWord(r))
  BY WordGiven
<1>2. PICK m \in {"primary", "second"} : ReviewVerdict(r) = Call(m, LastWord(r))
  BY WordGiven, <1>1
<1>3. Call(m, LastWord(r)) =
          [model |-> m, class |-> LastWord(r).class, cites |-> LastWord(r).cites,
           confidence |-> Clamp(LastWord(r).confidence),
           runs |-> Pick(LastWord(r).runs, "unknown"),
           action |-> IF LastWord(r).class = "malicious" THEN "report-to-pypi"
                      ELSE Pick(LastWord(r).action, "monitor")]
  BY <1>1 DEF Call
<1>4. QED
  BY <1>1, <1>2, <1>3 DEF ValidReply, NoModel

\* With nothing to show, a person is asked for, whatever the models would say.
LEMMA NothingShown ==
    ASSUME NEW r, ~r.content
    PROVE  Review(r) = [class |-> "suspicious", stage |-> "needs_adjudication",
                        alert |-> "unreviewed", action |-> "monitor"]
<1>1. ReviewVerdict(r) = Unreviewed
  BY DEF ReviewVerdict
<1>2. QED
  BY <1>1 DEF Review, RecordOf, Recorded, Unreviewed, NoModel, Failed

\* _record, as a case analysis of a model's verdict.
LEMMA RecordSays ==
    ASSUME NEW r, NEW v, v.model # NoModel,
           v.class \in {"malicious", "suspicious", "benign"}
    PROVE  LET out == RecordOf(r, v)
           IN  /\ out.action = v.action
               /\ out.stage = "reviewed" /\ out.alert = "none" =>
                      v.class = "benign" /\ ~r.unseen
               /\ out.alert = "malicious" =>
                      v.class = "malicious" /\ GateStands(r, v) /\ ~WeakMalicious(v)
               /\ v.class = "malicious" => out.alert \in {"malicious", "downgraded"}
BY DEF RecordOf, Recorded

\* The three promises, for one review.
LEMMA OneReviewDecided ==
    ASSUME NEW r, r.primary.confidence \in Int, r.second.confidence \in Int
    PROVE  /\ SilentOnWord(r, Review(r))
           /\ AlarmOnEvidence(r, Review(r))
           /\ WarningKept(r, Review(r))
<1>1. CASE ~r.content
  BY <1>1, NothingShown DEF SilentOnWord, AlarmOnEvidence, WarningKept
<1>2. CASE r.content /\ ReviewVerdict(r).model = Failed
  <2>1. Review(r) = [class |-> "none", stage |-> "pending", alert |-> "none",
                     action |-> "none"]
    BY <1>2 DEF Review
  <2>2. ~(ValidReply(r.primary) /\ LastWord(r).class = "malicious")
    <3>1. SUFFICES ASSUME ValidReply(r.primary), LastWord(r).class = "malicious"
                   PROVE  FALSE
      OBVIOUS
    <3>2. PICK m \in {"primary", "second"} : ReviewVerdict(r) = Call(m, LastWord(r))
      BY <1>2, <3>1, WordGiven
    <3>3. QED
      BY <1>2, <3>1, <3>2 DEF Call, ValidReply, Failed
  <2>3. QED
    BY <2>1, <2>2 DEF SilentOnWord, AlarmOnEvidence, WarningKept
<1>3. CASE r.content /\ ReviewVerdict(r).model # Failed
  <2> DEFINE v == ReviewVerdict(r)
             word == LastWord(r)
  <2>1. /\ v.model # NoModel
        /\ v.class = word.class /\ v.class \in {"malicious", "suspicious", "benign"}
        /\ v.cites = word.cites
        /\ v.confidence = Clamp(word.confidence)
        /\ v.runs = Pick(word.runs, "unknown")
        /\ v.class = "malicious" => v.action = "report-to-pypi"
    BY <1>3, VerdictSays
  <2>2. Review(r) = RecordOf(r, v)
    BY <1>3 DEF Review
  <2>3. /\ Review(r).action = v.action
        /\ Review(r).stage = "reviewed" /\ Review(r).alert = "none" =>
               v.class = "benign" /\ ~r.unseen
        /\ Review(r).alert = "malicious" =>
               v.class = "malicious" /\ GateStands(r, v) /\ ~WeakMalicious(v)
        /\ v.class = "malicious" => Review(r).alert \in {"malicious", "downgraded"}
    BY <2>1, <2>2, RecordSays
  <2>4. word.confidence \in Int
    BY DEF LastWord
  <2>5. ~WeakMalicious(v) =>
            /\ word.runs \notin {Absent, Odd, "unknown", "user-command", "not-shipped"}
            /\ word.confidence # NoNumber /\ Clamp(word.confidence) >= MaliciousFloor
    BY <2>1, <2>4, ClampOf, FloorsAssumption DEF WeakMalicious, Pick, Absent, Odd, NoNumber
  <2> HIDE DEF v, word
  <2>6. SilentOnWord(r, Review(r))
    BY <1>3, <2>1, <2>3 DEF SilentOnWord, word
  <2>7. AlarmOnEvidence(r, Review(r))
    BY <1>3, <2>1, <2>3, <2>5 DEF AlarmOnEvidence, GateStands, word
  <2>8. WarningKept(r, Review(r))
    BY <2>1, <2>3 DEF WarningKept, word
  <2>9. QED
    BY <2>6, <2>7, <2>8
<1>4. QED
  BY <1>1, <1>2, <1>3

-----------------------------------------------------------------------------
(* The baseline of a scan and of its retry: ReleaseDiff.                   *)

\* Which of some versions is the latest depends on their own times only.
LEMMA SameLatest ==
    ASSUME NEW versions, NEW history, NEW after,
           \A v \in versions : after[v] = history[v]
    PROVE  Latest(versions, after) = Latest(versions, history)
<1>1. (CHOOSE v \in versions :
          \A w \in versions : \/ history[w].sdist < history[v].sdist
                              \/ history[w].sdist = history[v].sdist /\ v <= w) =
      (CHOOSE v \in versions :
          \A w \in versions : \/ after[w].sdist < after[v].sdist
                              \/ after[w].sdist = after[v].sdist /\ v <= w)
  OBVIOUS
<1>2. QED
  BY <1>1 DEF Latest

\* A later look finds the same candidates, and so the same predecessor.
LEMMA SameCandidates ==
    ASSUME NEW history, NEW after, NEW version,
           LaterLook(history, after, version), history[version].sdist # 0
    PROVE  PickPredecessor(after, version) = PickPredecessor(history, version)
<1> DEFINE C(h) == {v \in DOMAIN h \ {version} :
               /\ h[v].sdist # 0 /\ ~h[v].yanked
               /\ h[v].sdist < h[version].sdist}
<1>1. C(after) = C(history)
  BY DEF LaterLook
<1>2. \A v \in C(history) : after[v] = history[v]
  BY DEF LaterLook
<1>3. /\ PickPredecessor(after, version) = Latest(C(after), after)
      /\ PickPredecessor(history, version) = Latest(C(history), history)
  BY DEF PickPredecessor
<1> HIDE DEF C
<1>4. Latest(C(history), after) = Latest(C(history), history)
  BY <1>2, SameLatest
<1>5. QED
  BY <1>1, <1>3, <1>4

-----------------------------------------------------------------------------
(* The window of an endpoint: ReviewCall.  LimitsAssumption makes the      *)
(* prompt outweigh the least an answer is asked for (256 tokens of 1024).  *)

\* Division rounds down.
LEMMA DivOf ==
    ASSUME NEW n \in Int, NEW c \in Nat \ {0}
    PROVE  /\ n \div c \in Int
           /\ (n \div c) * c <= n
           /\ n < (n \div c) * c + c
OBVIOUS

\* A quotient rounded up is at most any whole number it does not exceed.
LEMMA CeilAtMost ==
    ASSUME NEW n \in Int, NEW c \in Nat \ {0}, NEW k \in Int, n <= k * c
    PROVE  -((-n) \div c) <= k
OBVIOUS

\* A window keeps a quarter of itself for the answer, or as much as an answer may take.
LEMMA ReserveOf ==
    ASSUME NEW e \in Endpoints
    PROVE  /\ Reserve(e) \in Nat /\ 4 * Reserve(e) <= e.window
           /\ Reserve(e) = e.maxOut \/ 4 * Reserve(e) > e.window - 4
<1> DEFINE q == e.window \div 4
<1>1. /\ q \in Nat /\ 4 * q <= e.window /\ 4 * q > e.window - 4
      /\ e.maxOut \in Nat /\ e.window \in Nat
  BY DEF Endpoints
<1>2. Reserve(e) = Min({e.maxOut, q})
  BY DEF Reserve
<1> HIDE DEF q
<1>3. Min({e.maxOut, q}) = IF e.maxOut <= q THEN e.maxOut ELSE q
  BY <1>1 DEF Min
<1>4. QED
  BY <1>1, <1>2, <1>3

\* The room in a window, between two whole numbers.
LEMMA RoomOf ==
    ASSUME NEW e \in Endpoints
    PROVE  LET left == e.window - Reserve(e)
               a == left * DefaultCpt - SystemPrompt * 10
           IN  /\ WindowRoom(e) \in Int
               /\ WindowRoom(e) * (DefaultCpt * 10) <= a * e.cpt
               /\ a * e.cpt < WindowRoom(e) * (DefaultCpt * 10) + DefaultCpt * 10
<1>1. (e.window - Reserve(e)) * DefaultCpt - SystemPrompt * 10 \in Int
  BY ReserveOf, LimitsAssumption DEF Endpoints
<1>2. e.cpt \in Nat \ {0} /\ DefaultCpt * 10 \in Nat \ {0}
  BY LimitsAssumption DEF Endpoints
<1> DEFINE n == ((e.window - Reserve(e)) * DefaultCpt - SystemPrompt * 10) * e.cpt
<1>3. n \in Int
  BY <1>1, <1>2
<1>4. WindowRoom(e) = n \div (DefaultCpt * 10)
  BY DEF WindowRoom
<1> HIDE DEF n
<1>5. QED
  BY <1>2, <1>3, <1>4, DivOf DEF n

\* What is within the room is, by the estimate, within the window less the answer's share.
LEMMA RoomFits ==
    ASSUME NEW e \in Endpoints, NEW chars \in Nat, chars <= WindowRoom(e), e.cpt >= DefaultCpt
    PROVE  /\ PromptEstimate(e, chars) \in Int
           /\ PromptEstimate(e, chars) <= e.window - Reserve(e)
<1> DEFINE left == e.window - Reserve(e)
<1>1. left \in Int /\ e.cpt \in Nat \ {0} /\ DefaultCpt \in Nat \ {0} /\ SystemPrompt \in Nat
  BY ReserveOf, LimitsAssumption DEF Endpoints
<1>2. chars * (DefaultCpt * 10) <= (left * DefaultCpt - SystemPrompt * 10) * e.cpt
  BY <1>1, RoomOf
<1> HIDE DEF left
<1>3. SystemPrompt * DefaultCpt <= SystemPrompt * e.cpt
  BY <1>1
<1>4. ((SystemPrompt + chars) * 10) * DefaultCpt <= (left * e.cpt) * DefaultCpt
  BY <1>1, <1>2, <1>3
<1>5. (SystemPrompt + chars) * 10 <= left * e.cpt
  BY <1>1, <1>4
<1> DEFINE n == (SystemPrompt + chars) * 10
<1>6. PromptEstimate(e, chars) = -((-n) \div e.cpt)
  <2>1. (-(SystemPrompt + chars)) * 10 = -n
    BY <1>1
  <2>2. QED
    BY <2>1 DEF PromptEstimate
<1>7. n \in Int
  BY <1>1
<1> HIDE DEF n
<1>8. QED
  BY <1>1, <1>5, <1>6, <1>7, CeilAtMost DEF n, left

\* A window with room for text is larger than the prompt, which is never short.
LEMMA RoomLarge ==
    ASSUME NEW e \in Endpoints, WindowRoom(e) > 0
    PROVE  e.window - Reserve(e) > 768
<1> DEFINE left == e.window - Reserve(e)
<1>1. /\ left \in Int /\ e.cpt \in Nat \ {0} /\ DefaultCpt \in Nat \ {0}
      /\ SystemPrompt \in Nat /\ 10 * SystemPrompt >= 768 * DefaultCpt
  BY ReserveOf, LimitsAssumption DEF Endpoints
<1>2. /\ WindowRoom(e) \in Int
      /\ WindowRoom(e) * (DefaultCpt * 10) <= (left * DefaultCpt - SystemPrompt * 10) * e.cpt
  BY RoomOf
<1> HIDE DEF left
<1>3. (left * DefaultCpt - SystemPrompt * 10) * e.cpt > 0
  BY <1>1, <1>2
<1>4. left * DefaultCpt - SystemPrompt * 10 > 0
  BY <1>1, <1>3
<1>5. QED
  BY <1>1, <1>4 DEF left

\* A window of twice the prompt has room.
LEMMA RoomPositive ==
    ASSUME NEW e \in Endpoints, e.window * DefaultCpt >= 20 * SystemPrompt
    PROVE  WindowRoom(e) > 0
<1> DEFINE left == e.window - Reserve(e)
           a == left * DefaultCpt - SystemPrompt * 10
<1>1. /\ e.window \in Nat /\ left \in Int /\ e.cpt \in Nat \ {0} /\ DefaultCpt \in Nat \ {0}
      /\ SystemPrompt \in Nat /\ 10 * SystemPrompt >= 768 * DefaultCpt
      /\ 4 * left >= 3 * e.window
  BY ReserveOf, LimitsAssumption DEF Endpoints
<1>2. a * e.cpt < WindowRoom(e) * (DefaultCpt * 10) + DefaultCpt * 10 /\ WindowRoom(e) \in Int
  BY RoomOf
<1> HIDE DEF left
<1>3. (4 * left) * DefaultCpt >= (3 * e.window) * DefaultCpt
  BY <1>1
<1>4. a \in Int /\ a >= 5 * SystemPrompt
  BY <1>1, <1>3
<1>5. a >= DefaultCpt * 10
  BY <1>1, <1>4
<1> HIDE DEF a
<1>6. a * e.cpt >= DefaultCpt * 10
  BY <1>1, <1>4, <1>5
<1> DEFINE d == DefaultCpt * 10
           room == WindowRoom(e)
           x == a * e.cpt
<1>7. d \in Nat \ {0} /\ room \in Int /\ x \in Int /\ x < room * d + d /\ x >= d
  BY <1>1, <1>2, <1>4, <1>6
<1> HIDE DEF d, room, x
<1>8. room > 0
  BY <1>7
<1>9. QED
  BY <1>8 DEF room

\* input_cap_chars is the least of its terms, or 0 if one of them is negative.
LEMMA PositiveCap ==
    ASSUME NEW e \in Endpoints, CapTerms(e) \subseteq Int
    PROVE /\ InputCapChars(e) \in Nat
          /\ InputCapChars(e) > 0 => \A t \in CapTerms(e) : InputCapChars(e) <= t
          /\ (\A t \in CapTerms(e) : t > 0) => InputCapChars(e) > 0
<1>1. PICK m \in CapTerms(e) : \A t \in CapTerms(e) : m <= t
  <2>1. ASSUME NEW a \in Int, NEW b \in Int, NEW c \in Int
        PROVE  \E m \in {a, b, c} : \A t \in {a, b, c} : m <= t
    OBVIOUS
  <2>2. QED
    BY <2>1, LimitsAssumption DEF CapTerms
<1>2. Min(CapTerms(e)) = m
  BY <1>1 DEF Min
<1>3. Max({m, 0}) = IF m < 0 THEN 0 ELSE m
  BY <1>1 DEF Max
<1>4. QED
  BY <1>1, <1>2, <1>3 DEF InputCapChars

\* The limits on a text are numbers, the window's room among them.
LEMMA TermsOf ==
    ASSUME NEW e \in Endpoints
    PROVE  /\ CapTerms(e) \subseteq Int
           /\ e.measured /\ e.window # 0 => WindowRoom(e) \in CapTerms(e)
<1>1. WindowRoom(e) \in Int
  BY RoomOf
<1>2. (e.speed * ReadingTime * e.cpt) \div 10 \in Int
  BY LimitsAssumption DEF Endpoints
<1>3. QED
  BY <1>1, <1>2, LimitsAssumption DEF CapTerms

\* An endpoint that can read something is sent something.
LEMMA SomethingSent ==
    ASSUME NEW e \in Endpoints
    PROVE  NotStarved(e, InputCapChars(e))
<1> SUFFICES ASSUME e.window = 0 \/ e.window * DefaultCpt >= 20 * SystemPrompt,
                    e.speed = 0 \/ e.speed * ReadingTime * e.cpt >= 10
             PROVE  InputCapChars(e) > 0
  BY DEF NotStarved
<1>1. e.window # 0 => WindowRoom(e) > 0
  BY RoomPositive
<1>2. e.speed # 0 => (e.speed * ReadingTime * e.cpt) \div 10 > 0
  <2> DEFINE n == e.speed * ReadingTime * e.cpt
  <2>1. n \in Int
    BY LimitsAssumption DEF Endpoints
  <2> HIDE DEF n
  <2>2. n >= 10 => n \div 10 > 0
    BY <2>1
  <2>3. QED
    BY <2>2 DEF n
<1>3. \A t \in CapTerms(e) : t > 0
  BY <1>1, <1>2, LimitsAssumption DEF CapTerms
<1>4. QED
  BY <1>3, TermsOf, PositiveCap

\* A text within the room leaves what the answer is then allowed to take.
LEMMA RoomForAnswer ==
    ASSUME NEW e \in Endpoints, e.measured, e.window # 0, e.cpt >= DefaultCpt, NEW chars \in Nat,
           chars <= WindowRoom(e), WindowRoom(e) > 0
    PROVE  PromptEstimate(e, chars) + MaxTokensFor(e, e.window, chars) <= e.window
<1> DEFINE est == PromptEstimate(e, chars)
           r == Reserve(e)
           left == e.window - est - 64
<1>1. est \in Int /\ est <= e.window - r
  BY RoomFits
<1>2. r \in Nat /\ (r = e.maxOut \/ 4 * r > e.window - 4)
  BY ReserveOf
<1>3. e.window - r > 768 /\ 4 * r <= e.window
  BY RoomLarge, ReserveOf
<1>4. e.maxOut \in Nat /\ e.window \in Nat
  BY DEF Endpoints
<1>5. MaxTokensFor(e, e.window, chars) = Min({e.maxOut, Max({256, left})})
  BY DEF MaxTokensFor
<1> HIDE DEF est, r
<1>6. left \in Int
  BY <1>1, <1>4
<1>7. Max({256, left}) = IF left > 256 THEN left ELSE 256
  BY <1>6 DEF Max
<1>8. \A m \in Int : Min({e.maxOut, m}) = IF e.maxOut <= m THEN e.maxOut ELSE m
  BY <1>4 DEF Min
<1> DEFINE tokens == MaxTokensFor(e, e.window, chars)
<1>9. tokens = IF left > 256 THEN IF e.maxOut <= left THEN e.maxOut ELSE left
               ELSE IF e.maxOut <= 256 THEN e.maxOut ELSE 256
  BY <1>5, <1>6, <1>7, <1>8
<1> HIDE DEF tokens
<1>10. est + tokens <= e.window
  <2>1. CASE left > 256
    BY <2>1, <1>1, <1>4, <1>9
  <2>2. CASE left <= 256
    <3>1. tokens <= 256 /\ tokens <= e.maxOut /\ tokens \in Nat
      BY <2>2, <1>4, <1>6, <1>9
    <3>2. tokens <= r
      BY <3>1, <1>2, <1>3, <1>4
    <3>3. QED
      BY <3>1, <3>2, <1>1, <1>2, <1>4
  <2>3. QED
    BY <2>1, <2>2, <1>6
<1>11. QED
  BY <1>10 DEF est, tokens

\* The promise for one endpoint.
LEMMA WindowSharedOf ==
    ASSUME NEW e \in Endpoints
    PROVE  AnswerFits(e, InputCapChars(e)) /\ NotStarved(e, InputCapChars(e))
<1> DEFINE cap == InputCapChars(e)
<1>1. ASSUME e.measured, e.window # 0, cap > 0, e.cpt >= DefaultCpt, NEW k \in 0..4
      PROVE  PromptEstimate(e, (cap * k) \div 4) + MaxTokensFor(e, e.window, (cap * k) \div 4)
                 <= e.window
  <2>1. cap \in Nat /\ cap <= WindowRoom(e) /\ WindowRoom(e) \in Int
    BY <1>1, TermsOf, PositiveCap
  <2> HIDE DEF cap
  <2>2. (cap * k) \div 4 \in Nat /\ (cap * k) \div 4 <= cap
    <3>1. k = 0 \/ k = 1 \/ k = 2 \/ k = 3 \/ k = 4
      BY <1>1
    <3>2. QED
      BY <3>1, <2>1
  <2>3. QED
    BY <1>1, <2>1, <2>2, RoomForAnswer
<1>2. AnswerFits(e, cap)
  BY <1>1 DEF AnswerFits
<1>3. QED
  BY <1>2, SomethingSent

-----------------------------------------------------------------------------
(* The dependencies a release adds, name by name: DepScreen.  The induction *)
(* over the names is one over a set of naturals, from well-foundedness.     *)

\* A set that holds 0, and with each natural the next, holds all naturals.
LEMMA AllNaturals ==
    ASSUME NEW S, 0 \in S, \A n \in Nat : n \in S => n + 1 \in S
    PROVE  Nat \subseteq S
<1> SUFFICES ASSUME Nat \ S # {}
             PROVE  FALSE
  OBVIOUS
<1>1. PICK x \in Nat \ S : \A y \in Nat \ S : ~ (<<y, x>> \in OpToRel(<, Nat))
  BY NatLessThanWellFounded, WFMin
<1>2. x # 0 /\ x - 1 \in Nat /\ x - 1 < x
  OBVIOUS
<1>3. x - 1 \in Nat \ S
  BY <1>2
<1>4. <<x - 1, x>> \in OpToRel(<, Nat)
  BY <1>2 DEF OpToRel
<1>5. QED
  BY <1>1, <1>3, <1>4

ScreenNext(c, s, n) == IF n \in AddedDeps(c) THEN ScreenOne(c, s, n) ELSE s

\* ScreenAddedDeps is well defined: there is a function that satisfies its equation.
LEMMA ScreenDefined ==
    ASSUME NEW c, Len(c.near) \in Nat
    PROVE  \E screen : screen = [n \in 0..Len(c.near) |->
            IF n = 0 THEN [fetched |-> {}, findings |-> {}]
            ELSE IF n \in AddedDeps(c) THEN ScreenOne(c, screen[n - 1], n)
            ELSE screen[n - 1]]
<1> DEFINE Defined(f, k) == f = [n \in 0..k |->
            IF n = 0 THEN [fetched |-> {}, findings |-> {}]
            ELSE IF n \in AddedDeps(c) THEN ScreenOne(c, f[n - 1], n)
            ELSE f[n - 1]]
    S == {k \in Nat : \E f : Defined(f, k)}
<1>1. 0 \in S
  <2> DEFINE f == [n \in 0..0 |-> [fetched |-> {}, findings |-> {}]]
  <2>1. Defined(f, 0)
    OBVIOUS
  <2>2. QED
    BY <2>1
<1>2. ASSUME NEW k \in Nat, NEW f, Defined(f, k)
      PROVE  \E g : Defined(g, k + 1)
  <2> DEFINE g == [n \in 0..(k + 1) |-> IF n = k + 1 THEN ScreenNext(c, f[k], n) ELSE f[n]]
             h == [n \in 0..(k + 1) |->
                     IF n = 0 THEN [fetched |-> {}, findings |-> {}]
                     ELSE IF n \in AddedDeps(c) THEN ScreenOne(c, g[n - 1], n)
                     ELSE g[n - 1]]
  <2>1. ASSUME NEW n \in 0..(k + 1)
        PROVE  g[n] = h[n]
    <3>1. CASE n = 0
      BY <3>1, <1>2
    <3>2. CASE n \in 1..k
      <4>1. n \in 0..k /\ n - 1 \in 0..k /\ n # k + 1 /\ n - 1 # k + 1 /\ n # 0
        BY <3>2
      <4>2. g[n] = f[n] /\ g[n - 1] = f[n - 1]
        BY <4>1
      <4>3. f[n] = IF n \in AddedDeps(c) THEN ScreenOne(c, f[n - 1], n) ELSE f[n - 1]
        BY <4>1, <1>2
      <4> HIDE DEF g
      <4>4. QED
        BY <4>1, <4>2, <4>3
    <3>3. CASE n = k + 1
      <4>1. n # 0 /\ n - 1 = k /\ k \in 0..(k + 1) /\ k # k + 1 /\ n \in 0..(k + 1)
        BY <3>3
      <4>2. g[k] = f[k] /\ g[n] = ScreenNext(c, f[k], n)
        BY <4>1, <3>3
      <4> HIDE DEF g
      <4>3. QED
        BY <4>1, <4>2 DEF ScreenNext
    <3>4. QED
      BY <3>1, <3>2, <3>3
  <2>2. g = h
    BY <2>1
  <2>3. QED
    BY <2>2
<1> HIDE DEF Defined
<1>5. \A k \in Nat : k \in S => k + 1 \in S
  BY <1>2
<1>3. Nat \subseteq S
  BY <1>1, <1>5, AllNaturals
<1>4. QED
  BY <1>3 DEF Defined

\* The screening takes one name after the other.
LEMMA ScreenByName ==
    ASSUME NEW c, Len(c.near) \in Nat
    PROVE  \E screen :
              /\ ScreenAddedDeps(c) = screen[Len(c.near)]
              /\ screen[0] = [fetched |-> {}, findings |-> {}]
              /\ \A n \in 1..Len(c.near) : screen[n] = ScreenNext(c, screen[n - 1], n)
<1> DEFINE screen == CHOOSE f : f = [n \in 0..Len(c.near) |->
                        IF n = 0 THEN [fetched |-> {}, findings |-> {}]
                        ELSE IF n \in AddedDeps(c) THEN ScreenOne(c, f[n - 1], n)
                        ELSE f[n - 1]]
<1>1. screen = [n \in 0..Len(c.near) |->
                  IF n = 0 THEN [fetched |-> {}, findings |-> {}]
                  ELSE IF n \in AddedDeps(c) THEN ScreenOne(c, screen[n - 1], n)
                  ELSE screen[n - 1]]
  BY ScreenDefined, Zenon
<1>2. ScreenAddedDeps(c) = screen[Len(c.near)]
  BY Zenon DEF ScreenAddedDeps
<1> HIDE DEF screen
<1>3. screen[0] = [fetched |-> {}, findings |-> {}]
  BY <1>1
<1>4. ASSUME NEW n \in 1..Len(c.near)
      PROVE  screen[n] = ScreenNext(c, screen[n - 1], n)
  <2>1. n \in 0..Len(c.near) /\ n # 0
    OBVIOUS
  <2>2. screen[n] = IF n \in AddedDeps(c) THEN ScreenOne(c, screen[n - 1], n)
                    ELSE screen[n - 1]
    BY <1>1, <2>1
  <2>3. QED
    BY <2>2 DEF ScreenNext
<1>5. QED
  BY <1>2, <1>3, <1>4

\* A name is reported, and what clears one that is not.
Accused(s, n) == \E f \in s.findings : f[1] = n
ClearedByAnswer(c, n) ==
    /\ c.index[n] # NotFound
    /\ c.near[n] # 0 => /\ c.index[n] # NoData
                        /\ \/ SameOwner(c, c.index[n])
                           \/ c.index[n].popularOrg
                           \/ Established(c.index[n])

\* What is carried from name to name, and nothing else.
Screening(s) == s = [fetched |-> s.fetched, findings |-> s.findings]

\* A lookup stays within the cap and forgets none that was made.
LEMMA FetchedOf ==
    ASSUME NEW s, NEW n, Screening(s), IsFiniteSet(s.fetched), Cardinality(s.fetched) <= LookupCap
    PROVE  LET t == Fetched(s, n)
           IN  /\ Screening(t) /\ t.findings = s.findings
               /\ s.fetched \subseteq t.fetched
               /\ IsFiniteSet(t.fetched) /\ Cardinality(t.fetched) <= LookupCap
               /\ Fetchable(s, n) => n \in t.fetched
<1>1. CASE Fetchable(s, n)
  <2>1. Fetched(s, n) = [fetched |-> s.fetched \cup {n}, findings |-> s.findings]
    BY <1>1 DEF Fetched, Screening
  <2>2. IsFiniteSet(s.fetched \cup {n}) /\ Cardinality(s.fetched \cup {n}) =
          (IF n \in s.fetched THEN Cardinality(s.fetched) ELSE Cardinality(s.fetched) + 1)
    BY FS_AddElement
  <2>3. Cardinality(s.fetched) \in Nat
    BY FS_CardinalityType
  <2>4. Cardinality(s.fetched \cup {n}) <= LookupCap
    BY <1>1, <2>2, <2>3, LookupAssumption DEF Fetchable
  <2>5. QED
    BY <2>1, <2>2, <2>4 DEF Screening
<1>2. CASE ~Fetchable(s, n)
  <2>1. Fetched(s, n) = [fetched |-> s.fetched, findings |-> s.findings]
    BY <1>2 DEF Fetched, Screening
  <2>2. QED
    BY <2>1, <1>2 DEF Screening
<1>3. QED
  BY <1>1, <1>2

\* A finding is about the name at hand.
LEMMA FindingOf ==
    ASSUME NEW s, NEW n, NEW reason, Screening(s)
    PROVE  LET t == Finding(s, n, reason)
           IN  /\ Screening(t) /\ t.fetched = s.fetched
               /\ t.findings = s.findings \cup {<<n, reason>>}
               /\ Accused(t, n)
<1>1. Finding(s, n, reason) =
          [fetched |-> s.fetched, findings |-> s.findings \cup {<<n, reason>>}]
  BY DEF Finding, Screening
<1> DEFINE t == Finding(s, n, reason)
<1>2. Screening(t) /\ t.fetched = s.fetched /\ t.findings = s.findings \cup {<<n, reason>>}
  BY <1>1 DEF Screening
<1>3. <<n, reason>> \in t.findings /\ <<n, reason>>[1] = n
  BY <1>2
<1> HIDE DEF t
<1>4. Accused(t, n)
  BY <1>3 DEF Accused
<1>5. QED
  BY <1>2, <1>4 DEF t

\* One name: what was known is kept, only this name is reported, and it is either
\* reported or looked up and cleared by the answer.
LEMMA OneScreened ==
    ASSUME NEW c, NEW s, NEW n, Screening(s), IsFiniteSet(s.fetched),
           Cardinality(s.fetched) <= LookupCap
    PROVE  LET t == ScreenOne(c, s, n)
           IN  /\ Screening(t)
               /\ IsFiniteSet(t.fetched) /\ Cardinality(t.fetched) <= LookupCap
               /\ s.fetched \subseteq t.fetched /\ s.findings \subseteq t.findings
               /\ \A f \in t.findings : f \in s.findings \/ f[1] = n
               /\ n \notin c.corpus /\ ~Accused(t, n) => n \in t.fetched /\ ClearedByAnswer(c, n)
<1> DEFINE u == Fetched(s, n)
           v == Fetched(u, c.near[n])
           meta == Lookup(c, s, n)
           Good(t) == /\ Screening(t)
               /\ IsFiniteSet(t.fetched) /\ Cardinality(t.fetched) <= LookupCap
               /\ s.fetched \subseteq t.fetched /\ s.findings \subseteq t.findings
               /\ \A f \in t.findings : f \in s.findings \/ f[1] = n
<1>1. /\ Good(s) /\ Good(u) /\ Good(v)
      /\ meta # Capped => n \in u.fetched /\ meta = c.index[n]
  <2>1. Good(s)
    OBVIOUS
  <2>2. Good(u) /\ u.findings = s.findings /\ (Fetchable(s, n) => n \in u.fetched)
    BY FetchedOf
  <2> HIDE DEF u
  <2>3. Good(v)
    BY <2>2, FetchedOf
  <2>4. QED
    BY <2>1, <2>2, <2>3 DEF Lookup
<1>2. \A t, r : Good(t) => Good(Finding(t, n, r)) /\ Accused(Finding(t, n, r), n)
  BY FindingOf
<1> DEFINE Done(t) ==
      Good(t) /\ (n \notin c.corpus /\ ~Accused(t, n) => n \in t.fetched /\ ClearedByAnswer(c, n))
<1> HIDE DEF Good
<1>3. \A t, r : Good(t) => Done(Finding(t, n, r))
  BY <1>2
<1>4. CASE n \in c.corpus
  BY <1>4, <1>1 DEF ScreenOne
<1> SUFFICES ASSUME n \notin c.corpus
             PROVE  Done(ScreenOne(c, s, n))
  BY <1>4 DEF Good
<1>5. CASE meta \in {Capped, NotFound, NoData}
  <2>1. NoData # Capped /\ NoData # NotFound
    BY DEF NoData, Capped, NotFound
  <2>2. QED
    BY <1>5, <1>1, <1>3, <2>1 DEF ScreenOne, ClearedByAnswer
<1>6. CASE meta \notin {Capped, NotFound, NoData}
  <2>0. meta = c.index[n] /\ n \in u.fetched
    BY <1>1, <1>6
  <2>1. ScreenOne(c, s, n) = IF c.near[n] # 0 THEN Lookalike(c, u, n, meta)
                      ELSE IF BrandNew(meta) THEN Finding(u, n, "brand-new") ELSE u
    BY <1>6 DEF ScreenOne
  <2>2. CASE c.near[n] = 0
    BY <2>0, <2>1, <2>2, <1>1, <1>3, <1>6 DEF ClearedByAnswer
  <2>3. CASE c.near[n] # 0 /\ (SameOwner(c, meta) \/ meta.popularOrg)
    BY <2>0, <2>1, <2>3, <1>1, <1>3, <1>6 DEF ClearedByAnswer, Lookalike
  <2>4. CASE c.near[n] # 0 /\ ~(SameOwner(c, meta) \/ meta.popularOrg) /\ Established(meta)
    BY <2>0, <2>1, <2>4, <1>1, <1>3, <1>6 DEF ClearedByAnswer, Lookalike
  <2>5. CASE c.near[n] # 0 /\ ~(SameOwner(c, meta) \/ meta.popularOrg) /\ ~Established(meta)
    BY <2>0, <2>1, <2>5, <1>1, <1>3, <1>6 DEF Lookalike
  <2>6. QED
    BY <2>2, <2>3, <2>4, <2>5
<1>7. QED
  BY <1>5, <1>6

\* What holds when the names up to k have been screened.
ScreenedTo(c, s, k) ==
    /\ Screening(s) /\ IsFiniteSet(s.fetched) /\ Cardinality(s.fetched) <= LookupCap
    /\ \A f \in s.findings : f[1] \in AddedDeps(c)
    /\ \A n \in AddedDeps(c) \ c.corpus :
          n <= k /\ ~Accused(s, n) => n \in s.fetched /\ ClearedByAnswer(c, n)

\* The next name keeps it ...
LEMMA ScreenedOn ==
    ASSUME NEW c, AddedDeps(c) \subseteq Nat, NEW k \in Nat, NEW s, ScreenedTo(c, s, k)
    PROVE  ScreenedTo(c, ScreenNext(c, s, k + 1), k + 1)
<1> DEFINE n == k + 1
           t == ScreenOne(c, s, n)
<1>1. CASE n \in AddedDeps(c)
  <2>1. /\ Screening(t)
        /\ IsFiniteSet(t.fetched) /\ Cardinality(t.fetched) <= LookupCap
        /\ s.fetched \subseteq t.fetched /\ s.findings \subseteq t.findings
        /\ \A f \in t.findings : f \in s.findings \/ f[1] = n
        /\ n \notin c.corpus /\ ~Accused(t, n) => n \in t.fetched /\ ClearedByAnswer(c, n)
    BY OneScreened DEF ScreenedTo
  <2> HIDE DEF t
  <2>2. ASSUME NEW m \in AddedDeps(c) \ c.corpus, m <= k + 1, ~Accused(t, m)
        PROVE  m \in t.fetched /\ ClearedByAnswer(c, m)
    <3>1. m \in Nat /\ (m <= k \/ m = n)
      BY <2>2
    <3>2. ~Accused(s, m)
      BY <2>1, <2>2 DEF Accused
    <3>3. QED
      BY <2>1, <2>2, <3>1, <3>2 DEF ScreenedTo
  <2>3. ScreenedTo(c, t, k + 1)
    BY <1>1, <2>1, <2>2 DEF ScreenedTo
  <2>4. QED
    BY <1>1, <2>3 DEF ScreenNext, t
<1>2. CASE n \notin AddedDeps(c)
  <2>1. \A m \in AddedDeps(c) : m <= k + 1 => m <= k
    BY <1>2
  <2>2. QED
    BY <1>2, <2>1 DEF ScreenNext, ScreenedTo
<1>3. QED
  BY <1>1, <1>2

\* ... so that it holds of all.
LEMMA AllScreened ==
    ASSUME NEW c, Len(c.near) \in Nat, AddedDeps(c) \subseteq 1..Len(c.near)
    PROVE  ScreenedTo(c, ScreenAddedDeps(c), Len(c.near))
<1>1. PICK screen :
         /\ ScreenAddedDeps(c) = screen[Len(c.near)]
         /\ screen[0] = [fetched |-> {}, findings |-> {}]
         /\ \A n \in 1..Len(c.near) : screen[n] = ScreenNext(c, screen[n - 1], n)
  BY ScreenByName
<1> DEFINE last == Len(c.near)
           S == {k \in Nat : k <= last => ScreenedTo(c, screen[k], k)}
<1>2. 0 \in S
  <2>1. Cardinality({}) = 0 /\ IsFiniteSet({})
    BY FS_EmptySet
  <2>2. \A m \in AddedDeps(c) : ~(m <= 0)
    OBVIOUS
  <2>3. ScreenedTo(c, screen[0], 0)
    BY <1>1, <2>1, <2>2, LookupAssumption DEF ScreenedTo, Screening
  <2>4. QED
    BY <2>3
<1>3. ASSUME NEW k \in Nat, k \in S
      PROVE  k + 1 \in S
  <2> SUFFICES ASSUME k + 1 <= last
               PROVE  ScreenedTo(c, screen[k + 1], k + 1)
    OBVIOUS
  <2>1. ScreenedTo(c, screen[k], k)
    BY <1>3
  <2>2. k + 1 \in 1..last /\ (k + 1) - 1 = k
    OBVIOUS
  <2>3. screen[k + 1] = ScreenNext(c, screen[k], k + 1)
    BY <1>1, <2>2
  <2>4. AddedDeps(c) \subseteq Nat
    OBVIOUS
  <2>5. QED
    BY <2>1, <2>3, <2>4, ScreenedOn
<1>4. Nat \subseteq S
  BY <1>2, <1>3, AllNaturals
<1>5. QED
  BY <1>1, <1>4

\* The promise for one release.
LEMMA DepsScreenedOf ==
    ASSUME NEW c, NEW really, ListsKnown(c, really)
    PROVE  OnlyAdded(c, really, ScreenAddedDeps(c)) /\ ClearedByData(c, ScreenAddedDeps(c))
<1> DEFINE s == ScreenAddedDeps(c)
<1>1. ScreenedTo(c, s, Len(c.near))
  BY AllScreened DEF ListsKnown
<1>2. AddedDeps(c) \subseteq really.declared \ really.prior
  BY DEF ListsKnown, AddedDeps
<1>3. \A n \in AddedDeps(c) : n <= Len(c.near)
  BY DEF ListsKnown
<1> HIDE DEF s
<1>4. OnlyAdded(c, really, s)
  BY <1>1, <1>2 DEF OnlyAdded, ScreenedTo
<1>5. ClearedByData(c, s)
  BY <1>1, <1>3 DEF ClearedByData, ScreenedTo, Accused, ClearedByAnswer
<1>6. QED
  BY <1>4, <1>5 DEF s

-----------------------------------------------------------------------------
(* The score of a release: Triage.  A score is a sum over a finite set, and *)
(* the induction over its parts is one over a set of sets.                  *)

\* The element a sum takes next, and the parts of D of at most k elements.
OneOf(s) == CHOOSE x \in s : TRUE
UpTo(D, k) == {s \in SUBSET D : Cardinality(s) <= k}

\* A finite set without one of its elements has one less.
LEMMA OneLess ==
    ASSUME NEW s, IsFiniteSet(s), NEW x \in s
    PROVE  /\ IsFiniteSet(s \ {x}) /\ Cardinality(s) \in Nat \ {0}
           /\ Cardinality(s \ {x}) = Cardinality(s) - 1
<1>1. IsFiniteSet(s \ {x}) /\ Cardinality(s \ {x}) = Cardinality(s) - 1
  BY FS_RemoveElement
<1>2. Cardinality(s) \in Nat /\ Cardinality(s \ {x}) \in Nat
  BY <1>1, FS_CardinalityType
<1>3. QED
  BY <1>1, <1>2

\* The library takes the sum of w with a recursive function over the parts of its
\* domain: there is one that satisfies the equation.
LEMMA SumDefined ==
    ASSUME NEW w, IsFiniteSet(DOMAIN w)
    PROVE  \E g : g = [s \in SUBSET DOMAIN w |->
                         IF s = {} THEN 0 ELSE w[OneOf(s)] + g[s \ {OneOf(s)}]]
<1> DEFINE D == DOMAIN w
           Sums(g, k) == g = [s \in UpTo(D, k) |->
                                IF s = {} THEN 0 ELSE w[OneOf(s)] + g[s \ {OneOf(s)}]]
           S == {k \in Nat : \E g : Sums(g, k)}
<1>0. /\ IsFiniteSet(D)
      /\ \A s \in SUBSET D : /\ IsFiniteSet(s) /\ Cardinality(s) \in Nat
                             /\ s # {} => OneOf(s) \in s
  BY FS_Subset, FS_CardinalityType DEF OneOf
<1>1. 0 \in S
  <2> DEFINE g == [s \in UpTo(D, 0) |-> 0]
  <2>1. \A s \in UpTo(D, 0) : s = {}
    BY <1>0, FS_EmptySet DEF UpTo
  <2>2. Sums(g, 0)
    BY <2>1
  <2>3. QED
    BY <2>2
<1>2. ASSUME NEW k \in Nat, NEW f, Sums(f, k)
      PROVE  \E g : Sums(g, k + 1)
  <2> DEFINE g == [s \in UpTo(D, k + 1) |->
                     IF s = {} THEN 0 ELSE w[OneOf(s)] + f[s \ {OneOf(s)}]]
             h == [s \in UpTo(D, k + 1) |->
                     IF s = {} THEN 0 ELSE w[OneOf(s)] + g[s \ {OneOf(s)}]]
  <2>1. ASSUME NEW s \in UpTo(D, k + 1), s # {}
        PROVE  g[s \ {OneOf(s)}] = f[s \ {OneOf(s)}]
    <3> DEFINE t == s \ {OneOf(s)}
    <3>1. /\ t \in SUBSET D /\ Cardinality(t) = Cardinality(s) - 1
          /\ Cardinality(s) <= k + 1 /\ Cardinality(s) \in Nat
      BY <1>0, <2>1, OneLess DEF UpTo
    <3>2. t \in UpTo(D, k) /\ t \in UpTo(D, k + 1)
      BY <3>1 DEF UpTo
    <3> HIDE DEF t
    <3>3. f[t] = IF t = {} THEN 0 ELSE w[OneOf(t)] + f[t \ {OneOf(t)}]
      BY <1>2, <3>2
    <3>4. g[t] = IF t = {} THEN 0 ELSE w[OneOf(t)] + f[t \ {OneOf(t)}]
      BY <3>2
    <3>5. QED
      BY <3>3, <3>4 DEF t
  <2>2. g = h
    BY <2>1
  <2>3. QED
    BY <2>2
<1> HIDE DEF Sums, D
<1>3. \A k \in Nat : k \in S => k + 1 \in S
  BY <1>2
<1>4. Cardinality(D) \in S
  BY <1>0, <1>1, <1>3, AllNaturals
<1>5. UpTo(D, Cardinality(D)) = SUBSET D
  BY <1>0, FS_Subset DEF UpTo
<1>6. QED
  BY <1>4, <1>5 DEF Sums, D

\* T is that function.
Summed(T, w) ==
    /\ T[{}] = 0
    /\ \A s \in SUBSET DOMAIN w : s # {} => T[s] = w[OneOf(s)] + T[s \ {OneOf(s)}]

\* The sum of w taken element by element, for every set of its arguments.
LEMMA SumChosen ==
    ASSUME NEW w, IsFiniteSet(DOMAIN w)
    PROVE  \E T : SumFunction(w) = T[DOMAIN w] /\ Summed(T, w)
<1> DEFINE T == CHOOSE g : g = [s \in SUBSET DOMAIN w |->
                    IF s = {} THEN 0 ELSE w[OneOf(s)] + g[s \ {OneOf(s)}]]
<1>1. T = [s \in SUBSET DOMAIN w |-> IF s = {} THEN 0 ELSE w[OneOf(s)] + T[s \ {OneOf(s)}]]
  BY SumDefined, Zenon
<1>2. SumFunction(w) = T[DOMAIN w]
  BY Zenon DEF SumFunction, SumFunctionOnSet, FoldFunctionOnSet, MapThenFoldSet, OneOf
<1> HIDE DEF T
<1>3. T[{}] = 0
  BY <1>1
<1>4. \A s \in SUBSET DOMAIN w : s # {} => T[s] = w[OneOf(s)] + T[s \ {OneOf(s)}]
  BY <1>1
<1>5. QED
  BY <1>2, <1>3, <1>4 DEF Summed

\* A set of subsets that holds {} and each whose parts it holds, holds them all.
LEMMA OverSubsets ==
    ASSUME NEW D, IsFiniteSet(D), NEW S, {} \in S,
           \A s \in SUBSET D : s # {} /\ (\A x \in s : s \ {x} \in S) => s \in S
    PROVE  SUBSET D \subseteq S
<1> DEFINE N == {k \in Nat : \A s \in SUBSET D : Cardinality(s) = k => s \in S}
<1>0. \A s \in SUBSET D : IsFiniteSet(s) /\ Cardinality(s) \in Nat
  BY FS_Subset, FS_CardinalityType
<1>1. 0 \in N
  BY <1>0, FS_EmptySet
<1>2. ASSUME NEW k \in Nat, k \in N, NEW s \in SUBSET D, Cardinality(s) = k + 1
      PROVE  s \in S
  <2>1. s # {}
    BY <1>2, FS_EmptySet
  <2>2. \A x \in s : Cardinality(s \ {x}) = k /\ s \ {x} \in SUBSET D
    BY <1>0, <1>2, OneLess
  <2>3. QED
    BY <1>2, <2>1, <2>2
<1>3. \A k \in Nat : k \in N => k + 1 \in N
  BY <1>2
<1>4. \A s \in SUBSET D : Cardinality(s) \in N => s \in S
  OBVIOUS
<1> HIDE DEF N
<1>5. Nat \subseteq N
  BY <1>1, <1>3, AllNaturals
<1>6. QED
  BY <1>0, <1>4, <1>5

\* The order in which the elements are taken does not matter.
LEMMA SumAnyOrder ==
    ASSUME NEW w, NEW D, IsFiniteSet(D), D = DOMAIN w, \A x \in D : w[x] \in Int,
           NEW T, Summed(T, w)
    PROVE  \A s \in SUBSET D :
              T[s] \in Int /\ \A x \in s : T[s] = w[x] + T[s \ {x}]
<1> DEFINE S == {s \in SUBSET D : T[s] \in Int}
           Q == {s \in SUBSET D : \A x \in s : T[s] = w[x] + T[s \ {x}]}
<1>0. \A s \in SUBSET D : s # {} => /\ OneOf(s) \in s
                                    /\ T[s] = w[OneOf(s)] + T[s \ {OneOf(s)}]
  BY DEF OneOf, Summed
<1>1. {} \in S /\ {} \in Q
  BY DEF Summed
<1>2. ASSUME NEW s \in SUBSET D, s # {}, \A x \in s : s \ {x} \in S
      PROVE  s \in S
  <2> DEFINE a == OneOf(s)
  <2>1. a \in s /\ T[s] = w[a] + T[s \ {a}]
    BY <1>0, <1>2
  <2> HIDE DEF a
  <2>2. w[a] \in Int /\ T[s \ {a}] \in Int
    BY <1>2, <2>1
  <2>3. QED
    BY <2>1, <2>2
<1>3. \A s \in SUBSET D : s \in S => T[s] \in Int
  OBVIOUS
<1> HIDE DEF S
<1>4. SUBSET D \subseteq S
  BY <1>1, <1>2, OverSubsets
<1>5. ASSUME NEW s \in SUBSET D, s # {}, \A x \in s : s \ {x} \in Q
      PROVE  s \in Q
  <2> DEFINE a == OneOf(s)
  <2>1. a \in s /\ T[s] = w[a] + T[s \ {a}]
    BY <1>0, <1>5
  <2> HIDE DEF a
  <2>2. ASSUME NEW x \in s, x # a
        PROVE  T[s] = w[x] + T[s \ {x}]
    <3>1. x \in s \ {a} /\ a \in s \ {x} /\ (s \ {a}) \ {x} = (s \ {x}) \ {a}
      BY <2>1, <2>2
    <3>2. T[s \ {a}] = w[x] + T[(s \ {a}) \ {x}] /\ T[s \ {x}] = w[a] + T[(s \ {x}) \ {a}]
      BY <1>5, <2>1, <3>1
    <3>3. T[(s \ {a}) \ {x}] \in Int /\ w[x] \in Int /\ w[a] \in Int
      BY <1>3, <1>4, <2>1
    <3>4. T[s] = w[a] + (w[x] + T[(s \ {a}) \ {x}])
      BY <2>1, <3>2
    <3>5. w[x] + T[s \ {x}] = w[x] + (w[a] + T[(s \ {a}) \ {x}])
      BY <3>1, <3>2
    <3>6. QED
      BY <3>3, <3>4, <3>5
  <2>3. \A x \in s : T[s] = w[x] + T[s \ {x}]
    BY <2>1, <2>2
  <2>4. QED
    BY <2>3
<1>6. \A s \in SUBSET D : s \in Q => \A x \in s : T[s] = w[x] + T[s \ {x}]
  OBVIOUS
<1> HIDE DEF Q
<1>7. SUBSET D \subseteq Q
  BY <1>1, <1>5, OverSubsets
<1>8. QED
  BY <1>3, <1>4, <1>6, <1>7

\* A sum of integers is one.
LEMMA SumType ==
    ASSUME NEW w, IsFiniteSet(DOMAIN w), \A x \in DOMAIN w : w[x] \in Int
    PROVE  SumFunction(w) \in Int
BY SumChosen, SumAnyOrder

\* What is summed term by term is no more than the sums of the terms.
LEMMA SumLeq ==
    ASSUME NEW D, IsFiniteSet(D), NEW u, NEW v, NEW w,
           DOMAIN u = D, DOMAIN v = D, DOMAIN w = D,
           \A x \in D : u[x] \in Int /\ v[x] \in Int /\ w[x] \in Int /\ u[x] <= v[x] + w[x]
    PROVE  SumFunction(u) <= SumFunction(v) + SumFunction(w)
<1>1. PICK U : SumFunction(u) = U[D] /\ Summed(U, u)
  BY SumChosen
<1>2. PICK V : SumFunction(v) = V[D] /\ Summed(V, v)
  BY SumChosen
<1>3. PICK W : SumFunction(w) = W[D] /\ Summed(W, w)
  BY SumChosen
<1> DEFINE S == {s \in SUBSET D : U[s] <= V[s] + W[s]}
<1>4. \A s \in SUBSET D : U[s] \in Int /\ V[s] \in Int /\ W[s] \in Int
  <2>1. \A s \in SUBSET D : U[s] \in Int
    BY <1>1, SumAnyOrder
  <2>2. \A s \in SUBSET D : V[s] \in Int
    BY <1>2, SumAnyOrder
  <2>3. \A s \in SUBSET D : W[s] \in Int
    BY <1>3, SumAnyOrder
  <2>4. QED
    BY <2>1, <2>2, <2>3
<1>5. {} \in S
  BY <1>1, <1>2, <1>3 DEF Summed
<1>6. ASSUME NEW s \in SUBSET D, s # {}, \A x \in s : s \ {x} \in S
      PROVE  s \in S
  <2> DEFINE a == OneOf(s)
             t == s \ {a}
  <2>1. a \in s /\ a \in D
    BY <1>6 DEF OneOf
  <2>2. U[s] = u[a] + U[t] /\ V[s] = v[a] + V[t] /\ W[s] = w[a] + W[t]
    BY <1>1, <1>2, <1>3, <1>6 DEF Summed
  <2>3. t \in SUBSET D /\ U[t] <= V[t] + W[t]
    BY <1>6, <2>1
  <2> HIDE DEF a, t
  <2>4. U[s] <= V[s] + W[s]
    BY <1>4, <2>1, <2>2, <2>3
  <2>5. QED
    BY <2>4
<1>7. \A s \in SUBSET D : s \in S => U[s] <= V[s] + W[s]
  OBVIOUS
<1> HIDE DEF S
<1>8. SUBSET D \subseteq S
  BY <1>5, <1>6, OverSubsets
<1>9. QED
  BY <1>1, <1>2, <1>3, <1>7, <1>8

\* A sum over a part of the domain is no more than the whole, and none is below 0.
LEMMA SumPart ==
    ASSUME NEW w, NEW D, D = DOMAIN w, IsFiniteSet(D), \A x \in D : w[x] \in Nat,
           NEW E \in SUBSET D
    PROVE  /\ SumFunction([x \in E |-> w[x]]) \in Nat
           /\ SumFunction([x \in E |-> w[x]]) <= SumFunction(w)
<1> DEFINE v == [x \in E |-> w[x]]
<1>0. IsFiniteSet(E) /\ DOMAIN v = E /\ \A x \in E : v[x] = w[x]
  BY FS_Subset
<1> HIDE DEF v
<1>1. PICK V : SumFunction(v) = V[E] /\ Summed(V, v)
  BY <1>0, SumChosen
<1>2. PICK W : SumFunction(w) = W[D] /\ Summed(W, w)
  BY SumChosen
<1>3. \A s \in SUBSET D : W[s] \in Int /\ \A x \in s : W[s] = w[x] + W[s \ {x}]
  BY <1>2, SumAnyOrder
<1> DEFINE S == {s \in SUBSET E : V[s] = W[s] /\ W[s] >= 0}
           Q == {s \in SUBSET D : E \subseteq s => W[E] <= W[s]}
<1>4. {} \in S
  BY <1>1, <1>2 DEF Summed
<1>5. ASSUME NEW s \in SUBSET E, s # {}, \A x \in s : s \ {x} \in S
      PROVE  s \in S
  <2> DEFINE a == OneOf(s)
             t == s \ {a}
  <2>1. a \in s /\ a \in D /\ a \in E
    BY <1>5 DEF OneOf
  <2>2. V[s] = v[a] + V[t] /\ W[s] = w[a] + W[t]
    BY <1>0, <1>1, <1>2, <1>5 DEF Summed
  <2>3. t \in SUBSET D /\ V[t] = W[t] /\ W[t] >= 0
    BY <1>5, <2>1
  <2> HIDE DEF a, t
  <2>4. V[s] = W[s] /\ W[s] >= 0
    BY <1>0, <1>3, <2>1, <2>2, <2>3
  <2>5. QED
    BY <2>4
<1>6. SUBSET E \subseteq S
  <2> HIDE DEF S
  <2>1. QED
    BY <1>0, <1>4, <1>5, OverSubsets
<1>7. {} \in Q
  <2>1. E \subseteq {} => E = {}
    OBVIOUS
  <2>2. W[{}] <= W[{}]
    BY <1>3
  <2>3. QED
    BY <2>1, <2>2
<1>8. ASSUME NEW s \in SUBSET D, s # {}, \A x \in s : s \ {x} \in Q
      PROVE  s \in Q
  <2>1. CASE ~(E \subseteq s) \/ E = s
    BY <1>3, <2>1
  <2>2. CASE E \subseteq s /\ E # s
    <3>1. PICK x \in s : x \notin E
      BY <2>2
    <3>2. s \ {x} \in SUBSET D /\ W[E] <= W[s \ {x}]
      BY <1>8, <2>2, <3>1
    <3>3. W[s] = w[x] + W[s \ {x}] /\ w[x] \in Nat
      BY <1>3
    <3>4. W[E] <= W[s]
      BY <1>3, <3>2, <3>3
    <3>5. QED
      BY <3>4
  <2>3. QED
    BY <2>1, <2>2
<1>9. SUBSET D \subseteq Q
  <2> HIDE DEF Q
  <2>1. QED
    BY <1>7, <1>8, OverSubsets
<1>10. W[E] <= W[D] /\ V[E] = W[E] /\ W[E] >= 0 /\ W[E] \in Int
  BY <1>3, <1>6, <1>9
<1>11. QED
  BY <1>1, <1>2, <1>10 DEF v

\* A sum of zeros is 0.
LEMMA SumOfNone ==
    ASSUME NEW z, NEW D, D = DOMAIN z, IsFiniteSet(D), \A x \in D : z[x] = 0
    PROVE  SumFunction(z) = 0
<1>1. PICK T : SumFunction(z) = T[D] /\ Summed(T, z)
  BY SumChosen
<1> DEFINE S == {s \in SUBSET D : T[s] = 0}
<1>2. {} \in S
  BY <1>1 DEF Summed
<1>3. ASSUME NEW s \in SUBSET D, s # {}, \A x \in s : s \ {x} \in S
      PROVE  s \in S
  <2> DEFINE a == OneOf(s)
  <2>1. a \in s /\ T[s] = z[a] + T[s \ {a}]
    BY <1>1, <1>3 DEF OneOf, Summed
  <2> HIDE DEF a
  <2>2. z[a] = 0 /\ T[s \ {a}] = 0
    BY <1>3, <2>1
  <2>3. QED
    BY <2>1, <2>2
<1>4. SUBSET D \subseteq S
  <2> HIDE DEF S
  <2>1. QED
    BY <1>2, <1>3, OverSubsets
<1>5. QED
  BY <1>1, <1>4

\* What one rule adds up over a part of the facts is no more than over all.
LEMMA SumGrows ==
    ASSUME NEW rule, Valid(rule), rule.weight \in Int, NEW facts, FactsBuilt(facts),
           NEW part \in SUBSET facts
    PROVE  /\ Sum(rule, part) \in Nat /\ Sum(rule, facts) \in Nat
           /\ Sum(rule, part) <= Sum(rule, facts)
<1> DEFINE D == Fired(rule, facts)
           E == Fired(rule, part)
           w == [f \in D |-> Weight(rule, f)]
<1>1. IsFiniteSet(D) /\ E \in SUBSET D /\ \A f \in D : f.location \in Nat
  BY FS_Subset DEF Fired, FactsBuilt
<1>2. \A f \in D : Weight(rule, f) \in Nat
  BY <1>1 DEF Weight, Valid
<1>3. /\ Sum(rule, facts) = SumFunction(w)
      /\ Sum(rule, part) = SumFunction([f \in E |-> Weight(rule, f)])
  BY DEF Sum
<1>4. [f \in E |-> Weight(rule, f)] = [f \in E |-> w[f]]
  BY <1>1
<1>5. [f \in D |-> w[f]] = w
  OBVIOUS
<1>6. DOMAIN w = D /\ \A f \in D : w[f] \in Nat
  BY <1>2
<1> HIDE DEF w, D, E
<1>7. /\ SumFunction([f \in E |-> w[f]]) \in Nat
      /\ SumFunction([f \in E |-> w[f]]) <= SumFunction(w)
  BY <1>1, <1>6, SumPart
<1>8. SumFunction([f \in D |-> w[f]]) \in Nat
  BY <1>1, <1>6, SumPart
<1>9. QED
  BY <1>3, <1>4, <1>5, <1>7, <1>8

\* A rule that does not fire adds up to 0.
LEMMA NoneFired ==
    ASSUME NEW rule, NEW facts, Fired(rule, facts) = {}
    PROVE  Sum(rule, facts) = 0
<1> DEFINE w == [f \in Fired(rule, facts) |-> Weight(rule, f)]
<1>1. DOMAIN w = {} /\ IsFiniteSet({}) /\ Sum(rule, facts) = SumFunction(w)
  BY FS_EmptySet DEF Sum
<1> HIDE DEF w
<1>2. QED
  BY <1>1, SumOfNone

\* The cap of a rule keeps what it adds between 0 and its sum, and in order.
LEMMA AddsOf ==
    ASSUME NEW rule, Valid(rule), rule.maxTotal \in Int
    PROVE  \A a, b \in Nat : /\ Adds(rule, b) \in Nat /\ Adds(rule, b) <= b
                             /\ a <= b => Adds(rule, a) <= Adds(rule, b)
BY DEF Adds, Valid

\* No fact lowers a score, and no rule does.
LEMMA ScoreGrows ==
    ASSUME NEW rules, RulesLoaded(rules), NEW facts, FactsBuilt(facts),
           NEW fewer \in SUBSET rules, NEW part \in SUBSET facts
    PROVE  /\ Score(rules, facts) \in Nat /\ Score(fewer, facts) \in Nat
           /\ Score(rules, part) \in Nat
           /\ Score(rules, part) <= Score(rules, facts)
           /\ Score(fewer, facts) <= Score(rules, facts)
<1> DEFINE u == [r \in rules |-> Adds(r, Sum(r, part))]
           v == [r \in rules |-> Adds(r, Sum(r, facts))]
           z == [r \in rules |-> 0]
<1>1. ASSUME NEW r \in rules
      PROVE  u[r] \in Nat /\ v[r] \in Nat /\ u[r] <= v[r]
  <2>1. Valid(r) /\ r.weight \in Int /\ r.maxTotal \in Int
    BY DEF RulesLoaded
  <2>2. /\ Sum(r, part) \in Nat /\ Sum(r, facts) \in Nat
        /\ Sum(r, part) <= Sum(r, facts)
    BY <2>1, SumGrows
  <2>3. QED
    BY <2>1, <2>2, AddsOf
<1>2. IsFiniteSet(rules)
  BY DEF RulesLoaded
<1>3. Score(rules, part) = SumFunction(u) /\ Score(rules, facts) = SumFunction(v)
  BY DEF Score
<1>4. Score(fewer, facts) = SumFunction([r \in fewer |-> v[r]])
  <2>1. [r \in fewer |-> v[r]] = [r \in fewer |-> Adds(r, Sum(r, facts))]
    OBVIOUS
  <2>2. QED
    BY <2>1 DEF Score
<1>5. /\ DOMAIN u = rules /\ DOMAIN v = rules /\ DOMAIN z = rules
      /\ u = [r \in rules |-> u[r]] /\ v = [r \in rules |-> v[r]]
      /\ z = [r \in rules |-> z[r]] /\ \A r \in rules : z[r] = 0
  OBVIOUS
<1> HIDE DEF u, v, z
<1>6. SumFunction(u) \in Nat
  BY <1>1, <1>2, <1>5, SumPart
<1>7. SumFunction(v) \in Nat
  BY <1>1, <1>2, <1>5, SumPart
<1>8. /\ SumFunction([r \in fewer |-> v[r]]) \in Nat
      /\ SumFunction([r \in fewer |-> v[r]]) <= SumFunction(v)
  BY <1>1, <1>2, <1>5, SumPart
<1>9. SumFunction(u) <= SumFunction(v)
  <2>1. SumFunction(z) <= 0 /\ SumFunction(z) \in Int
    BY <1>2, <1>5, SumOfNone
  <2>2. SumFunction(u) <= SumFunction(v) + SumFunction(z)
    BY <1>1, <1>2, <1>5, SumLeq
  <2>3. QED
    BY <1>6, <1>7, <2>1, <2>2
<1>10. QED
  BY <1>3, <1>4, <1>6, <1>7, <1>8, <1>9

\* The rules that are loaded are valid, and no two have the same id.
LEMMA RulesOf ==
    ASSUME NEW files, RulesRead(files)
    PROVE  RulesLoaded(LoadRules(files))
<1> DEFINE K == {n \in DOMAIN files :
        Valid(files[n]) /\ \A m \in 1..(n - 1) : Valid(files[m]) => files[m].id # files[n].id}
<1>1. LoadRules(files) = {files[k] : k \in K}
  BY DEF LoadRules
<1>2. IsFiniteSet(K)
  <2>1. IsFiniteSet(1..Len(files))
    BY FS_Interval DEF RulesRead
  <2>2. K \subseteq 1..Len(files)
    BY DEF RulesRead
  <2>3. QED
    BY <2>1, <2>2, FS_Subset
<1>3. IsFiniteSet({files[k] : k \in K})
  <2> DEFINE f == [k \in K |-> files[k]]
             R == {files[k] : k \in K}
  <2>1. f \in Surjection(K, R)
    BY DEF Surjection
  <2>2. QED
    BY <1>2, <2>1, FS_Surjection
<1>4. ASSUME NEW k \in K
      PROVE  Valid(files[k]) /\ {files[k].weight, files[k].maxTotal} \subseteq Int
  BY DEF RulesRead
<1>5. ASSUME NEW k \in K, NEW n \in K, files[k].id = files[n].id
      PROVE  files[k] = files[n]
  <2>1. k \in Nat \ {0} /\ n \in Nat \ {0}
    BY DEF RulesRead
  <2>2. CASE k < n
    <3>1. k \in 1..(n - 1)
      BY <2>1, <2>2
    <3>2. QED
      BY <1>4, <1>5, <3>1
  <2>3. CASE n < k
    <3>1. n \in 1..(k - 1)
      BY <2>1, <2>3
    <3>2. QED
      BY <1>4, <1>5, <3>1
  <2>4. QED
    BY <2>1, <2>2, <2>3
<1> HIDE DEF K
<1>6. QED
  BY <1>1, <1>3, <1>4, <1>5 DEF RulesLoaded

\* Without the last rule file, no other rule is loaded.
LEMMA FrontOf ==
    ASSUME NEW files, RulesRead(files), files # <<>>
    PROVE  LoadRules(Front(files)) \subseteq LoadRules(files)
<1>1. Len(files) \in Nat /\ DOMAIN files = 1..Len(files)
  BY DEF RulesRead
<1>2. /\ DOMAIN Front(files) = 1..(Len(files) - 1)
      /\ \A k \in 1..(Len(files) - 1) : Front(files)[k] = files[k]
  BY <1>1 DEF Front
<1>3. ASSUME NEW n \in DOMAIN Front(files)
      PROVE  /\ n \in DOMAIN files /\ Front(files)[n] = files[n]
             /\ \A m \in 1..(n - 1) : Front(files)[m] = files[m]
  <2>1. n \in Int /\ 1 <= n /\ n <= Len(files) - 1
    BY <1>1, <1>2
  <2>2. \A m \in 1..(n - 1) : m \in 1..(Len(files) - 1)
    BY <1>1, <2>1
  <2>3. QED
    BY <1>1, <1>2, <2>1, <2>2
<1>4. QED
  BY <1>3 DEF LoadRules

\* With a fact or a rule less, a release would not be reviewed sooner.
LEMMA NeverTaken ==
    ASSUME NEW files, RulesRead(files), NEW facts, FactsBuilt(facts)
    PROVE  NeverTakenOut(files, facts)
<1> DEFINE rules == LoadRules(files)
<1>1. RulesLoaded(rules)
  BY RulesOf
<1>2. ASSUME NEW f \in facts
      PROVE  Escalate(files, facts \ {f}) => Escalate(files, facts)
  <2>1. /\ Score(rules, facts) \in Nat /\ Score(rules, facts \ {f}) \in Nat
        /\ Score(rules, facts \ {f}) <= Score(rules, facts)
    BY <1>1, ScoreGrows
  <2>2. QED
    BY <2>1, ThresholdAssumption DEF Escalate
<1>3. ASSUME files # <<>>
      PROVE  Escalate(Front(files), facts) => Escalate(files, facts)
  <2> DEFINE fewer == LoadRules(Front(files))
  <2>1. fewer \subseteq rules
    BY <1>3, FrontOf
  <2>2. /\ Score(rules, facts) \in Nat /\ Score(fewer, facts) \in Nat
        /\ Score(fewer, facts) <= Score(rules, facts)
    BY <1>1, <2>1, ScoreGrows
  <2>3. QED
    BY <2>2, ThresholdAssumption DEF Escalate
<1>4. QED
  BY <1>2, <1>3 DEF NeverTakenOut

\* What the parent knows counts in full, and what a worker claims counts only once.
LEMMA ParentKnows ==
    ASSUME NEW rules, RulesLoaded(rules), NEW facts, FactsBuilt(facts),
           NEW claims, \A id \in DOMAIN claims : claims[id] \in Int
    PROVE  ParentDecides(rules, facts, claims, Analyzed(rules, facts, claims))
<1> DEFINE known == {f \in facts : f.scope \in ParentScopes}
           own == [r \in rules |-> Adds(r, Sum(r, known))]
           most == [r \in rules |-> IF r.scope \in ParentScopes THEN 0 ELSE Claimed(r, claims)]
           said == [r \in rules |-> Adds(r, IF r.scope \in ParentScopes THEN Sum(r, facts)
                                            ELSE Claimed(r, claims))]
           zero == [r \in rules |-> 0]
<1>0. IsFiniteSet(rules) /\ FactsBuilt(known)
  BY FS_Subset DEF RulesLoaded, FactsBuilt
<1>1. ASSUME NEW r \in rules
      PROVE  /\ Valid(r) /\ r.weight \in Int /\ r.maxTotal \in Int
             /\ Sum(r, facts) \in Nat /\ Sum(r, known) \in Nat
             /\ r.scope \in ParentScopes => Sum(r, known) = Sum(r, facts)
             /\ r.scope \notin ParentScopes => Sum(r, known) = 0
  <2>1. Valid(r) /\ r.weight \in Int /\ r.maxTotal \in Int
    BY DEF RulesLoaded
  <2>2. Sum(r, facts) \in Nat /\ Sum(r, known) \in Nat
    BY <1>0, <2>1, SumGrows
  <2>3. CASE r.scope \in ParentScopes
    <3>1. Fired(r, known) = Fired(r, facts)
      BY <2>3 DEF Fired
    <3>2. QED
      BY <2>1, <2>2, <2>3, <3>1 DEF Sum
  <2>4. CASE r.scope \notin ParentScopes
    <3>1. Fired(r, known) = {}
      BY <2>4 DEF Fired
    <3>2. Sum(r, known) = 0
      BY <3>1, NoneFired
    <3>3. QED
      BY <2>1, <2>2, <2>4, <3>2
  <2>5. QED
    BY <2>3, <2>4
<1>2. ASSUME NEW r \in rules, Believable(rules, claims)
      PROVE  /\ Claimed(r, claims) \in Nat /\ own[r] \in Nat /\ said[r] \in Nat
             /\ most[r] \in Nat /\ own[r] <= said[r] /\ said[r] <= own[r] + most[r]
  <2>1. Claimed(r, claims) \in Nat
    BY <1>2 DEF Claimed, Believable
  <2>2. CASE r.scope \in ParentScopes
    <3>1. own[r] = Adds(r, Sum(r, facts)) /\ said[r] = Adds(r, Sum(r, facts)) /\ most[r] = 0
      BY <1>1, <2>2
    <3>2. Adds(r, Sum(r, facts)) \in Nat
      <4>1. \A b \in Nat : Adds(r, b) \in Nat
        BY <1>1, AddsOf
      <4>2. QED
        BY <1>1, <4>1
    <3>3. QED
      BY <2>1, <3>1, <3>2
  <2>3. CASE r.scope \notin ParentScopes
    <3>1. /\ own[r] = Adds(r, 0) /\ said[r] = Adds(r, Claimed(r, claims))
          /\ most[r] = Claimed(r, claims)
      BY <1>1, <2>3
    <3>2. /\ Adds(r, 0) \in Nat /\ Adds(r, Claimed(r, claims)) \in Nat
          /\ Adds(r, 0) <= Adds(r, Claimed(r, claims))
          /\ Adds(r, Claimed(r, claims)) <= Claimed(r, claims)
      <4>1. \A a, b \in Nat : /\ Adds(r, b) \in Nat /\ Adds(r, b) <= b
                              /\ a <= b => Adds(r, a) <= Adds(r, b)
        BY <1>1, AddsOf
      <4>2. QED
        BY <2>1, <4>1
    <3>3. QED
      BY <2>1, <3>1, <3>2
  <2>4. QED
    BY <2>2, <2>3
<1>3. /\ DOMAIN own = rules /\ DOMAIN most = rules /\ DOMAIN said = rules
      /\ DOMAIN zero = rules /\ \A r \in rules : zero[r] = 0
  OBVIOUS
<1>4. /\ Score(rules, known) = SumFunction(own)
      /\ WithParentRules(rules, facts, claims) = SumFunction(said)
  BY DEF Score, WithParentRules
<1>5. ASSUME claims = Genuine(rules, facts)
      PROVE  Analyzed(rules, facts, claims) = Score(rules, facts)
  <2>1. ASSUME NEW r \in rules
        PROVE  claims[r.id] = Sum(r, WorkerFacts(facts)) /\ r.id \in DOMAIN claims
    <3>1. r.id \in {q.id : q \in rules}
      OBVIOUS
    <3>2. (CHOOSE q \in rules : q.id = r.id) = r
      BY DEF RulesLoaded
    <3>3. QED
      BY <1>5, <3>1, <3>2 DEF Genuine
  <2>2. FactsBuilt(WorkerFacts(facts))
    <3>1. IsFiniteSet({f \in facts : f.scope \notin ParentScopes})
      BY FS_Subset DEF FactsBuilt
    <3>2. IsFiniteSet(WorkerFacts(facts))
      BY <3>1, FS_AddElement DEF WorkerFacts
    <3>3. QED
      BY <3>2 DEF FactsBuilt, WorkerFacts, SameOwners
  <2>3. Believable(rules, claims)
    <3>1. ASSUME NEW id \in DOMAIN claims
          PROVE  claims[id] >= 0 /\ \E r \in rules : r.id = id
      <4>1. PICK r \in rules : r.id = id
        BY <1>5 DEF Genuine
      <4>2. Sum(r, WorkerFacts(facts)) \in Nat
        BY <1>1, <2>2, SumGrows
      <4>3. QED
        BY <2>1, <4>1, <4>2
    <3>2. QED
      BY <3>1 DEF Believable
  <2>4. ASSUME NEW r \in rules, r.scope \notin ParentScopes
        PROVE  Claimed(r, claims) = Sum(r, facts)
    <3>1. Fired(r, WorkerFacts(facts)) = Fired(r, facts)
      BY <2>4 DEF Fired, WorkerFacts, SameOwners, ParentScopes
    <3>2. QED
      BY <2>1, <3>1 DEF Claimed, Sum
  <2>5. WithParentRules(rules, facts, claims) = Score(rules, facts)
    <3>1. [r \in rules |-> Adds(r, Sum(r, facts))] = said
      BY <2>4
    <3>2. QED
      BY <1>4, <3>1 DEF Score
  <2>6. QED
    BY <2>3, <2>5 DEF Analyzed
<1>6. ASSUME Believable(rules, claims)
      PROVE  WithParentRules(rules, facts, claims)
                \in SumFunction(own)..(SumFunction(own) + SumFunction(most))
  <2> HIDE DEF own, most, said, zero
  <2>1. SumFunction(own) \in Int /\ SumFunction(most) \in Int /\ SumFunction(said) \in Int
    <3>1. SumFunction(own) \in Int
      BY <1>0, <1>2, <1>3, <1>6, SumType
    <3>2. SumFunction(most) \in Int
      BY <1>0, <1>2, <1>3, <1>6, SumType
    <3>3. SumFunction(said) \in Int
      BY <1>0, <1>2, <1>3, <1>6, SumType
    <3>4. QED
      BY <3>1, <3>2, <3>3
  <2>2. SumFunction(zero) = 0
    BY <1>0, <1>3, SumOfNone
  <2>3. SumFunction(own) <= SumFunction(said) + SumFunction(zero)
    <3>1. \A r \in rules : /\ own[r] \in Int /\ said[r] \in Int /\ zero[r] \in Int
                           /\ own[r] <= said[r] + zero[r]
      BY <1>2, <1>3, <1>6
    <3>2. QED
      BY <1>0, <1>3, <3>1, SumLeq
  <2>4. SumFunction(said) <= SumFunction(own) + SumFunction(most)
    <3>1. \A r \in rules : /\ own[r] \in Int /\ said[r] \in Int /\ most[r] \in Int
                           /\ said[r] <= own[r] + most[r]
      BY <1>2, <1>3, <1>6
    <3>2. QED
      BY <1>0, <1>3, <3>1, SumLeq
  <2>5. QED
    BY <1>4, <2>1, <2>2, <2>3, <2>4
<1>7. QED
  BY <1>4, <1>5, <1>6 DEF ParentDecides, Analyzed

-----------------------------------------------------------------------------
(* When a file runs: FileClasses.                                          *)

\* f takes the first k of the steps from base, within V.
Iterates(f, V, base, step, k) ==
    /\ f \in [0..k -> V] /\ f[0] = base
    /\ \A n \in 1..k : f[n] = step[n][f[n - 1]]

\* Steps that map V to V can be iterated: there is a function that does.
LEMMA Iterated ==
    ASSUME NEW V, NEW base \in V, NEW step, \A n \in Nat : \A v \in V : step[n][v] \in V
    PROVE  \A k \in Nat : \E f : Iterates(f, V, base, step, k)
<1> DEFINE Goes(f, k) == /\ f \in [0..k -> V] /\ f[0] = base
                         /\ \A n \in 1..k : f[n] = step[n][f[n - 1]]
           S == {k \in Nat : \E f : Goes(f, k)}
<1>1. 0 \in S
  <2> DEFINE f == [n \in 0..0 |-> base]
  <2>1. Goes(f, 0)
    OBVIOUS
  <2>2. QED
    BY <2>1
<1>2. ASSUME NEW k \in Nat, NEW f, Goes(f, k)
      PROVE  \E g : Goes(g, k + 1)
  <2> DEFINE g == [n \in 0..(k + 1) |-> IF n = k + 1 THEN step[n][f[k]] ELSE f[n]]
  <2>1. k + 1 \in Nat /\ k \in 0..k /\ f[k] \in V
    BY <1>2
  <2>2. g \in [0..(k + 1) -> V] /\ g[0] = base
    BY <1>2, <2>1
  <2>3. ASSUME NEW n \in 1..(k + 1)
        PROVE  g[n] = step[n][g[n - 1]]
    <3>1. CASE n = k + 1
      <4>1. n - 1 = k /\ k \in 0..(k + 1) /\ k # k + 1 /\ n \in 0..(k + 1)
        BY <3>1
      <4>2. g[k] = f[k] /\ g[n] = step[n][f[k]]
        BY <3>1, <4>1
      <4> HIDE DEF g
      <4>3. QED
        BY <4>1, <4>2
    <3>2. CASE n # k + 1
      <4>1. /\ n \in 1..k /\ n \in 0..(k + 1) /\ n - 1 \in 0..(k + 1)
            /\ n - 1 # k + 1
        BY <3>2
      <4>2. g[n] = f[n] /\ g[n - 1] = f[n - 1]
        BY <3>2, <4>1
      <4>3. f[n] = step[n][f[n - 1]]
        BY <1>2, <4>1
      <4> HIDE DEF g
      <4>4. QED
        BY <4>2, <4>3
    <3>3. QED
      BY <3>1, <3>2
  <2>4. Goes(g, k + 1)
    BY <2>2, <2>3
  <2>5. QED
    BY <2>4
<1> HIDE DEF Goes
<1>3. \A k \in Nat : k \in S => k + 1 \in S
  BY <1>2
<1>4. Nat \subseteq S
  BY <1>1, <1>3, AllNaturals
<1>5. QED
  BY <1>4 DEF Goes, Iterates

\* The classes, one by one.
LEMMA ClassesAre ==
    FileClass = {"build", "startup", "import", "user-command", "plugin-host",
                 "runtime-call", "not-shipped", "data", "inert"}
<1>1. DOMAIN ClassOrder = 1..9
  BY DEF ClassOrder
<1>2. \A i : i \in 1..9 <=> i \in {1, 2, 3, 4, 5, 6, 7, 8, 9}
  OBVIOUS
<1>3. QED
  BY <1>1, <1>2 DEF FileClass, ClassOrder

\* Only metadata that names a class, or setup.py, refers to a file at first.
LEMMA NamedType ==
    ASSUME NEW files, FilesListed(files)
    PROVE  Named(files) \in [DOMAIN files -> SUBSET FileClass]
<1>1. ASSUME NEW p \in DOMAIN files
      PROVE  /\ Named(files)[p] \subseteq files[p].named \cup {"build"}
             /\ files[p].named \subseteq FileClass
  BY DEF Named, FilesListed
<1>2. "build" \in FileClass
  BY ClassesAre
<1>3. \A p \in DOMAIN files : Named(files)[p] \in SUBSET FileClass
  BY <1>1, <1>2
<1>4. Named(files) = [p \in DOMAIN files |-> Named(files)[p]]
  BY DEF Named
<1>5. QED
  BY <1>3, <1>4

\* What one more file of the list adds.
RefsNext(files, refs, n) ==
    IF /\ files[n].name = "__init__.py"
       /\ ClassifyPath(files[n]) = "import" \/ "import" \in refs[n]
    THEN Imported(files, refs, n) ELSE refs

\* The files are gone through one by one.
LEMMA RefsByFile ==
    ASSUME NEW files, FilesListed(files)
    PROVE  \E refs : /\ References(files) = refs[Len(files)]
                     /\ refs[0] = Named(files)
                     /\ \A n \in 1..Len(files) : refs[n] = RefsNext(files, refs[n - 1], n)
<1> DEFINE V == [DOMAIN files -> SUBSET FileClass]
           step == [n \in Nat |-> [v \in V |-> RefsNext(files, v, n)]]
<1>1. Named(files) \in V
  BY NamedType
<1>2. ASSUME NEW n \in Nat, NEW v \in V
      PROVE  RefsNext(files, v, n) \in V /\ step[n][v] = RefsNext(files, v, n)
  BY ClassesAre DEF RefsNext, Imported
<1>3. Len(files) \in Nat
  BY DEF FilesListed
<1> HIDE DEF V, step
<1>4. PICK f \in [0..Len(files) -> V] :
         f[0] = Named(files) /\ \A n \in 1..Len(files) : f[n] = step[n][f[n - 1]]
  <2>1. \A n \in Nat : \A v \in V : step[n][v] \in V
    BY <1>2
  <2>2. \A k \in Nat : \E f : Iterates(f, V, Named(files), step, k)
    BY <1>1, <2>1, Iterated
  <2>3. QED
    BY <1>3, <2>2 DEF Iterates
<1>5. ASSUME NEW n \in 0..Len(files), n # 0
      PROVE  f[n] = RefsNext(files, f[n - 1], n)
  <2>1. n \in 1..Len(files) /\ n \in Nat /\ n - 1 \in 0..Len(files)
    BY <1>3, <1>5
  <2>2. f[n] = step[n][f[n - 1]] /\ f[n - 1] \in V
    BY <1>4, <2>1
  <2>3. QED
    BY <1>2, <2>1, <2>2
<1>6. f = [n \in 0..Len(files) |->
             IF n = 0 THEN Named(files)
             ELSE IF /\ files[n].name = "__init__.py"
                     /\ ClassifyPath(files[n]) = "import" \/ "import" \in f[n - 1][n]
             THEN Imported(files, f[n - 1], n)
             ELSE f[n - 1]]
  BY <1>4, <1>5 DEF RefsNext
<1>7. \E g : g = [n \in 0..Len(files) |->
             IF n = 0 THEN Named(files)
             ELSE IF /\ files[n].name = "__init__.py"
                     /\ ClassifyPath(files[n]) = "import" \/ "import" \in g[n - 1][n]
             THEN Imported(files, g[n - 1], n)
             ELSE g[n - 1]]
  BY <1>6, Zenon
<1> DEFINE refs == CHOOSE g : g = [n \in 0..Len(files) |->
             IF n = 0 THEN Named(files)
             ELSE IF /\ files[n].name = "__init__.py"
                     /\ ClassifyPath(files[n]) = "import" \/ "import" \in g[n - 1][n]
             THEN Imported(files, g[n - 1], n)
             ELSE g[n - 1]]
<1>8. refs = [n \in 0..Len(files) |->
             IF n = 0 THEN Named(files)
             ELSE IF /\ files[n].name = "__init__.py"
                     /\ ClassifyPath(files[n]) = "import" \/ "import" \in refs[n - 1][n]
             THEN Imported(files, refs[n - 1], n)
             ELSE refs[n - 1]]
  BY <1>7, Zenon
<1>9. References(files) = refs[Len(files)]
  BY Zenon DEF References
<1> HIDE DEF refs
<1>10. refs[0] = Named(files)
  BY <1>3, <1>8
<1>11. ASSUME NEW n \in 1..Len(files)
       PROVE  refs[n] = RefsNext(files, refs[n - 1], n)
  <2>1. n \in 0..Len(files) /\ n # 0
    BY <1>3
  <2>2. refs[n] = IF /\ files[n].name = "__init__.py"
                     /\ ClassifyPath(files[n]) = "import" \/ "import" \in refs[n - 1][n]
                  THEN Imported(files, refs[n - 1], n)
                  ELSE refs[n - 1]
    BY <1>8, <2>1
  <2>3. QED
    BY <2>2 DEF RefsNext
<1>12. QED
  BY <1>9, <1>10, <1>11

\* The __init__.py files among the first k whose imports are followed.
FollowedTo(files, inits, k) ==
    inits = {i \in 1..k : /\ files[i].name = "__init__.py"
                          /\ \/ i \in ByItself(files)
                             \/ i \in ImportedBy(files, {j \in inits : j < i})}

\* What refers to each file once the imports of some were followed: all that names it
\* and nothing else but import, and that exactly if they import it.
RefsTo(files, refs, inits) ==
    /\ refs \in [DOMAIN files -> SUBSET FileClass]
    /\ \A p \in DOMAIN files :
          /\ Named(files)[p] \subseteq refs[p]
          /\ refs[p] \ {"import"} \subseteq Named(files)[p]
          /\ "import" \in refs[p] <=>
                "import" \in files[p].named \/ p \in ImportedBy(files, inits)

\* It holds of what names the files,
LEMMA RefsFirst ==
    ASSUME NEW files, FilesListed(files)
    PROVE  FollowedTo(files, {}, 0) /\ RefsTo(files, Named(files), {})
<1>1. Named(files) \in [DOMAIN files -> SUBSET FileClass]
  BY NamedType
<1>2. ASSUME NEW p \in DOMAIN files
      PROVE  "import" \in Named(files)[p] <=> "import" \in files[p].named
  BY DEF Named
<1>3. ImportedBy(files, {}) = {}
  BY DEF ImportedBy
<1>4. FollowedTo(files, {}, 0)
  BY DEF FollowedTo
<1>5. QED
  BY <1>1, <1>2, <1>3, <1>4 DEF RefsTo

\* one more file keeps it,
LEMMA RefsStep ==
    ASSUME NEW files, FilesListed(files), NEW k \in Nat, k + 1 \in DOMAIN files,
           NEW refs, NEW inits \in SUBSET (1..k), FollowedTo(files, inits, k),
           RefsTo(files, refs, inits)
    PROVE  \E more \in SUBSET (1..(k + 1)) :
               /\ FollowedTo(files, more, k + 1)
               /\ RefsTo(files, RefsNext(files, refs, k + 1), more)
<1> DEFINE n == k + 1
           new == RefsNext(files, refs, n)
           runs == /\ files[n].name = "__init__.py"
                   /\ ClassifyPath(files[n]) = "import" \/ "import" \in refs[n]
           more == IF runs THEN inits \cup {n} ELSE inits
           before(i) == {j \in more : j < i}
<1>0. /\ \A i : i \in 1..n <=> i \in 1..k \/ i = n
      /\ n \in DOMAIN files /\ n \notin 1..k /\ n \in Nat
  OBVIOUS
<1>1. ASSUME NEW p \in DOMAIN files
      PROVE  /\ runs => new[p] = refs[p] \cup (IF p \in files[n].imports THEN {"import"} ELSE {})
             /\ ~runs => new[p] = refs[p]
  BY DEF RefsNext, Imported
<1>2. new \in [DOMAIN files -> SUBSET FileClass]
  BY ClassesAre DEF RefsNext, Imported, RefsTo
<1>3. more \subseteq 1..n
  BY <1>0
<1>4. runs <=> /\ files[n].name = "__init__.py"
               /\ n \in ByItself(files) \/ n \in ImportedBy(files, inits)
  BY <1>0 DEF ByItself, RefsTo
<1>5. ASSUME NEW i \in 1..k
      PROVE  before(i) = {j \in inits : j < i}
  <2>1. ~(n < i)
    BY <1>0
  <2> HIDE DEF n, runs
  <2>2. QED
    BY <2>1
<1>6. before(n) = inits
  <2>1. \A j \in inits : j < n
    OBVIOUS
  <2>2. ~(n < n)
    BY <1>0
  <2> HIDE DEF n, runs
  <2>3. QED
    BY <2>1, <2>2
<1>7. ASSUME NEW p \in DOMAIN files
      PROVE  p \in ImportedBy(files, more) <=>
                 p \in ImportedBy(files, inits) \/ (runs /\ p \in files[n].imports)
  <2>1. \A some : p \in ImportedBy(files, some) <=> \E i \in some : p \in files[i].imports
    BY DEF ImportedBy
  <2>2. runs => more = inits \cup {n}
    OBVIOUS
  <2>3. ~runs => more = inits
    OBVIOUS
  <2> HIDE DEF n, runs, more
  <2>4. QED
    BY <2>1, <2>2, <2>3
<1> HIDE DEF n, new, runs, more, before
<1>8. ASSUME NEW i
      PROVE  i \in more <=> /\ i \in 1..n /\ files[i].name = "__init__.py"
                            /\ i \in ByItself(files) \/ i \in ImportedBy(files, before(i))
  <2>1. CASE i \in 1..k
    <3>1. i \in more <=> i \in inits
      BY <1>0, <2>1 DEF more
    <3>2. i \in inits <=> /\ files[i].name = "__init__.py"
                          /\ \/ i \in ByItself(files)
                             \/ i \in ImportedBy(files, {j \in inits : j < i})
      BY <2>1 DEF FollowedTo
    <3>3. QED
      BY <1>0, <1>5, <2>1, <3>1, <3>2
  <2>2. CASE i = n
    <3>1. i \in more <=> runs
      BY <1>0, <2>2 DEF more
    <3>2. QED
      BY <1>0, <1>4, <1>6, <2>2, <3>1
  <2>3. CASE i \notin 1..n
    BY <1>3, <2>3
  <2>4. QED
    BY <1>0, <2>1, <2>2, <2>3
<1>9. FollowedTo(files, more, n)
  <2>1. more = {i \in 1..n : /\ files[i].name = "__init__.py"
                             /\ i \in ByItself(files) \/ i \in ImportedBy(files, before(i))}
    BY <1>8, Zenon
  <2>2. QED
    BY <2>1 DEF FollowedTo, before
<1>10. RefsTo(files, new, more)
  <2>1. ASSUME NEW p \in DOMAIN files
        PROVE  /\ Named(files)[p] \subseteq new[p]
               /\ new[p] \ {"import"} \subseteq Named(files)[p]
               /\ "import" \in new[p] <=>
                      "import" \in refs[p] \/ (runs /\ p \in files[n].imports)
    <3>1. Named(files)[p] \subseteq refs[p] /\ refs[p] \ {"import"} \subseteq Named(files)[p]
      BY DEF RefsTo
    <3>2. CASE runs
      BY <1>1, <3>1, <3>2
    <3>3. CASE ~runs
      BY <1>1, <3>1, <3>3
    <3>4. QED
      BY <3>2, <3>3
  <2>2. ASSUME NEW p \in DOMAIN files
        PROVE  "import" \in new[p] <=>
                   "import" \in files[p].named \/ p \in ImportedBy(files, more)
    BY <1>7, <2>1 DEF RefsTo
  <2>3. QED
    BY <1>2, <2>1, <2>2 DEF RefsTo
<1>11. QED
  BY <1>3, <1>9, <1>10 DEF new, n

\* and so it holds once all were looked at.
LEMMA RefsOfAll ==
    ASSUME NEW files, FilesListed(files)
    PROVE  \E inits \in SUBSET DOMAIN files :
               Followed(files, inits) /\ RefsTo(files, References(files), inits)
<1>1. PICK refs : /\ References(files) = refs[Len(files)]
                  /\ refs[0] = Named(files)
                  /\ \A n \in 1..Len(files) : refs[n] = RefsNext(files, refs[n - 1], n)
  BY RefsByFile
<1>2. Len(files) \in Nat /\ DOMAIN files = 1..Len(files)
  BY DEF FilesListed
<1> DEFINE Holds(k) == \E inits \in SUBSET (1..k) :
                           FollowedTo(files, inits, k) /\ RefsTo(files, refs[k], inits)
           S == {k \in Nat : k <= Len(files) => Holds(k)}
<1>3. 0 \in S
  <2>1. Holds(0)
    BY <1>1, RefsFirst
  <2> HIDE DEF Holds
  <2>2. QED
    BY <2>1
<1>4. ASSUME NEW k \in Nat, k \in S
      PROVE  k + 1 \in S
  <2> SUFFICES ASSUME k + 1 <= Len(files)
               PROVE  Holds(k + 1)
    OBVIOUS
  <2>1. k + 1 \in 1..Len(files) /\ (k + 1) - 1 = k /\ k <= Len(files)
    BY <1>2
  <2>2. PICK inits \in SUBSET (1..k) :
            FollowedTo(files, inits, k) /\ RefsTo(files, refs[k], inits)
    BY <1>4, <2>1
  <2>3. refs[k + 1] = RefsNext(files, refs[k], k + 1)
    BY <1>1, <2>1
  <2>4. \E more \in SUBSET (1..(k + 1)) :
            /\ FollowedTo(files, more, k + 1)
            /\ RefsTo(files, RefsNext(files, refs[k], k + 1), more)
    BY <1>2, <2>1, <2>2, RefsStep
  <2>5. QED
    BY <2>3, <2>4
<1>5. \A k \in Nat : k \in S /\ k <= Len(files) => Holds(k)
  OBVIOUS
<1> HIDE DEF S, Holds
<1>6. Nat \subseteq S
  BY <1>3, <1>4, AllNaturals
<1>7. Holds(Len(files))
  BY <1>2, <1>5, <1>6
<1>8. PICK inits \in SUBSET (1..Len(files)) :
          FollowedTo(files, inits, Len(files)) /\ RefsTo(files, refs[Len(files)], inits)
  BY <1>7 DEF Holds
<1>9. Followed(files, inits)
  BY <1>2, <1>8 DEF FollowedTo, Followed
<1>10. QED
  BY <1>1, <1>2, <1>8, <1>9

\* The place of a class, and the class at a place.
LEMMA RankIs ==
    ASSUME NEW c \in FileClass
    PROVE  RankOf(c) \in 1..9 /\ ClassOrder[RankOf(c)] = c
<1>1. \E i \in DOMAIN ClassOrder : ClassOrder[i] = c
  BY DEF FileClass
<1>2. DOMAIN ClassOrder = 1..9
  BY DEF ClassOrder
<1>3. RankOf(c) \in DOMAIN ClassOrder /\ ClassOrder[RankOf(c)] = c
  BY <1>1 DEF RankOf
<1>4. QED
  BY <1>2, <1>3

\* Of some classes there is an earliest.
LEMMA EarliestIs ==
    ASSUME NEW classes \in SUBSET FileClass, classes # {}
    PROVE  /\ Earliest(classes) \in classes
           /\ \A d \in classes : RankOf(Earliest(classes)) <= RankOf(d)
<1> DEFINE ranks == {RankOf(c) : c \in classes}
<1>1. ranks \subseteq Nat /\ ranks # {}
  BY RankIs
<1> HIDE DEF ranks
<1>2. PICK x \in ranks : \A y \in ranks : ~ (<<y, x>> \in OpToRel(<, Nat))
  BY <1>1, NatLessThanWellFounded, WFMin
<1>3. ASSUME NEW y \in ranks
      PROVE  x <= y
  <2>1. x \in Nat /\ y \in Nat /\ ~ (<<y, x>> \in OpToRel(<, Nat))
    BY <1>1, <1>2
  <2>2. y < x => <<y, x>> \in OpToRel(<, Nat)
    BY <2>1 DEF OpToRel
  <2>3. ~(y < x)
    BY <2>1, <2>2, Zenon
  <2>4. x \in Nat /\ y \in Nat
    BY <1>1
  <2>5. QED
    BY <2>3, <2>4
<1>4. \E c \in classes : \A d \in classes : RankOf(c) <= RankOf(d)
  BY <1>2, <1>3 DEF ranks
<1>5. QED
  BY <1>4, Zenon DEF Earliest

\* What a file's path says by itself.
LEMMA PathIs ==
    ASSUME NEW f
    PROVE  ClassifyPath(f) \in FileClass \ {"user-command", "plugin-host"}
BY ClassesAre DEF ClassifyPath

\* Files are said to run when they do.
LEMMA ClassesRight ==
    ASSUME NEW files, FilesListed(files)
    PROVE  RunsWhenReached(files, Classify(files))
<1> DEFINE refs == References(files)
           classes == Classify(files)
<1>0. {"build", "startup", "import"} \subseteq FileClass
  BY ClassesAre
<1>1. PICK inits \in SUBSET DOMAIN files : Followed(files, inits) /\ RefsTo(files, refs, inits)
  BY RefsOfAll
<1> SUFFICES ASSUME NEW p \in DOMAIN files
             PROVE  LET said == Named(files)[p]
                                    \cup ({ClassifyPath(files[p])} \cap {"build", "startup"})
                        reached == p \in ByItself(files) \cup ImportedBy(files, inits)
                    IN  /\ \A c \in said : RankOf(classes[p]) <= RankOf(c)
                        /\ reached => RankOf(classes[p]) <= RankOf("import")
                        /\ classes[p] = "import" => reached
                        /\ classes[p] \in {"build", "startup", "user-command", "plugin-host"} =>
                               classes[p] \in said
  BY <1>1 DEF RunsWhenReached
<1> DEFINE path == ClassifyPath(files[p])
           said == Named(files)[p] \cup ({path} \cap {"build", "startup"})
           candidates == refs[p] \cup ({path} \cap {"build", "startup", "import"})
<1>3. classes[p] = IF candidates = {} THEN path ELSE Earliest(candidates)
  BY DEF Classify
<1>4. path \in FileClass \ {"user-command", "plugin-host"}
  BY PathIs
<1>5. candidates \subseteq FileClass /\ said \subseteq candidates
  BY <1>0, <1>1 DEF RefsTo
<1>6. candidates # {} => /\ Earliest(candidates) \in candidates
                         /\ \A d \in candidates : RankOf(Earliest(candidates)) <= RankOf(d)
  BY <1>5, EarliestIs
<1>7. \A d \in candidates : RankOf(classes[p]) <= RankOf(d)
  BY <1>3, <1>6
<1>8. "import" \in candidates <=> p \in ByItself(files) \cup ImportedBy(files, inits)
  BY <1>1 DEF RefsTo, ByItself
<1>9. classes[p] = "import" => "import" \in candidates
  BY <1>3, <1>6
<1>10. ASSUME classes[p] \in {"build", "startup", "user-command", "plugin-host"}
       PROVE  classes[p] \in said
  <2>1. candidates # {}
    BY <1>3, <1>4, <1>10
  <2>2. classes[p] \in candidates
    BY <1>3, <1>6, <2>1
  <2>3. QED
    BY <1>1, <1>10, <2>2 DEF RefsTo
<1> HIDE DEF classes, said, candidates
<1>11. QED
  BY <1>5, <1>7, <1>8, <1>9, <1>10 DEF said

-----------------------------------------------------------------------------
(* What of an archive is scanned and recorded: ReleaseDiff.                *)

\* Of finitely many records one was the last.
LEMMA LastOf ==
    ASSUME NEW F, IsFiniteSet(F), \A b \in F : b.at \in Nat
    PROVE  \A s \in SUBSET F : s # {} => \E g \in s : \A b \in s : b.at <= g.at
<1> DEFINE S == {s \in SUBSET F : s # {} => \E g \in s : \A b \in s : b.at <= g.at}
<1>1. {} \in S
  OBVIOUS
<1>2. ASSUME NEW s \in SUBSET F, s # {}, \A x \in s : s \ {x} \in S
      PROVE  s \in S
  <2>1. PICK x \in s : TRUE
    BY <1>2
  <2>2. CASE s \ {x} = {}
    <3>1. \A b \in s : b.at <= x.at
      BY <2>1, <2>2
    <3>2. QED
      BY <2>1, <3>1
  <2>3. CASE s \ {x} # {}
    <3>1. PICK g \in s \ {x} : \A b \in s \ {x} : b.at <= g.at
      BY <1>2, <2>1, <2>3
    <3>2. g.at \in Nat /\ x.at \in Nat /\ \A b \in s : b.at \in Nat
      BY <2>1, <3>1
    <3>3. CASE x.at <= g.at
      <4>1. \A b \in s : b.at <= g.at
        BY <3>1, <3>3
      <4>2. QED
        BY <3>1, <4>1
    <3>4. CASE ~(x.at <= g.at)
      <4>1. \A b \in s : b.at <= x.at
        BY <3>1, <3>2, <3>4
      <4>2. QED
        BY <2>1, <4>1
    <3>5. QED
      BY <3>3, <3>4
  <2>4. QED
    BY <2>2, <2>3
<1>3. \A s \in S : s # {} => \E g \in s : \A b \in s : b.at <= g.at
  OBVIOUS
<1>4. \A s \in SUBSET F : s # {} /\ (\A x \in s : s \ {x} \in S) => s \in S
  BY <1>2
<1> HIDE DEF S
<1>5. SUBSET F \subseteq S
  BY <1>1, <1>4, OverSubsets
<1>6. QED
  BY <1>3, <1>5

\* Of a set the first M, by their place, are M or all.
LEMMA CountLowest ==
    ASSUME NEW F, IsFiniteSet(F), \A b \in F : b.at \in Nat,
           \A b, c \in F : b.at = c.at => b = c, NEW M \in Nat
    PROVE  Cardinality({b \in F : Cardinality({c \in F : c.at <= b.at}) <= M})
               = IF Cardinality(F) <= M THEN Cardinality(F) ELSE M
<1> DEFINE NoLater(s, b) == {c \in s : c.at <= b.at}
           K(s) == {b \in s : Cardinality(NoLater(s, b)) <= M}
           S == {s \in SUBSET F :
                    Cardinality(K(s)) = IF Cardinality(s) <= M THEN Cardinality(s) ELSE M}
<1>1. {} \in S
  <2>1. K({}) = {} /\ Cardinality({}) = 0
    BY FS_EmptySet
  <2>2. QED
    BY <2>1
<1>2. ASSUME NEW s \in SUBSET F, s # {}, \A x \in s : s \ {x} \in S
      PROVE  s \in S
  <2>1. PICK g \in s : \A b \in s : b.at <= g.at
    BY <1>2, LastOf
  <2> DEFINE t == s \ {g}
  <2>2. IsFiniteSet(s) /\ IsFiniteSet(t) /\ IsFiniteSet(K(t))
    BY <1>2, FS_Subset
  <2>3. Cardinality(t) \in Nat /\ Cardinality(s) = Cardinality(t) + 1
    BY <2>1, <2>2, OneLess
  <2>4. \A b \in t : NoLater(s, b) = NoLater(t, b)
    <3>1. \A b \in t : b.at \in Nat /\ g.at \in Nat /\ b.at # g.at /\ b.at <= g.at
      BY <1>2, <2>1
    <3>2. \A b \in t : ~(g.at <= b.at)
      BY <3>1
    <3>3. QED
      BY <3>2
  <2>5. NoLater(s, g) = s
    BY <2>1
  <2>6. K(s) = K(t) \cup (IF Cardinality(s) <= M THEN {g} ELSE {})
    <3>1. \A b \in t : b \in K(s) <=> b \in K(t)
      BY <2>4
    <3>2. g \in K(s) <=> Cardinality(s) <= M
      BY <2>1, <2>5
    <3>3. s = t \cup {g} /\ K(s) \subseteq s /\ K(t) \subseteq t
      BY <2>1
    <3> HIDE DEF K, t
    <3>4. CASE Cardinality(s) <= M
      BY <3>1, <3>2, <3>3, <3>4
    <3>5. CASE ~(Cardinality(s) <= M)
      BY <3>1, <3>2, <3>3, <3>5
    <3>6. QED
      BY <3>4, <3>5
  <2>7. g \notin K(t)
    OBVIOUS
  <2>8. Cardinality(K(t)) = IF Cardinality(t) <= M THEN Cardinality(t) ELSE M
    BY <1>2, <2>1
  <2> HIDE DEF K, t
  <2>9. Cardinality(K(s)) = IF Cardinality(s) <= M THEN Cardinality(K(t)) + 1
                            ELSE Cardinality(K(t))
    BY <2>2, <2>6, <2>7, FS_AddElement
  <2>10. Cardinality(K(s)) = IF Cardinality(s) <= M THEN Cardinality(s) ELSE M
    BY <2>3, <2>8, <2>9
  <2>11. QED
    BY <2>10
<1>3. \A s \in S : Cardinality(K(s)) = IF Cardinality(s) <= M THEN Cardinality(s) ELSE M
  OBVIOUS
<1>4. \A s \in SUBSET F : s # {} /\ (\A x \in s : s \ {x} \in S) => s \in S
  BY <1>2
<1> HIDE DEF S
<1>5. F \in S
  BY <1>1, <1>4, OverSubsets
<1>6. Cardinality(K(F)) = IF Cardinality(F) <= M THEN Cardinality(F) ELSE M
  BY <1>3, <1>5
<1>7. QED
  BY <1>6

\* A cap keeps as many of the foreign records as it allows, and all of the others.
LEMMA CapKeeps ==
    ASSUME NEW bins, IsFiniteSet(bins), \A b \in bins : b.at \in Nat,
           \A b, c \in bins : b.at = c.at => b = c
    PROVE  LET F == {b \in bins : Foreign(b)}
               K == {b \in CapForeign(bins) : Foreign(b)}
           IN  /\ CapForeign(bins) \subseteq bins
               /\ \A b \in bins : ~Foreign(b) => b \in CapForeign(bins)
               /\ Cardinality(K) = IF Cardinality(F) <= MaxForeignFiles
                                   THEN Cardinality(F) ELSE MaxForeignFiles
<1> DEFINE F == {b \in bins : Foreign(b)}
           K == {b \in CapForeign(bins) : Foreign(b)}
           L == {b \in F : Cardinality({c \in F : c.at <= b.at}) <= MaxForeignFiles}
<1>1. \A b : {c \in bins : Foreign(c) /\ c.at <= b.at} = {c \in F : c.at <= b.at}
  OBVIOUS
<1>2. K = L
  BY <1>1 DEF CapForeign
<1>3. IsFiniteSet(F) /\ \A b \in F : b.at \in Nat
  BY FS_Subset
<1>4. \A b, c \in F : b.at = c.at => b = c
  OBVIOUS
<1> HIDE DEF F
<1>5. Cardinality(L) = IF Cardinality(F) <= MaxForeignFiles
                       THEN Cardinality(F) ELSE MaxForeignFiles
  BY <1>3, <1>4, CountLowest, BytesAssumption
<1> USE DEF F
<1>6. QED
  BY <1>2, <1>5 DEF CapForeign

\* As many paths as records, where no two records have the same one.
LEMMA PathsOf ==
    ASSUME NEW bins, IsFiniteSet(bins), \A b, c \in bins : b.path = c.path => b = c
    PROVE  /\ IsFiniteSet({b.path : b \in bins})
           /\ Cardinality({b.path : b \in bins}) = Cardinality(bins)
<1> DEFINE T == {b.path : b \in bins}
           f == [b \in bins |-> b.path]
<1>1. f \in [bins -> T] /\ (\A b, c \in bins : f[b] = f[c] => b = c)
      /\ \A p \in T : \E b \in bins : f[b] = p
  OBVIOUS
<1>2. f \in Bijection(bins, T)
  BY <1>1 DEF Bijection, Injection, Surjection, IsInjective
<1>3. ExistsBijection(bins, T)
  BY <1>2 DEF ExistsBijection
<1>4. QED
  BY <1>3, FS_Bijection

\* What one archive comes to: a record for each file that is not read as source, and
\* the source by its path.
LEMMA ExtractOf ==
    ASSUME NEW sdist, ArchiveListed(sdist)
    PROVE  LET all == sdist.members
               bins == Extract(sdist).bins
               files == Extract(sdist).files
           IN  /\ IsFiniteSet(bins) /\ \A b \in bins : b.at \in Nat
               /\ \A b, c \in bins : b.at = c.at \/ b.path = c.path => b = c
               /\ \A b \in bins : /\ b.at \in DOMAIN all /\ IsFile(all[b.at])
                                  /\ b.path = all[b.at].path /\ b.content = all[b.at].content
                                  /\ b.reason = Reason(all[b.at]) /\ b.reason # "none"
               /\ \A k \in DOMAIN all : Reason(all[k]) # "none" => \E b \in bins : b.at = k
               /\ \A p \in DOMAIN files : \E k \in DOMAIN all :
                      IsFile(all[k]) /\ all[k].path = p /\ files[p] = all[k]
               /\ \A k \in DOMAIN all :
                      all[k].sort = "source" /\ all[k].size <= MaxSourceBytes =>
                          all[k].path \in DOMAIN files
<1> DEFINE all == sdist.members
           bins == Extract(sdist).bins
           files == Extract(sdist).files
           recorded == {n \in DOMAIN all : Reason(all[n]) # "none"}
           Row(k) == [path |-> all[k].path, content |-> all[k].content,
                      reason |-> Reason(all[k]), at |-> k]
           kept == {k \in DOMAIN all : all[k].sort = "source" /\ all[k].size <= MaxSourceBytes}
           At(p) == CHOOSE k \in kept : /\ all[k].path = p
                                        /\ \A n \in kept : all[n].path = p => n <= k
<1>1. /\ Len(all) \in Nat /\ DOMAIN all = 1..Len(all)
      /\ \A k, n \in DOMAIN all :
            IsFile(all[k]) /\ IsFile(all[n]) /\ all[k].path = all[n].path => k = n
  BY DEF ArchiveListed
<1>2. bins = {Row(k) : k \in recorded}
  BY DEF Extract
<1>3. files = [p \in {all[k].path : k \in kept} |-> all[At(p)]]
  BY DEF Extract
<1>4. \A k \in DOMAIN all : Reason(all[k]) # "none" => IsFile(all[k])
  BY DEF Reason, IsFile
<1>5. \A k \in kept : k \in DOMAIN all /\ IsFile(all[k])
  BY DEF IsFile
<1>6. recorded \subseteq DOMAIN all /\ \A k \in recorded : Reason(all[k]) # "none"
  OBVIOUS
<1>7. IsFiniteSet(bins)
  <2> DEFINE f == [k \in recorded |-> Row(k)]
  <2>1. IsFiniteSet(recorded)
    <3>1. IsFiniteSet(1..Len(all)) /\ recorded \in SUBSET (1..Len(all))
      BY <1>1, FS_Interval
    <3> HIDE DEF recorded, all
    <3>2. QED
      BY <3>1, FS_Subset
  <2> HIDE DEF recorded
  <2>2. f \in [recorded -> bins] /\ \A b \in bins : \E k \in recorded : f[k] = b
    <3> HIDE DEF bins, Row
    <3>1. QED
      BY <1>2
  <2>3. f \in Surjection(recorded, bins)
    BY <2>2 DEF Surjection
  <2>4. QED
    BY <2>1, <2>3, FS_Surjection
<1> HIDE DEF bins, files, recorded
<1>8. ASSUME NEW b \in bins
      PROVE  /\ b.at \in DOMAIN all /\ IsFile(all[b.at]) /\ b.at \in Nat
             /\ b.path = all[b.at].path /\ b.content = all[b.at].content
             /\ b.reason = Reason(all[b.at]) /\ b.reason # "none" /\ b = Row(b.at)
  <2>1. PICK k \in recorded : b = Row(k)
    BY <1>2
  <2>2. k \in DOMAIN all /\ Reason(all[k]) # "none" /\ k \in Nat
    BY <1>1, <1>6
  <2>3. /\ b.at = k /\ b.path = all[k].path /\ b.content = all[k].content
        /\ b.reason = Reason(all[k])
    BY <2>1
  <2>4. QED
    BY <1>4, <2>1, <2>2, <2>3
<1>9. ASSUME NEW b \in bins, NEW c \in bins, b.at = c.at \/ b.path = c.path
      PROVE  b = c
  <2>1. b.at = c.at
    BY <1>1, <1>8, <1>9
  <2>2. QED
    BY <1>8, <2>1
<1>10. ASSUME NEW k \in DOMAIN all, Reason(all[k]) # "none"
       PROVE  \E b \in bins : b.at = k
  <2>1. k \in recorded
    BY <1>10 DEF recorded
  <2>2. Row(k) \in bins /\ Row(k).at = k
    BY <1>2, <2>1
  <2>3. QED
    BY <2>2
<1>11. ASSUME NEW p \in DOMAIN files
       PROVE  \E k \in DOMAIN all : IsFile(all[k]) /\ all[k].path = p /\ files[p] = all[k]
  <2>1. PICK k \in kept : all[k].path = p
    BY <1>3
  <2>2. \A n \in kept : all[n].path = p => n = k
    BY <1>1, <1>5, <2>1
  <2>3. \A n \in kept : all[n].path = p => n <= k
    BY <1>1, <1>5, <2>2
  <2>4. At(p) \in kept /\ all[At(p)].path = p
    <3> HIDE DEF kept
    <3>1. QED
      BY <2>1, <2>3
  <2>5. files[p] = all[At(p)]
    BY <1>3
  <2> HIDE DEF At
  <2>6. QED
    BY <1>5, <2>4, <2>5
<1>12. \A k \in kept : all[k].path \in DOMAIN files
  BY <1>3
<1>13. QED
  BY <1>7, <1>8, <1>9, <1>10, <1>11, <1>12 DEF bins, files

\* Nothing an update adds, changes or removes drops out on the way, neither in the
\* comparison with the prior archive nor under the cap, but source that reads the same.
LEMMA Reported ==
    ASSUME NEW sdist, NEW prior, ArchiveListed(sdist), ArchiveListed(prior),
           SameFiles(sdist, prior)
    PROVE  AllReported(sdist, prior, ScanOf(sdist, prior))
<1> DEFINE all == sdist.members
           new == Extract(sdist)
           old == Extract(prior)
           scan == ScanOf(sdist, prior)
           compared == prior.kind = "sdist" /\ old.ended = "ok"
           priorBins == IF compared THEN old.bins ELSE {}
           priorFiles == IF compared THEN old.files ELSE <<>>
           was == IF prior.kind = "sdist" /\ Extract(prior).ended = "ok"
                  THEN {<<m.path, m.content>> : m \in {n \in ToSet(prior.members) : IsFile(n)}}
                  ELSE {}
           fresh == {m \in ToSet(sdist.members) :
                        IsFile(m) /\ <<m.path, m.content>> \notin was}
           recorded == {b.path : b \in scan.bins}
           foreign == {m.path : m \in {n \in fresh : n.sort = "foreign"}}
           bins == {b \in new.bins : ~Same(b, priorBins)}
<1> SUFFICES ASSUME scan.ended = "ok", prior.kind # "first"
             PROVE  /\ \A m \in fresh : \/ m.sort = "foreign"
                                        \/ m.sort = "other" /\ m.size <= MaxMemberBytes
                                        \/ ReadsAsBefore(m, priorFiles)
                                        \/ m.path \in scan.changed \cup recorded
                    /\ \A p \in DOMAIN priorFiles :
                          \/ \E m \in ToSet(all) : IsFile(m) /\ m.path = p
                          \/ priorFiles[p].lines = NoLines
                          \/ p \in scan.changed
                    /\ Cardinality(foreign \cap recorded) =
                          (IF Cardinality(foreign) <= MaxForeignFiles
                           THEN Cardinality(foreign) ELSE MaxForeignFiles)
  BY DEF AllReported
<1>1. scan.bins = CapForeign(bins) /\ scan.changed = ChangedPaths(new.files, priorFiles)
  BY DEF ScanOf, ChangedBins
<1>2. /\ \A x : x \in ToSet(all) <=> \E k \in DOMAIN all : x = all[k]
      /\ \A x : x \in ToSet(prior.members) <=>
                    \E n \in DOMAIN prior.members : x = prior.members[n]
  BY DEF ToSet
<1>3. ASSUME NEW x, x \in was
      PROVE  \E n \in DOMAIN prior.members :
                 /\ compared /\ IsFile(prior.members[n])
                 /\ x = <<prior.members[n].path, prior.members[n].content>>
  BY <1>2, <1>3
<1>4. ASSUME compared, NEW n \in DOMAIN prior.members, IsFile(prior.members[n])
      PROVE  <<prior.members[n].path, prior.members[n].content>> \in was
  BY <1>2, <1>4
<1>5. ASSUME NEW m
      PROVE  m \in fresh <=> \E k \in DOMAIN all : /\ m = all[k] /\ IsFile(m)
                                                   /\ <<m.path, m.content>> \notin was
  <2> HIDE DEF was
  <2>1. QED
    BY <1>2
<1>6. /\ IsFiniteSet(new.bins) /\ \A b \in new.bins : b.at \in Nat
      /\ \A b, c \in new.bins : b.at = c.at \/ b.path = c.path => b = c
  BY ExtractOf
<1>7. \A b \in new.bins : /\ b.at \in DOMAIN all /\ IsFile(all[b.at])
                          /\ b.path = all[b.at].path /\ b.content = all[b.at].content
                          /\ b.reason = Reason(all[b.at]) /\ b.reason # "none"
  BY ExtractOf
<1>8. \A k \in DOMAIN all : Reason(all[k]) # "none" => \E b \in new.bins : b.at = k
  BY ExtractOf
<1>9. \A k \in DOMAIN all : all[k].sort = "source" /\ all[k].size <= MaxSourceBytes =>
                                all[k].path \in DOMAIN new.files
  BY ExtractOf
<1>10. \A p \in DOMAIN new.files : \E k \in DOMAIN all :
           IsFile(all[k]) /\ all[k].path = p /\ new.files[p] = all[k]
  BY ExtractOf
<1>11. \A b \in old.bins :
           /\ b.at \in DOMAIN prior.members /\ IsFile(prior.members[b.at])
           /\ b.path = prior.members[b.at].path /\ b.content = prior.members[b.at].content
  BY ExtractOf
<1>12. \A n \in DOMAIN prior.members : Reason(prior.members[n]) # "none" =>
           \E b \in old.bins : b.at = n
  BY ExtractOf
<1>13. \A p \in DOMAIN old.files : \E n \in DOMAIN prior.members :
           /\ IsFile(prior.members[n]) /\ prior.members[n].path = p
           /\ old.files[p] = prior.members[n]
  BY ExtractOf
<1>14. \A k, n \in DOMAIN all :
           IsFile(all[k]) /\ IsFile(all[n]) /\ all[k].path = all[n].path => k = n
  BY DEF ArchiveListed
<1> HIDE DEF was, fresh, new, old, scan, all
<1>15. ASSUME NEW b \in new.bins
       PROVE  b \in bins <=> all[b.at] \in fresh
  <2>0. /\ b.at \in DOMAIN all /\ IsFile(all[b.at])
        /\ b.path = all[b.at].path /\ b.content = all[b.at].content
        /\ b.reason = Reason(all[b.at]) /\ b.reason # "none"
    BY <1>7
  <2>1. ASSUME Same(b, priorBins)
        PROVE  <<b.path, b.content>> \in was
    <3>1. PICK p \in priorBins : p.path = b.path /\ p.content = b.content
      BY <2>1 DEF Same
    <3>2. compared /\ p \in old.bins
      BY <3>1
    <3>3. QED
      BY <1>4, <1>11, <3>1, <3>2
  <2>2. ASSUME <<b.path, b.content>> \in was
        PROVE  Same(b, priorBins)
    <3>1. PICK n \in DOMAIN prior.members :
              /\ compared /\ IsFile(prior.members[n])
              /\ <<b.path, b.content>> = <<prior.members[n].path, prior.members[n].content>>
      BY <1>3, <2>2
    <3>2. b.path = prior.members[n].path /\ b.content = prior.members[n].content
      BY <3>1
    <3>3. /\ all[b.at].sort = prior.members[n].sort
          /\ all[b.at].size = prior.members[n].size
      BY <2>0, <3>1, <3>2 DEF SameFiles, all
    <3>4. Reason(prior.members[n]) # "none"
      BY <2>0, <3>3 DEF Reason
    <3>5. PICK c \in old.bins : c.at = n
      BY <1>12, <3>4
    <3>6. c \in priorBins /\ c.path = b.path /\ c.content = b.content
      BY <1>11, <3>1, <3>2, <3>5
    <3>7. QED
      BY <3>6 DEF Same
  <2>3. all[b.at] \in fresh <=> <<b.path, b.content>> \notin was
    BY <1>5, <2>0
  <2>4. QED
    BY <2>1, <2>2, <2>3
<1>16. ASSUME NEW b \in new.bins
       PROVE  Foreign(b) <=> all[b.at].sort = "foreign"
  BY <1>7 DEF Foreign, Reason
<1>17. /\ IsFiniteSet(bins) /\ \A b \in bins : b.at \in Nat
       /\ \A b, c \in bins : b.at = c.at => b = c
  BY <1>6, FS_Subset
<1> DEFINE F == {b \in bins : Foreign(b)}
           K == {b \in CapForeign(bins) : Foreign(b)}
<1> HIDE DEF bins
<1>18. /\ CapForeign(bins) \subseteq bins
       /\ \A b \in bins : ~Foreign(b) => b \in CapForeign(bins)
       /\ Cardinality(K) = IF Cardinality(F) <= MaxForeignFiles
                           THEN Cardinality(F) ELSE MaxForeignFiles
  BY <1>17, CapKeeps
<1>19. bins \subseteq new.bins
  BY DEF bins
<1>20. ASSUME NEW m \in fresh, m.sort # "foreign", ~ReadsAsBefore(m, priorFiles),
              ~(m.sort = "other" /\ m.size <= MaxMemberBytes)
       PROVE  m.path \in scan.changed \cup recorded
  <2>1. PICK k \in DOMAIN all : /\ m = all[k] /\ IsFile(m)
                                /\ <<m.path, m.content>> \notin was
    BY <1>5
  <2>2. CASE m.sort = "source" /\ m.size <= MaxSourceBytes
    <3>1. m.path \in DOMAIN new.files
      BY <1>9, <2>1, <2>2
    <3>2. new.files[m.path] = m
      BY <1>10, <1>14, <2>1, <3>1
    <3>3. ASSUME m.path \in DOMAIN priorFiles, priorFiles[m.path].content = m.content
          PROVE  FALSE
      <4>1. compared /\ priorFiles = old.files
        BY <3>3
      <4>2. PICK n \in DOMAIN prior.members :
                /\ IsFile(prior.members[n]) /\ prior.members[n].path = m.path
                /\ old.files[m.path] = prior.members[n]
        BY <1>13, <3>3, <4>1
      <4>3. <<prior.members[n].path, prior.members[n].content>> \in was
        BY <1>4, <4>1, <4>2
      <4>4. QED
        BY <2>1, <3>3, <4>1, <4>2, <4>3
    <3>4. LinesAt(new.files, m.path) # LinesAt(priorFiles, m.path)
      <4>1. LinesAt(new.files, m.path) = m.lines
        BY <3>1, <3>2 DEF LinesAt
      <4>2. m.lines # LinesAt(priorFiles, m.path)
        BY <1>20, <2>2 DEF ReadsAsBefore
      <4>3. QED
        BY <4>1, <4>2
    <3>5. m.path \in scan.changed
      BY <1>1, <3>1, <3>2, <3>3, <3>4 DEF ChangedPaths
    <3>6. QED
      BY <3>5
  <2>3. CASE ~(m.sort = "source" /\ m.size <= MaxSourceBytes)
    <3>1. Reason(m) # "none"
      <4>1. /\ m.sort \in {"source", "binary", "foreign", "other"} /\ m.size \in Nat
            /\ MaxSourceBytes \in Nat /\ MaxMemberBytes \in Nat
        BY <2>1, BytesAssumption DEF ArchiveListed, Sorts, IsFile, all
      <4>2. \/ m.sort = "source" /\ m.size > MaxSourceBytes
            \/ m.sort = "binary"
            \/ m.sort = "other" /\ m.size > MaxMemberBytes
        BY <1>20, <2>3, <4>1
      <4>3. QED
        BY <4>2 DEF Reason
    <3>2. PICK b \in new.bins : b.at = k
      BY <1>8, <2>1, <3>1
    <3>3. b \in bins /\ ~Foreign(b) /\ b.path = m.path
      BY <1>7, <1>15, <1>16, <1>20, <2>1, <3>2
    <3>4. b \in scan.bins
      BY <1>1, <1>18, <3>3
    <3>5. QED
      BY <3>3, <3>4
  <2>4. QED
    BY <2>2, <2>3
<1>21. foreign = {b.path : b \in F}
  <2>1. ASSUME NEW m \in fresh, m.sort = "foreign"
        PROVE  \E b \in F : b.path = m.path
    <3>1. PICK k \in DOMAIN all : m = all[k]
      BY <1>5
    <3>2. Reason(m) # "none"
      BY <2>1 DEF Reason
    <3>3. PICK b \in new.bins : b.at = k
      BY <1>8, <3>1, <3>2
    <3>4. b \in bins /\ Foreign(b) /\ b.path = m.path
      BY <1>7, <1>15, <1>16, <2>1, <3>1, <3>3
    <3>5. QED
      BY <3>4
  <2>2. ASSUME NEW b \in F
        PROVE  all[b.at] \in fresh /\ all[b.at].sort = "foreign" /\ b.path = all[b.at].path
    <3>1. b \in new.bins /\ b \in bins /\ Foreign(b)
      BY <1>19
    <3>2. QED
      BY <1>7, <1>15, <1>16, <3>1
  <2> HIDE DEF F
  <2>3. QED
    BY <2>1, <2>2
<1>22. foreign \cap recorded = {b.path : b \in K}
  <2>1. ASSUME NEW b \in F, NEW c \in scan.bins, b.path = c.path
        PROVE  c \in K
    <3>1. c \in bins /\ c \in CapForeign(bins)
      BY <1>1, <1>18
    <3>2. b = c
      BY <1>6, <1>19, <2>1, <3>1
    <3>3. QED
      BY <2>1, <3>1, <3>2
  <2>2. K \subseteq F /\ K \subseteq scan.bins
    BY <1>1, <1>18
  <2> HIDE DEF F, K
  <2>3. ASSUME NEW x, x \in foreign, x \in recorded
        PROVE  \E c \in K : x = c.path
    <3>1. PICK b \in F : x = b.path
      BY <1>21, <2>3
    <3>2. PICK c \in scan.bins : x = c.path
      BY <2>3
    <3>3. QED
      BY <2>1, <3>1, <3>2
  <2>4. \A c \in K : c.path \in foreign /\ c.path \in recorded
    BY <1>21, <2>2
  <2> HIDE DEF foreign, recorded
  <2>5. QED
    BY <2>3, <2>4
<1>23. F \subseteq new.bins /\ K \subseteq new.bins
  BY <1>18, <1>19
<1>24. Cardinality(foreign) = Cardinality(F)
  <2>1. IsFiniteSet(F) /\ \A b, c \in F : b.path = c.path => b = c
    BY <1>6, <1>23, FS_Subset
  <2> HIDE DEF F, foreign
  <2>2. QED
    BY <1>21, <2>1, PathsOf
<1>25. Cardinality(foreign \cap recorded) = Cardinality(K)
  <2>1. IsFiniteSet(K) /\ \A b, c \in K : b.path = c.path => b = c
    BY <1>6, <1>23, FS_Subset
  <2> HIDE DEF K, foreign, recorded
  <2>2. QED
    BY <1>22, <2>1, PathsOf
<1>26. Cardinality(foreign \cap recorded) =
           (IF Cardinality(foreign) <= MaxForeignFiles
            THEN Cardinality(foreign) ELSE MaxForeignFiles)
  <2> HIDE DEF K, F, foreign, recorded
  <2>1. QED
    BY <1>18, <1>24, <1>25
<1>27. ASSUME NEW p \in DOMAIN priorFiles
       PROVE  \/ \E m \in ToSet(all) : IsFile(m) /\ m.path = p
              \/ priorFiles[p].lines = NoLines
              \/ p \in scan.changed
  <2>1. CASE p \in DOMAIN new.files
    <3>1. PICK k \in DOMAIN all : IsFile(all[k]) /\ all[k].path = p
      BY <1>10, <2>1
    <3>2. all[k] \in ToSet(all)
      BY <1>2
    <3>3. QED
      BY <3>1, <3>2
  <2>2. CASE p \notin DOMAIN new.files
    <3>1. LinesAt(new.files, p) = NoLines /\ LinesAt(priorFiles, p) = priorFiles[p].lines
      BY <1>27, <2>2 DEF LinesAt
    <3>2. priorFiles[p].lines # NoLines => p \in scan.changed
      BY <1>1, <1>27, <2>2, <3>1 DEF ChangedPaths
    <3>3. QED
      BY <3>2
  <2>3. QED
    BY <2>1, <2>2
<1>28. QED
  BY <1>20, <1>26, <1>27

-----------------------------------------------------------------------------
(* What the model is shown: ReviewInput.                                   *)

\* What the orders compare are numbers.
LEMMA Compared ==
    ASSUME NEW f, FileListed(f)
    PROVE  /\ ClassRank(f) \in Nat /\ ZeroRank(f) \in Nat /\ Rendering(f) \in Nat
           /\ f.weight \in Nat /\ f.path \in Nat
<1>1. {f.path, f.weight, f.build, f.hunks, f.whole} \subseteq Nat
  BY DEF FileListed
<1>2. \E i \in DOMAIN Classes : Classes[i] = f.cls
  BY DEF FileListed, ToSet
<1>3. DOMAIN Classes = 1..9
  BY DEF Classes
<1>4. ClassRank(f) \in 1..9
  BY <1>2, <1>3 DEF ClassRank
<1>5. QED
  BY <1>1, <1>4 DEF ZeroRank, Rendering

\* Each of the three orders is total, whatever the files have in common.
LEMMA BeforeTotal ==
    ASSUME NEW S, \A f \in S : FileListed(f), \A f, g \in S : f.path = g.path => f = g,
           NEW order
    PROVE  /\ \A f \in S : ~Before(order, f, f)
           /\ \A f, g \in S : f # g => Before(order, f, g) \/ Before(order, g, f)
           /\ \A f, g, h \in S :
                  Before(order, f, g) /\ Before(order, g, h) => Before(order, f, h)
<1>1. \A f \in S : /\ ClassRank(f) \in Nat /\ ZeroRank(f) \in Nat /\ Rendering(f) \in Nat
                   /\ f.weight \in Nat /\ f.path \in Nat
  BY Compared
<1>2. \A f \in S : ~Before(order, f, f)
  BY <1>1 DEF Before, FirstReleaseOrder, RunOrder, BuildOrder
<1>3. ASSUME NEW f \in S, NEW g \in S, f # g
      PROVE  Before(order, f, g) \/ Before(order, g, f)
  <2>1. f.path # g.path
    BY <1>3
  <2>2. QED
    BY <1>1, <2>1 DEF Before, FirstReleaseOrder, RunOrder, BuildOrder
<1>4. ASSUME NEW f \in S, NEW g \in S, NEW h \in S,
             Before(order, f, g), Before(order, g, h)
      PROVE  Before(order, f, h)
  <2>1. CASE order = "first"
    BY <1>1, <1>4, <2>1 DEF Before, FirstReleaseOrder
  <2>2. CASE order = "run"
    BY <1>1, <1>4, <2>2 DEF Before, RunOrder
  <2>3. CASE order \notin {"first", "run"}
    BY <1>1, <1>4, <2>3 DEF Before, BuildOrder
  <2>4. QED
    BY <2>1, <2>2, <2>3
<1>5. QED
  BY <1>2, <1>3, <1>4

\* Files put in order are each there once.
LEMMA Ordered ==
    ASSUME NEW S, IsFiniteSet(S), \A f \in S : FileListed(f),
           \A f, g \in S : f.path = g.path => f = g, NEW order
    PROVE  /\ InOrder(S, order) \in Seq(S) /\ Len(InOrder(S, order)) = Cardinality(S)
           /\ \A i, j \in 1..Cardinality(S) :
                  InOrder(S, order)[i] = InOrder(S, order)[j] => i = j
           /\ \A f \in S : \E i \in 1..Cardinality(S) : InOrder(S, order)[i] = f
<1> DEFINE Sooner(f) == {g \in S : Before(order, g, f)}
           n == Cardinality(S)
           place == [f \in S |-> Cardinality(Sooner(f))]
           s == InOrder(S, order)
<1>1. n \in Nat
  BY FS_CardinalityType
<1>2. \A f \in S : ~Before(order, f, f)
  BY BeforeTotal
<1>3. \A f, g \in S : f # g => Before(order, f, g) \/ Before(order, g, f)
  BY BeforeTotal
<1>4. \A f, g, h \in S : Before(order, f, g) /\ Before(order, g, h) => Before(order, f, h)
  BY BeforeTotal
<1>5. ASSUME NEW f \in S
      PROVE  IsFiniteSet(Sooner(f)) /\ place[f] = Cardinality(Sooner(f)) /\ place[f] \in 0..(n - 1)
  <2>1. Sooner(f) \in SUBSET (S \ {f})
    BY <1>2
  <2>2. IsFiniteSet(S \ {f}) /\ Cardinality(S \ {f}) = n - 1
    BY OneLess
  <2> HIDE DEF Sooner
  <2>3. IsFiniteSet(Sooner(f)) /\ Cardinality(Sooner(f)) <= n - 1
    BY <2>1, <2>2, FS_Subset
  <2>4. Cardinality(Sooner(f)) \in Nat
    BY <2>3, FS_CardinalityType
  <2>5. QED
    BY <1>1, <2>3, <2>4
<1>6. ASSUME NEW f \in S, NEW g \in S, Before(order, f, g)
      PROVE  place[f] # place[g]
  <2>1. Sooner(f) \in SUBSET Sooner(g) /\ f \in Sooner(g) /\ f \notin Sooner(f)
    BY <1>2, <1>4, <1>6
  <2> HIDE DEF Sooner
  <2>2. QED
    BY <1>5, <2>1, FS_Subset
<1>7. \A f, g \in S : place[f] = place[g] => f = g
  BY <1>3, <1>6
<1>8. place \in Injection(S, 0..(n - 1))
  <2>1. place \in [S -> 0..(n - 1)]
    BY <1>5
  <2> HIDE DEF place
  <2>2. QED
    BY <1>7, <2>1 DEF Injection, IsInjective
<1>9. IsFiniteSet(0..(n - 1)) /\ Cardinality(0..(n - 1)) = n
  BY <1>1, FS_Interval
<1> HIDE DEF place
<1>10. place \in Surjection(S, 0..(n - 1))
  BY <1>8, <1>9, FS_Injection
<1>11. ASSUME NEW i \in 1..n
       PROVE  /\ s[i] \in S /\ place[s[i]] = i - 1
  <2>1. i - 1 \in 0..(n - 1)
    BY <1>1
  <2>2. PICK f \in S : place[f] = i - 1
    BY <1>10, <2>1 DEF Surjection
  <2>3. Cardinality({g \in S : Before(order, g, f)}) = i - 1
    BY <1>5, <2>2
  <2>4. s[i] = CHOOSE h \in S : Cardinality({g \in S : Before(order, g, h)}) = i - 1
    BY DEF InOrder
  <2>5. s[i] \in S /\ Cardinality({g \in S : Before(order, g, s[i])}) = i - 1
    BY <2>3, <2>4
  <2>6. QED
    BY <1>5, <2>5
<1>12. s \in Seq(S) /\ Len(s) = n
  <2> DEFINE At(i) == CHOOSE f \in S : Cardinality({g \in S : Before(order, g, f)}) = i - 1
  <2>0. s = [i \in 1..n |-> At(i)]
    BY DEF InOrder
  <2> HIDE DEF s, At
  <2>1. DOMAIN s = 1..n /\ s = [i \in DOMAIN s |-> s[i]]
    BY <2>0
  <2>2. s \in [1..n -> S]
    BY <1>11, <2>1
  <2>3. QED
    BY <1>1, <2>2
<1>13. ASSUME NEW i \in 1..n, NEW j \in 1..n, s[i] = s[j]
       PROVE  i = j
  BY <1>1, <1>11, <1>13
<1>14. ASSUME NEW f \in S
       PROVE  \E i \in 1..n : s[i] = f
  <2>0. place[f] \in 0..(n - 1)
    BY <1>5
  <2>1. place[f] + 1 \in 1..n /\ (place[f] + 1) - 1 = place[f]
    BY <1>1, <2>0
  <2>2. place[s[place[f] + 1]] = place[f] /\ s[place[f] + 1] \in S
    BY <1>11, <2>1
  <2>3. QED
    BY <1>7, <2>1, <2>2
<1>15. QED
  BY <1>12, <1>13, <1>14

\* What can be shown of a release: finitely many files, one for each path.
LEMMA FilesOf ==
    ASSUME NEW d, ReleaseListed(d)
    PROVE  LET all == d.files \cup ToSet(d.hooks)
           IN  /\ IsFiniteSet(all) /\ \A f \in all : FileListed(f)
               /\ \A f, g \in all : f.path = g.path => f = g
               /\ ToSet(Hooks(d)) \subseteq ToSet(d.hooks) /\ ByPath(d) \subseteq all
               /\ \A f \in d.files : ~Unchanged(f)
               /\ \A f \in ToSet(d.hooks) : Unchanged(f) /\ f.weight = 0
<1> DEFINE H == ToSet(d.hooks)
           n == Len(d.hooks)
           m == Smaller(HooksShown, n)
<1>1. d.hooks \in Seq(H) /\ n \in Nat
  BY DEF ReleaseListed
<1>2. m \in 0..n
  BY <1>1, ShownAssumption DEF Smaller
<1>3. H = {d.hooks[i] : i \in DOMAIN d.hooks} /\ DOMAIN d.hooks = 1..n
  BY <1>1 DEF ToSet
<1>4. IsFiniteSet(H)
  <2> DEFINE f == [i \in 1..n |-> d.hooks[i]]
  <2>1. f \in Surjection(1..n, H)
    BY <1>3 DEF Surjection
  <2>2. IsFiniteSet(1..n)
    BY <1>1, FS_Interval
  <2> HIDE DEF f, H
  <2>3. QED
    BY <2>1, <2>2, FS_Surjection
<1>5. ToSet(Hooks(d)) \subseteq H
  <2> HIDE DEF H, m
  <2>1. SubSeq(d.hooks, 1, m) \in Seq(H)
    BY <1>1, <1>2
  <2>2. QED
    BY <2>1 DEF Hooks, ToSet, m
<1>6. IsFiniteSet(d.files) /\ \A f \in d.files : FileListed(f) /\ ~Unchanged(f)
  BY DEF ReleaseListed
<1>7. IsFiniteSet(d.files \cup H)
  BY <1>4, <1>6, FS_Union
<1>8. /\ \A f \in H : FileListed(f) /\ Unchanged(f) /\ f.weight = 0
      /\ \A f, g \in d.files \cup H : f.path = g.path => f = g
  BY DEF ReleaseListed
<1>9. QED
  BY <1>5, <1>6, <1>7, <1>8 DEF ByPath

\* The files offered to the cap, each once, and those that never are; what some
\* rule fired on, and what may run with it, is among them.
LEMMA RankedOf ==
    ASSUME NEW d, ReleaseListed(d)
    PROVE  LET r == RankFiles(d)
               all == d.files \cup ToSet(d.hooks)
           IN  /\ r.ranked \in Seq(all) /\ r.cut \subseteq all
               /\ \A i, j \in 1..Len(r.ranked) : r.ranked[i] = r.ranked[j] => i = j
               /\ \A i \in 1..Len(r.ranked) : r.ranked[i] \notin r.cut
               /\ d.first => \A f \in Weighted(d) :
                      f \in r.cut \/ \E i \in 1..Len(r.ranked) : r.ranked[i] = f
               /\ ~d.first /\ Weighted(d) # {} => \A f \in all :
                      \/ f \in r.cut
                      \/ \E i \in 1..Len(r.ranked) : r.ranked[i] = f
                      \/ /\ f.weight = 0 /\ ~Unchanged(f)
                         /\ f.change = "removed" \/ f.cls \notin Runnable
<1> DEFINE r == RankFiles(d)
           all == d.files \cup ToSet(d.hooks)
           Good(s) == /\ s \in Seq(all)
                      /\ \A i, j \in 1..Len(s) : s[i] = s[j] => i = j
<1>1. /\ IsFiniteSet(all) /\ \A f \in all : FileListed(f)
      /\ \A f, g \in all : f.path = g.path => f = g
      /\ ToSet(Hooks(d)) \subseteq ToSet(d.hooks) /\ ByPath(d) \subseteq all
      /\ \A f \in d.files : ~Unchanged(f)
      /\ \A f \in ToSet(d.hooks) : Unchanged(f) /\ f.weight = 0
  BY FilesOf
<1> HIDE DEF all
<1>2. ASSUME NEW S \in SUBSET all, NEW order
      PROVE  /\ Good(InOrder(S, order)) /\ InOrder(S, order) \in Seq(S)
             /\ \A f \in S : \E i \in 1..Len(InOrder(S, order)) : InOrder(S, order)[i] = f
  <2>1. IsFiniteSet(S) /\ (\A f \in S : FileListed(f)) /\ (\A f, g \in S : f.path = g.path => f = g)
    BY <1>1, FS_Subset
  <2> DEFINE s == InOrder(S, order)
             n == Cardinality(S)
  <2>2. s \in Seq(S) /\ Len(s) = n
    BY <2>1, Ordered
  <2>3. \A i, j \in 1..n : s[i] = s[j] => i = j
    BY <2>1, Ordered
  <2>4. \A f \in S : \E i \in 1..n : s[i] = f
    BY <2>1, Ordered
  <2> HIDE DEF s, n
  <2>5. s \in Seq(all)
    BY <2>2
  <2>6. QED
    BY <2>2, <2>3, <2>4, <2>5 DEF s
<1>3. CASE d.first
  <2> DEFINE s == InOrder(d.files, "first")
             m == Smaller(TopFiles, Len(s))
             top == SubSeq(s, 1, m)
  <2>1. r.ranked = top /\ r.cut = Weighted(d) \ ToSet(top)
    BY <1>3 DEF RankFiles
  <2>2. d.files \in SUBSET all /\ Weighted(d) \subseteq all
    BY DEF all, Weighted
  <2>3. Good(s) /\ s \in Seq(d.files)
    BY <1>2, <2>2
  <2>4. Len(s) \in Nat /\ m \in 0..Len(s)
    BY <2>3, ShownAssumption DEF Smaller
  <2> HIDE DEF s, m
  <2>5. top \in Seq(all) /\ Len(top) = m /\ \A i \in 1..m : top[i] = s[i]
    BY <2>3, <2>4
  <2>6. \A i, j \in 1..Len(top) : top[i] = top[j] => i = j
    BY <2>3, <2>4, <2>5
  <2>7. \A f : f \in ToSet(top) <=> \E i \in 1..Len(top) : top[i] = f
    <3> HIDE DEF top
    <3>1. QED
      BY <2>4, <2>5 DEF ToSet
  <2> HIDE DEF top
  <2>8. \A i \in 1..Len(top) : top[i] \notin Weighted(d) \ ToSet(top)
    BY <2>7
  <2>9. \A f \in Weighted(d) : f \in Weighted(d) \ ToSet(top) \/ \E i \in 1..Len(top) : top[i] = f
    BY <2>7
  <2>10. QED
    BY <1>3, <2>1, <2>2, <2>5, <2>6, <2>8, <2>9 DEF all
<1>4. CASE ~d.first /\ Weighted(d) = {}
  <2> DEFINE S == {f \in ByPath(d) : f.build > 0 \/ f.names}
  <2>1. r.ranked = InOrder(S, "build") /\ r.cut = {}
    BY <1>4 DEF RankFiles
  <2>2. S \in SUBSET all
    BY <1>1
  <2> HIDE DEF S
  <2>3. Good(InOrder(S, "build"))
    BY <1>2, <2>2
  <2>4. QED
    BY <1>4, <2>1, <2>3 DEF all
<1>5. CASE ~d.first /\ Weighted(d) # {}
  <2> DEFINE s == InOrder(Weighted(d), "run")
             t == InOrder(Beside(d), "run")
             n == Len(s)
             c == ToSet(d.hooks) \ ToSet(Hooks(d))
  <2>1. r.ranked = s \o t /\ r.cut = c
    BY <1>5 DEF RankFiles
  <2>2. Weighted(d) \in SUBSET all /\ Beside(d) \in SUBSET all
    BY <1>1 DEF all, Weighted, Beside
  <2>3. /\ Good(s) /\ s \in Seq(Weighted(d))
        /\ \A f \in Weighted(d) : \E i \in 1..Len(s) : s[i] = f
    BY <1>2, <2>2
  <2>4. /\ Good(t) /\ t \in Seq(Beside(d))
        /\ \A f \in Beside(d) : \E i \in 1..Len(t) : t[i] = f
    BY <1>2, <2>2
  <2> HIDE DEF s, t
  <2>5. Len(s) \in Nat /\ Len(t) \in Nat
    BY <2>3, <2>4
  <2>6. /\ s \o t \in Seq(all) /\ Len(s \o t) = n + Len(t)
        /\ \A i \in 1..n : (s \o t)[i] = s[i]
        /\ \A i \in (n + 1)..(n + Len(t)) : (s \o t)[i] = t[i - n]
    BY <2>3, <2>4
  <2>7. \A i \in 1..n : s[i] \in Weighted(d)
    BY <2>3
  <2>8. \A i \in 1..Len(t) : t[i] \in Beside(d)
    BY <2>4
  <2>9. \A f \in Weighted(d) : f \notin Beside(d) /\ f \notin c
    <3>1. \A f \in Weighted(d) : f \in d.files /\ ~Unchanged(f)
      BY <1>1 DEF Weighted
    <3>2. \A f \in c : Unchanged(f)
      BY <1>1
    <3>3. QED
      BY <3>1, <3>2 DEF Beside
  <2>10. \A f \in Beside(d) : f \notin c
    <3>1. \A f \in c : f \notin d.files /\ f \notin ToSet(Hooks(d))
      BY <1>1
    <3>2. QED
      BY <3>1 DEF Beside, ByPath
  <2> DEFINE u == s \o t
             k == n + Len(t)
  <2>11. ASSUME NEW i \in 1..k
         PROVE  \/ i \in 1..n /\ u[i] = s[i] /\ u[i] \in Weighted(d)
                \/ i \notin 1..n /\ i - n \in 1..Len(t) /\ u[i] = t[i - n] /\ u[i] \in Beside(d)
    <3>1. i \in 1..n \/ (i \in (n + 1)..k /\ i \notin 1..n /\ i - n \in 1..Len(t))
      BY <2>5
    <3> HIDE DEF u, k, n
    <3>2. QED
      BY <2>6, <2>7, <2>8, <3>1 DEF u, k
  <2>12. /\ \A i \in 1..n : i \in 1..k /\ u[i] = s[i]
         /\ \A i \in 1..Len(t) : n + i \in 1..k /\ u[n + i] = t[i]
    <3>1. \A i \in 1..n : i \in 1..k
      BY <2>5
    <3>2. \A i \in 1..Len(t) : n + i \in 1..k /\ n + i \in (n + 1)..k /\ (n + i) - n = i
      BY <2>5
    <3>3. QED
      BY <2>6, <3>1, <3>2
  <2>13. u \in Seq(all) /\ Len(u) = k
    BY <2>6
  <2> HIDE DEF u, k, c
  <2>14. ASSUME NEW i \in 1..k, NEW j \in 1..k, u[i] = u[j]
         PROVE  i = j
    <3>1. CASE i \in 1..n
      BY <2>3, <2>9, <2>11, <2>14, <3>1
    <3>2. CASE i \notin 1..n
      <4>1. /\ j \notin 1..n /\ i - n \in 1..Len(t) /\ j - n \in 1..Len(t)
            /\ t[i - n] = t[j - n]
        BY <2>9, <2>11, <2>14, <3>2
      <4>2. i - n = j - n
        BY <2>4, <4>1
      <4>3. i \in Int /\ j \in Int /\ n \in Int
        BY <2>5
      <4>4. QED
        BY <4>2, <4>3
    <3>3. QED
      BY <3>1, <3>2
  <2>15. \A i \in 1..k : u[i] \notin c
    BY <2>9, <2>10, <2>11
  <2>16. \A f \in Weighted(d) \cup Beside(d) : \E i \in 1..k : u[i] = f
    <3>1. \A f \in Weighted(d) : \E i \in 1..k : u[i] = f
      BY <2>3, <2>12
    <3>2. ASSUME NEW f \in Beside(d)
          PROVE  \E i \in 1..k : u[i] = f
      <4>1. PICK i \in 1..Len(t) : t[i] = f
        BY <2>4
      <4>2. n + i \in 1..k /\ u[n + i] = f
        BY <2>12, <4>1
      <4>3. QED
        BY <4>2
    <3>3. QED
      BY <3>1, <3>2
  <2>17. ASSUME NEW f \in all, f \notin c, f \notin Weighted(d), f \notin Beside(d)
         PROVE  f.weight = 0 /\ ~Unchanged(f) /\ (f.change = "removed" \/ f.cls \notin Runnable)
    <3>1. f \in ByPath(d)
      BY <2>17 DEF all, c, ByPath
    <3>2. f.weight \in Nat /\ f.change \in {"added", "modified", "removed", "unchanged"}
      BY <1>1, <2>17 DEF FileListed
    <3>3. f.weight = 0
      BY <1>1, <2>17, <3>2 DEF all, Weighted
    <3>4. QED
      BY <2>17, <3>1, <3>2, <3>3 DEF Beside, Unchanged
  <2>18. c \subseteq all
    BY DEF c, all
  <2>19. r.ranked = u /\ r.cut = c
    BY <2>1 DEF u, c
  <2>20. QED
    BY <1>5, <2>13, <2>14, <2>15, <2>16, <2>17, <2>18, <2>19 DEF all
<1>6. QED
  BY <1>3, <1>4, <1>5

\* A sum is one of its terms and the sum of the others.
LEMMA SumWithout ==
    ASSUME NEW w, NEW D, D = DOMAIN w, IsFiniteSet(D), \A y \in D : w[y] \in Int, NEW x \in D
    PROVE  SumFunction(w) = w[x] + SumFunction([y \in D \ {x} |-> w[y]])
<1> DEFINE E == D \ {x}
           v == [y \in E |-> w[y]]
<1>0. IsFiniteSet(E) /\ DOMAIN v = E /\ (\A y \in E : v[y] = w[y]) /\ E \in SUBSET D
  BY OneLess
<1> HIDE DEF v
<1>1. PICK V : SumFunction(v) = V[E] /\ Summed(V, v)
  BY <1>0, SumChosen
<1>2. PICK W : SumFunction(w) = W[D] /\ Summed(W, w)
  BY SumChosen
<1>3. \A s \in SUBSET D : W[s] \in Int /\ \A y \in s : W[s] = w[y] + W[s \ {y}]
  BY <1>2, SumAnyOrder
<1> DEFINE S == {s \in SUBSET E : V[s] = W[s]}
<1> HIDE DEF E
<1>4. {} \in S
  BY <1>1, <1>2 DEF Summed
<1>5. ASSUME NEW s \in SUBSET E, s # {}, \A y \in s : s \ {y} \in S
      PROVE  s \in S
  <2> DEFINE a == OneOf(s)
             t == s \ {a}
  <2>1. a \in s /\ a \in D /\ a \in E
    BY <1>0, <1>5 DEF OneOf
  <2>2. V[s] = v[a] + V[t] /\ W[s] = w[a] + W[t]
    BY <1>0, <1>1, <1>2, <1>5 DEF Summed
  <2>3. V[t] = W[t]
    BY <1>5, <2>1
  <2> HIDE DEF a, t
  <2>4. V[s] = W[s]
    BY <1>0, <2>1, <2>2, <2>3
  <2>5. QED
    BY <2>4
<1> HIDE DEF S
<1>6. SUBSET E \subseteq S
  BY <1>0, <1>4, <1>5, OverSubsets
<1>7. V[E] = W[E]
  BY <1>6 DEF S
<1>8. W[D] = w[x] + W[E]
  BY <1>3 DEF E
<1>9. QED
  BY <1>1, <1>2, <1>7, <1>8 DEF v, E

\* One more part adds its length and the newline before it.
LEMMA JoinedMore ==
    ASSUME NEW s \in Seq(Nat), NEW k \in Nat
    PROVE  Joined(s) \in Nat /\ Joined(Append(s, k)) = Joined(s) + k + Gap(s)
<1> DEFINE n == Len(s)
           w == Append(s, k)
           D == 1..(n + 1)
           E == D \ {n + 1}
<1>1. n \in Nat /\ DOMAIN s = 1..n /\ \A i \in 1..n : s[i] \in Nat
  OBVIOUS
<1>2. /\ DOMAIN w = D /\ Len(w) = n + 1 /\ w[n + 1] = k
      /\ \A i \in 1..n : w[i] = s[i]
  OBVIOUS
<1>3. E = 1..n /\ n + 1 \in D /\ s = [i \in 1..n |-> s[i]]
  BY <1>1
<1>4. IsFiniteSet(D) /\ IsFiniteSet(1..n)
  BY <1>1, FS_Interval
<1>5. \A i \in D : w[i] \in Nat /\ w[i] \in Int
  BY <1>1, <1>2
<1>6. [i \in E |-> w[i]] = s
  BY <1>2, <1>3
<1> HIDE DEF w, D, E
<1>7. SumFunction(w) = w[n + 1] + SumFunction([i \in E |-> w[i]])
  BY <1>2, <1>3, <1>4, <1>5, SumWithout DEF E
<1>8. SumFunction(s) \in Nat
  <2> DEFINE v == s
  <2>1. SumFunction([i \in 1..n |-> v[i]]) \in Nat
    BY <1>1, <1>4, SumPart
  <2>2. QED
    BY <1>3, <2>1
<1>9. SumFunction(w) = k + SumFunction(s)
  BY <1>2, <1>6, <1>7
<1>10. w # <<>> /\ (s = <<>> <=> n = 0)
  BY <1>1, <1>2
<1>11. Joined(w) = SumFunction(w) + n
  BY <1>1, <1>2, <1>10 DEF Joined
<1>12. Joined(s) = SumFunction(s) + (IF n = 0 THEN 0 ELSE n - 1)
  BY <1>10 DEF Joined
<1>13. Joined(s) \in Nat /\ Joined(w) = Joined(s) + k + Gap(s)
  BY <1>1, <1>8, <1>9, <1>10, <1>11, <1>12 DEF Gap
<1>14. QED
  BY <1>13 DEF w

\* Of finitely many numbers one is the largest.
LEMMA MaxOf ==
    ASSUME NEW N, IsFiniteSet(N), N \subseteq Nat, N # {}
    PROVE  Max(N) \in N /\ \A x \in N : x <= Max(N)
<1> DEFINE S == {s \in SUBSET N : s # {} => \E m \in s : \A x \in s : x <= m}
<1>1. {} \in S
  OBVIOUS
<1>2. ASSUME NEW s \in SUBSET N, s # {}, \A x \in s : s \ {x} \in S
      PROVE  s \in S
  <2>1. PICK x \in s : TRUE
    BY <1>2
  <2>2. \A y \in s : y \in Nat
    OBVIOUS
  <2>3. CASE s \ {x} = {}
    BY <2>2, <2>3
  <2>4. CASE s \ {x} # {}
    <3>1. PICK m \in s \ {x} : \A y \in s \ {x} : y <= m
      BY <1>2, <2>1, <2>4
    <3>2. CASE x <= m
      BY <2>2, <3>1, <3>2
    <3>3. CASE ~(x <= m)
      <4>1. \A y \in s : y <= x
        BY <2>2, <3>1, <3>3
      <4>2. QED
        BY <2>1, <4>1
    <3>4. QED
      BY <3>2, <3>3
  <2>5. QED
    BY <2>3, <2>4
<1>3. \A s \in SUBSET N : s # {} /\ (\A x \in s : s \ {x} \in S) => s \in S
  BY <1>2
<1>4. N \in S => \E m \in N : \A x \in N : x <= m
  OBVIOUS
<1> HIDE DEF S
<1>5. SUBSET N \subseteq S
  BY <1>1, <1>3, OverSubsets
<1>6. \E m \in N : \A x \in N : m >= x
  BY <1>4, <1>5
<1>7. Max(N) \in N /\ \A x \in N : Max(N) >= x
  BY <1>6 DEF Max
<1>8. QED
  BY <1>7

\* Of what is put in order, no more than n come before the n-th.
LEMMA FirstFew ==
    ASSUME NEW S, IsFiniteSet(S), NEW R, NEW n \in Nat,
           \A f \in S : <<f, f>> \notin R,
           \A f, g \in S : f # g => <<f, g>> \in R \/ <<g, f>> \in R,
           \A f, g, h \in S : <<f, g>> \in R /\ <<g, h>> \in R => <<f, h>> \in R
    PROVE  Cardinality({f \in S : Cardinality({g \in S : <<g, f>> \in R}) < n}) <= n
<1> DEFINE Sooner(f) == {g \in S : <<g, f>> \in R}
           T == {f \in S : Cardinality(Sooner(f)) < n}
           place == [f \in T |-> Cardinality(Sooner(f))]
<1>1. ASSUME NEW f \in S
      PROVE  IsFiniteSet(Sooner(f)) /\ Cardinality(Sooner(f)) \in Nat
  <2>1. Sooner(f) \in SUBSET S
    OBVIOUS
  <2> HIDE DEF Sooner
  <2>2. QED
    BY <2>1, FS_Subset, FS_CardinalityType
<1>2. ASSUME NEW f \in S, NEW g \in S, <<f, g>> \in R
      PROVE  Cardinality(Sooner(f)) # Cardinality(Sooner(g))
  <2>1. Sooner(f) \in SUBSET Sooner(g) /\ f \in Sooner(g) /\ f \notin Sooner(f)
    BY <1>2
  <2> HIDE DEF Sooner
  <2>2. QED
    BY <1>1, <2>1, FS_Subset
<1>3. \A f, g \in S : Cardinality(Sooner(f)) = Cardinality(Sooner(g)) => f = g
  <2> HIDE DEF Sooner
  <2>1. QED
    BY <1>2
<1>4. place \in [T -> 0..(n - 1)]
  <2> HIDE DEF Sooner
  <2>1. \A f \in T : Cardinality(Sooner(f)) \in 0..(n - 1)
    BY <1>1
  <2>2. QED
    BY <2>1
<1>5. \A f, g \in T : place[f] = place[g] => f = g
  BY <1>3
<1>6. IsFiniteSet(0..(n - 1)) /\ Cardinality(0..(n - 1)) = n
  BY FS_Interval
<1> HIDE DEF place, T
<1>7. place \in Injection(T, 0..(n - 1))
  BY <1>4, <1>5 DEF Injection, IsInjective
<1>8. Cardinality(T) <= n
  BY <1>6, <1>7, FS_Injection
<1>9. QED
  BY <1>8 DEF T

\* More files are counted with no fewer digits.
LEMMA MoreGrows ==
    ASSUME NEW m \in Nat, NEW n \in Nat, m <= n
    PROVE  More(m) \in Nat /\ More(n) \in Nat /\ More(m) <= More(n)
<1> DEFINE Digits(x) == {k \in {10, 100, 1000, 10000} : k <= x - NamesShown}
<1>1. NamesShown \in Nat
  BY ShownAssumption
<1>2. IsFiniteSet({10, 100, 1000, 10000})
  <2>1. PICK b \in Nat : b = 10000
    OBVIOUS
  <2>2. IsFiniteSet(0..b)
    BY FS_Interval
  <2>3. {10, 100, 1000, 10000} \subseteq 0..b
    BY <2>1
  <2> DEFINE D == {10, 100, 1000, 10000}
  <2> HIDE DEF D
  <2>4. IsFiniteSet(D)
    BY <2>2, <2>3, FS_Subset DEF D
  <2>5. QED
    BY <2>4 DEF D
<1>3. \A x \in Nat : Digits(x) \subseteq {10, 100, 1000, 10000}
  OBVIOUS
<1>4. Digits(m) \subseteq Digits(n)
  BY <1>1
<1>5. \A x \in Nat : More(x) = IF x <= NamesShown THEN 0 ELSE 14 + Cardinality(Digits(x))
  BY DEF More
<1> HIDE DEF Digits
<1>6. /\ Cardinality(Digits(m)) \in Nat /\ Cardinality(Digits(n)) \in Nat
      /\ Cardinality(Digits(m)) <= Cardinality(Digits(n))
  BY <1>2, <1>3, <1>4, FS_Subset, FS_CardinalityType
<1>7. QED
  BY <1>1, <1>5, <1>6

All(d) == d.files \cup ToSet(d.hooks)

\* The states of the assembly.
Built(d) == [used : Nat, parts : Seq(Nat), shown : SUBSET All(d), skipped : SUBSET All(d),
             truncated : BOOLEAN, stopped : BOOLEAN]

\* What becomes t of the state s when the file f is placed: nothing is done to it, it
\* shows f, it stops at the first file, or it leaves f out.
PlacedTo(s, f, ranked, max, t) ==
    \/ s.stopped /\ t = s
    \/ /\ ~s.stopped /\ ~t.stopped
       /\ \E n \in Nat : /\ s.used + n + Gap(s.parts) <= max
                         /\ t.used = s.used + n + Gap(s.parts)
                         /\ t.parts = Append(s.parts, n)
       /\ t.shown = s.shown \cup {f} /\ t.skipped = s.skipped
    \/ /\ ~s.stopped /\ f = ranked[1]
       /\ Unchanged(f) \/ s.used + f.hunks + Gap(s.parts) > max
       /\ t.used = s.used /\ t.parts = s.parts /\ t.shown = s.shown
       /\ t.stopped /\ t.truncated /\ t.skipped = ToSet(ranked)
    \/ /\ ~s.stopped /\ (f = ranked[1] => Unchanged(f))
       /\ t.used = s.used /\ t.parts = s.parts /\ t.shown = s.shown
       /\ ~t.stopped
       /\ t.skipped = IF Listed(f) THEN s.skipped \cup {f} ELSE s.skipped

LEMMA PlaceOf ==
    ASSUME NEW d, NEW s \in Built(d), NEW f \in All(d), FileListed(f),
           NEW ranked \in Seq(All(d)), NEW max \in Nat
    PROVE  /\ Place(s, f, ranked, max) \in Built(d)
           /\ PlacedTo(s, f, ranked, max, Place(s, f, ranked, max))
<1> DEFINE t == Place(s, f, ranked, max)
           gap == Gap(s.parts)
           n == IF s.used + Rendering(f) + gap > max /\ ~Unchanged(f)
                THEN f.hunks ELSE Rendering(f)
           wholeOnly == Unchanged(f) /\ ~FitsWhole(f)
<1>1. s.used \in Nat /\ gap \in 0..1 /\ f.hunks \in Nat /\ Rendering(f) \in Nat /\ n \in Nat
  BY Compared DEF Built, Gap, FileListed
<1>2. /\ s.parts \in Seq(Nat) /\ s.shown \subseteq All(d) /\ s.skipped \subseteq All(d)
      /\ s.truncated \in BOOLEAN /\ s.stopped \in BOOLEAN
  BY DEF Built
<1>3. ToSet(ranked) \subseteq All(d)
  BY DEF ToSet
<1> HIDE DEF gap
<1>4. CASE s.stopped
  BY <1>4 DEF Place, gap, PlacedTo
<1>5. CASE ~s.stopped /\ s.used + n + gap <= max /\ ~wholeOnly
  <2>1. t = [s EXCEPT !.used = @ + n + gap, !.parts = Append(@, n), !.shown = @ \cup {f}]
    <3> DEFINE a == ~s.stopped /\ s.used + n + gap <= max /\ ~wholeOnly
               b == ~s.stopped /\ s.used + n + gap > max /\ ~wholeOnly /\ f = ranked[1]
               A == [s EXCEPT !.used = @ + n + gap, !.parts = Append(@, n),
                              !.shown = @ \cup {f}]
               B == [s EXCEPT !.truncated = TRUE, !.stopped = TRUE, !.skipped = ToSet(ranked)]
               C == [s EXCEPT !.truncated = @ \/ ~wholeOnly,
                              !.skipped = IF Listed(f) THEN @ \cup {f} ELSE @]
    <3>1. t = CASE s.stopped -> s [] a -> A [] b -> B [] OTHER -> C
      BY DEF Place, gap
    <3>2. a /\ ~b /\ ~s.stopped
      BY <1>1, <1>5
    <3> HIDE DEF a, b, A, B, C, t
    <3>3. t = A
      BY <3>1, <3>2
    <3>4. QED
      BY <3>3 DEF A
  <2>2. s.used + n + gap \in Nat /\ Append(s.parts, n) \in Seq(Nat)
    BY <1>1, <1>2
  <2>3. s.shown \cup {f} \in SUBSET All(d)
    BY <1>2
  <2> DEFINE u == s.used + n + gap
             p == Append(s.parts, n)
             h == s.shown \cup {f}
  <2>4. t = [s EXCEPT !.used = u, !.parts = p, !.shown = h]
    BY <2>1
  <2> HIDE DEF u, p, h
  <2>5. u \in Nat /\ p \in Seq(Nat) /\ h \in SUBSET All(d)
    BY <2>2, <2>3 DEF u, p, h
  <2>6. /\ t \in Built(d) /\ t.used = u /\ t.parts = p
        /\ t.shown = h /\ t.skipped = s.skipped /\ t.stopped = s.stopped
    BY <2>4, <2>5 DEF Built
  <2>7. QED
    BY <1>1, <1>5, <2>6 DEF t, gap, u, p, h, PlacedTo
<1>6. CASE ~s.stopped /\ s.used + n + gap > max /\ ~wholeOnly /\ f = ranked[1]
  <2>1. t = [s EXCEPT !.truncated = TRUE, !.stopped = TRUE, !.skipped = ToSet(ranked)]
    BY <1>1, <1>6 DEF Place, gap
  <2>2. Unchanged(f) \/ s.used + f.hunks + gap > max
    BY <1>1, <1>6
  <2> HIDE DEF t, n, wholeOnly
  <2>3. /\ t \in Built(d) /\ t.used = s.used /\ t.parts = s.parts
        /\ t.shown = s.shown /\ t.skipped = ToSet(ranked) /\ t.stopped /\ t.truncated
    BY <1>2, <1>3, <2>1 DEF Built
  <2>4. QED
    BY <1>6, <2>2, <2>3 DEF t, gap, PlacedTo
<1>7. CASE /\ ~s.stopped
           /\ ~(s.used + n + gap <= max /\ ~wholeOnly)
           /\ ~(s.used + n + gap > max /\ ~wholeOnly /\ f = ranked[1])
  <2>1. t = [s EXCEPT !.truncated = @ \/ ~wholeOnly,
                      !.skipped = IF Listed(f) THEN @ \cup {f} ELSE @]
    BY <1>7 DEF Place, gap
  <2>2. f = ranked[1] => Unchanged(f)
    <3> HIDE DEF n
    <3>1. QED
      BY <1>1, <1>7
  <2> HIDE DEF t, n, wholeOnly
  <2>3. /\ t \in Built(d) /\ t.used = s.used /\ t.parts = s.parts
        /\ t.shown = s.shown /\ t.stopped = s.stopped
        /\ t.skipped = IF Listed(f) THEN s.skipped \cup {f} ELSE s.skipped
    BY <1>2, <2>1 DEF Built
  <2>4. QED
    BY <1>7, <2>2, <2>3 DEF t, gap, PlacedTo
<1>8. QED
  BY <1>2, <1>4, <1>5, <1>6, <1>7

\* The files selected for the input, shown or cut.
Chosen(d) == Selected(RankFiles(d))

\* The lines of some files are a number, and no longer than those of all.
LEMMA LinesOf ==
    ASSUME NEW files, IsFiniteSet(files), \A f \in files : FileListed(f)
    PROVE  Lines(files) \in Nat
<1> DEFINE w == [f \in files |-> f.line + 3]
<1>1. \A f \in files : w[f] \in Nat
  BY DEF FileListed
<1>2. DOMAIN w = files /\ [f \in files |-> w[f]] = w
  OBVIOUS
<1> HIDE DEF w
<1>3. SumFunction([f \in files |-> w[f]]) \in Nat
  BY <1>1, <1>2, SumPart
<1>4. QED
  BY <1>2, <1>3 DEF Lines, w

\* No more of some files have a line of their own than there is room for lines.
LEMMA NamedFew ==
    ASSUME NEW d, ReleaseListed(d), NEW some \in SUBSET Chosen(d), IsFiniteSet(some),
           Chosen(d) \subseteq All(d)
    PROVE  Cardinality(NamedIn(RankFiles(d), some)) <= NamesShown
<1> DEFINE r == RankFiles(d)
           R == {p \in some \X some : Earlier(r, p[1], p[2])}
<1>1. \A f, g \in some : <<f, g>> \in R <=> Earlier(r, f, g)
  OBVIOUS
<1>2. /\ \A f \in some : FileListed(f)
      /\ \A f, g \in some : f.path = g.path => f = g
  <2>1. /\ \A f \in All(d) : FileListed(f)
        /\ \A f, g \in All(d) : f.path = g.path => f = g
    BY FilesOf DEF All
  <2>2. QED
    BY <2>1
<1>3. /\ \A f \in some : ~Before(r.order, f, f)
      /\ \A f, g \in some : f # g => Before(r.order, f, g) \/ Before(r.order, g, f)
      /\ \A f, g, h \in some :
            Before(r.order, f, g) /\ Before(r.order, g, h) => Before(r.order, f, h)
  BY <1>2, BeforeTotal
<1>4. /\ \A f \in some : ~Earlier(r, f, f)
      /\ \A f, g \in some : f # g => Earlier(r, f, g) \/ Earlier(r, g, f)
      /\ \A f, g, h \in some : Earlier(r, f, g) /\ Earlier(r, g, h) => Earlier(r, f, h)
  BY <1>3 DEF Earlier
<1> HIDE DEF R
<1>5. Cardinality({f \in some : Cardinality({g \in some : <<g, f>> \in R}) < NamesShown})
          <= NamesShown
  BY <1>1, <1>4, ShownAssumption, FirstFew
<1>6. \A f \in some : {g \in some : <<g, f>> \in R} = {g \in some : Earlier(r, g, f)}
  BY <1>1
<1>7. NamedIn(r, some) =
          {f \in some : Cardinality({g \in some : <<g, f>> \in R}) < NamesShown}
  BY <1>6 DEF NamedIn
<1>8. QED
  BY <1>5, <1>7

\* The files selected are files of the release, and the room kept for their names is
\* enough to name any of them.
LEMMA ReserveNames ==
    ASSUME NEW d, ReleaseListed(d), NEW cap \in Nat
    PROVE  /\ Chosen(d) \subseteq All(d) /\ RankFiles(d).ranked \in Seq(All(d))
           /\ NotShownReserve(RankFiles(d), cap) \in Nat
           /\ \A some \in SUBSET Chosen(d) :
                 /\ NotShownBlock(RankFiles(d), some, cap) \in Nat
                 /\ some # {} => NotShownBlock(RankFiles(d), some, cap) + 1
                                    <= NotShownReserve(RankFiles(d), cap)
<1> DEFINE r == RankFiles(d)
           C == Chosen(d)
           few == {s \in SUBSET C : Cardinality(s) <= NamesShown}
           all == {Lines(some) : some \in few}
           longest == Max(all)
           reserve == NotShownReserve(r, cap)
<1>1. r.ranked \in Seq(All(d)) /\ r.cut \subseteq All(d)
  BY RankedOf DEF All
<1>2. C \subseteq All(d)
  BY <1>1 DEF Chosen, Selected, ToSet
<1>3. IsFiniteSet(All(d)) /\ \A f \in All(d) : FileListed(f)
  BY FilesOf DEF All
<1>4. IsFiniteSet(C) /\ Cardinality(C) \in Nat
  BY <1>2, <1>3, FS_Subset, FS_CardinalityType
<1>5. \A s \in SUBSET C : /\ IsFiniteSet(s) /\ Cardinality(s) \in Nat
                          /\ Cardinality(s) <= Cardinality(C) /\ Lines(s) \in Nat
  <2>1. ASSUME NEW s \in SUBSET C
        PROVE  /\ IsFiniteSet(s) /\ Cardinality(s) \in Nat
               /\ Cardinality(s) <= Cardinality(C) /\ Lines(s) \in Nat
    <3>1. IsFiniteSet(s) /\ Cardinality(s) <= Cardinality(C) /\ Cardinality(s) \in Nat
      BY <1>4, FS_Subset, FS_CardinalityType
    <3>2. \A f \in s : FileListed(f)
      BY <1>2, <1>3
    <3>3. QED
      BY <3>1, <3>2, LinesOf
  <2>2. QED
    BY <2>1
<1>6. IsFiniteSet(all) /\ all \subseteq Nat /\ all # {}
  <2>1. IsFiniteSet(few)
    <3>1. few \in SUBSET (SUBSET C)
      OBVIOUS
    <3> HIDE DEF few
    <3>2. QED
      BY <1>4, <3>1, FS_SUBSET, FS_Subset
  <2>2. {} \in few
    BY ShownAssumption, FS_EmptySet
  <2>3. \A s \in few : Lines(s) \in Nat
    BY <1>5
  <2> DEFINE h == [s \in few |-> Lines(s)]
  <2> HIDE DEF few
  <2>4. h \in Surjection(few, all)
    BY DEF Surjection
  <2>5. all \subseteq Nat /\ all # {}
    BY <2>2, <2>3
  <2> HIDE DEF h, all
  <2>6. QED
    BY <2>1, <2>4, <2>5, FS_Surjection
<1> HIDE DEF all
<1>7. longest \in Nat /\ \A x \in all : x <= longest
  BY <1>6, MaxOf
<1>8. reserve = IF C = {} THEN 0
                ELSE Smaller(73 + longest + More(Cardinality(C)), Smaller(3000, cap)) + 1
  BY DEF NotShownReserve, Chosen, Block, NotShownHeading, all
<1> HIDE DEF longest, reserve
<1>9. More(Cardinality(C)) \in Nat
  BY <1>4, MoreGrows
<1>10. reserve \in Nat
  BY <1>7, <1>8, <1>9 DEF Smaller
<1>11. ASSUME NEW some \in SUBSET C
       PROVE  /\ NotShownBlock(r, some, cap) \in Nat
              /\ some # {} => NotShownBlock(r, some, cap) + 1 <= reserve
  <2> DEFINE named == NamedIn(r, some)
             lines == Lines(named)
             more == More(Cardinality(some))
  <2>1. named \in SUBSET C
    BY DEF NamedIn
  <2>2. named \in few /\ lines \in Nat
    BY <1>2, <1>5, <2>1, NamedFew
  <2>3. lines <= longest
    BY <1>7, <2>2 DEF all
  <2>4. more \in Nat /\ more <= More(Cardinality(C))
    BY <1>4, <1>5, MoreGrows
  <2>5. NotShownBlock(r, some, cap) = Smaller(73 + lines + more, Smaller(3000, cap))
    BY DEF NotShownBlock, Block, NotShownHeading
  <2> HIDE DEF named, lines, more
  <2>6. some # {} => C # {}
    OBVIOUS
  <2>7. QED
    BY <1>7, <1>8, <1>9, <2>2, <2>3, <2>4, <2>5, <2>6 DEF Smaller
<1>12. QED
  BY <1>1, <1>2, <1>10, <1>11 DEF reserve

\* Before the files there is the context.
LEMMA StartOf ==
    ASSUME NEW d, ReleaseListed(d), NEW cap \in Nat
    PROVE  Start(d, cap) \in Built(d)
<1> DEFINE context == ContextParts(d, cap)
           reserve == NotShownReserve(RankFiles(d), cap)
<1>1. {d.header, d.notes, d.exec, d.signals, d.unreadable} \subseteq Nat
  BY DEF ReleaseListed
<1>4. /\ d.notes \in Nat /\ Block(d.exec, Smaller(4000, cap)) \in Nat
      /\ Block(d.signals, Smaller(3000, cap)) \in Nat
      /\ Block(d.unreadable, Smaller(3000, cap)) \in Nat
  <2>1. /\ d.notes \in Nat /\ d.exec \in Nat /\ d.signals \in Nat /\ d.unreadable \in Nat
        /\ 4000 \in Nat /\ 3000 \in Nat
    BY <1>1
  <2>2. QED
    BY <2>1 DEF Block, Smaller
<1> DEFINE a == Part(d.notes)
           b == Part(Block(d.exec, Smaller(4000, cap)))
           c == Part(Block(d.signals, Smaller(3000, cap)))
           e == Part(Block(d.unreadable, Smaller(3000, cap)))
<1>5. a \in Seq(Nat) /\ b \in Seq(Nat) /\ c \in Seq(Nat) /\ e \in Seq(Nat)
  BY <1>4 DEF Part
<1>6. context \in Seq(Nat)
  <2>1. context = a \o b \o c \o e
    BY DEF ContextParts
  <2> HIDE DEF context, a, b, c, e
  <2>2. QED
    BY <1>5, <2>1
<1>7. reserve \in Nat
  BY ReserveNames
<1> HIDE DEF context, reserve
<1>8. Joined(context) \in Nat
  BY <1>6, JoinedMore
<1>9. d.header + Joined(context) + 1 + MarkerLen + NoteReserve + reserve \in Nat
  BY <1>1, <1>7, <1>8 DEF MarkerLen, NoteReserve
<1>10. QED
  BY <1>6, <1>9 DEF Start, Built, context, reserve

\* When the first k ranked files were placed: what is used up is the length of the parts
\* and what is kept, within the cap once a file is shown; each of them that must be
\* named is shown or left out, and not both; and without the first of them, when the
\* release changed it, nothing is shown, because it did not fit.
PlacedOk(d, max, cap, s, k) ==
    LET ranked == RankFiles(d).ranked
        start == Start(d, cap)
    IN  /\ s \in Built(d)
        /\ s.used = d.header + Joined(s.parts) + 1 + MarkerLen + NoteReserve
                        + NotShownReserve(RankFiles(d), cap)
        /\ s.shown # {} => s.used <= max
        /\ s.shown = {} => s.used = start.used /\ s.parts = start.parts
        /\ s.stopped =>
              /\ s.shown = {} /\ s.skipped = ToSet(ranked)
              /\ Unchanged(ranked[1]) \/ start.used + ranked[1].hunks + Gap(start.parts) > max
        /\ ~s.stopped =>
              /\ s.shown \cap s.skipped = {}
              /\ \A f \in s.shown \cup s.skipped : \E i \in 1..k : ranked[i] = f
              /\ \A i \in 1..k : Listed(ranked[i]) => ranked[i] \in s.shown \cup s.skipped
              /\ k >= 1 => ranked[1] \in s.shown \/ Unchanged(ranked[1])

\* It holds of the context,
LEMMA PlacedFirst ==
    ASSUME NEW d, ReleaseListed(d), NEW max \in Nat, NEW cap \in Nat
    PROVE  PlacedOk(d, max, cap, Start(d, cap), 0)
<1> DEFINE s == Start(d, cap)
<1>1. /\ s.parts = ContextParts(d, cap) /\ s.shown = {} /\ s.skipped = {} /\ ~s.stopped
      /\ s.used = d.header + Joined(s.parts) + 1 + MarkerLen + NoteReserve
                      + NotShownReserve(RankFiles(d), cap)
  BY DEF Start
<1>2. s \in Built(d)
  BY StartOf
<1> HIDE DEF s
<1>3. \A i \in 1..0 : FALSE
  OBVIOUS
<1>4. PlacedOk(d, max, cap, s, 0)
  BY <1>1, <1>2, <1>3 DEF PlacedOk, s
<1>5. QED
  BY <1>4 DEF s

\* one more file keeps it,
LEMMA PlacedStep ==
    ASSUME NEW d, ReleaseListed(d), NEW max \in Nat, NEW cap \in Nat, NEW k \in Nat,
           k + 1 \in 1..Len(RankFiles(d).ranked),
           NEW s, PlacedOk(d, max, cap, s, k)
    PROVE  PlacedOk(d, max, cap,
                    Place(s, RankFiles(d).ranked[k + 1], RankFiles(d).ranked, max), k + 1)
<1> DEFINE ranked == RankFiles(d).ranked
           f == ranked[k + 1]
           t == Place(s, f, ranked, max)
           gap == Gap(s.parts)
           start == Start(d, cap)
<1>1. /\ ranked \in Seq(All(d)) /\ NotShownReserve(RankFiles(d), cap) \in Nat
      /\ d.header \in Nat
  BY ReserveNames DEF ReleaseListed
<1>2. f \in All(d) /\ FileListed(f)
  <2>1. \A g \in All(d) : FileListed(g)
    BY FilesOf DEF All
  <2>2. QED
    BY <1>1, <2>1
<1>3. /\ \A i, j \in 1..Len(ranked) : ranked[i] = ranked[j] => i = j
  BY RankedOf
<1>4. \A i \in 1..(k + 1) : i \in 1..k \/ i = k + 1
  OBVIOUS
<1>4a. \A i \in 1..k : i \in 1..(k + 1) /\ i \in 1..Len(ranked) /\ i # k + 1
  BY <1>1
<1>5. s \in Built(d)
  BY DEF PlacedOk
<1>6. t \in Built(d) /\ PlacedTo(s, f, ranked, max, t)
  BY <1>1, <1>2, <1>5, PlaceOf
<1>7. f = ranked[1] <=> k = 0
  <2>1. 1 \in 1..Len(ranked)
    BY <1>1
  <2>2. QED
    BY <1>3, <2>1
<1>8. /\ s.used = d.header + Joined(s.parts) + 1 + MarkerLen + NoteReserve
                      + NotShownReserve(RankFiles(d), cap)
      /\ s.shown # {} => s.used <= max
      /\ s.shown = {} => s.used = start.used /\ s.parts = start.parts
      /\ s.stopped =>
            /\ s.shown = {} /\ s.skipped = ToSet(ranked)
            /\ Unchanged(ranked[1]) \/ start.used + ranked[1].hunks + Gap(start.parts) > max
      /\ ~s.stopped =>
            /\ s.shown \cap s.skipped = {}
            /\ \A g \in s.shown \cup s.skipped : \E i \in 1..k : ranked[i] = g
            /\ \A i \in 1..k : Listed(ranked[i]) => ranked[i] \in s.shown \cup s.skipped
            /\ k >= 1 => ranked[1] \in s.shown \/ Unchanged(ranked[1])
  BY Zenon DEF PlacedOk
<1>9. ~s.stopped => f \notin s.shown \cup s.skipped
  BY <1>3, <1>4a, <1>8
<1>10. ~s.stopped /\ k = 0 => s.shown = {}
  BY <1>8
<1> HIDE DEF ranked, f, t, gap, start
<1> SUFFICES PlacedOk(d, max, cap, t, k + 1)
  BY DEF t, f, ranked
<1>11. CASE s.stopped /\ t = s
  BY <1>8, <1>11, <1>5 DEF PlacedOk, ranked, start
<1>12. CASE /\ ~s.stopped /\ ~t.stopped
            /\ \E n \in Nat : /\ s.used + n + gap <= max
                              /\ t.used = s.used + n + gap
                              /\ t.parts = Append(s.parts, n)
            /\ t.shown = s.shown \cup {f} /\ t.skipped = s.skipped
  <2>1. PICK n \in Nat : /\ s.used + n + gap <= max
                         /\ t.used = s.used + n + gap
                         /\ t.parts = Append(s.parts, n)
    BY <1>12
  <2>2. s.parts \in Seq(Nat)
    BY <1>5 DEF Built
  <2>3. /\ Joined(s.parts) \in Nat /\ Joined(t.parts) = Joined(s.parts) + n + gap
        /\ gap \in Nat
    BY <2>1, <2>2, JoinedMore DEF gap, Gap
  <2>4. t.used = d.header + Joined(t.parts) + 1 + MarkerLen + NoteReserve
                     + NotShownReserve(RankFiles(d), cap)
    <3>1. s.used = d.header + Joined(s.parts) + 1 + MarkerLen + NoteReserve
                       + NotShownReserve(RankFiles(d), cap)
      BY <1>8
    <3>2. t.used = s.used + n + gap /\ Joined(t.parts) = Joined(s.parts) + n + gap
      BY <2>1, <2>3
    <3>3. /\ Joined(s.parts) \in Int /\ gap \in Int /\ n \in Int /\ d.header \in Int
          /\ NotShownReserve(RankFiles(d), cap) \in Int /\ s.used \in Int /\ t.used \in Int
      BY <1>1, <1>5, <1>6, <2>3 DEF Built
    <3> DEFINE r == NotShownReserve(RankFiles(d), cap)
               j == Joined(s.parts)
               m == Joined(t.parts)
               h == d.header
               u == s.used
               v == t.used
    <3>4. /\ u = h + j + 1 + 51 + 61 + r /\ v = u + n + gap /\ m = j + n + gap
          /\ j \in Int /\ gap \in Int /\ n \in Int /\ h \in Int /\ r \in Int
      BY <3>1, <3>2, <3>3 DEF MarkerLen, NoteReserve
    <3> HIDE DEF r, j, m, h, u, v
    <3>5. v = h + m + 1 + 51 + 61 + r
      BY <3>4
    <3>6. QED
      BY <3>5 DEF MarkerLen, NoteReserve, v, h, m, r
  <2>5. t.shown # {} /\ t.used <= max
    BY <1>12, <2>1
  <2>6. t.shown \cap t.skipped = {}
    BY <1>8, <1>9, <1>12
  <2>7. \A g \in t.shown \cup t.skipped : \E i \in 1..(k + 1) : ranked[i] = g
    <3>1. k + 1 \in 1..(k + 1) /\ ranked[k + 1] = f
      BY DEF f
    <3>2. QED
      BY <1>4a, <1>8, <1>12, <3>1
  <2>8. \A i \in 1..(k + 1) : Listed(ranked[i]) => ranked[i] \in t.shown \cup t.skipped
    BY <1>4, <1>8, <1>12 DEF f
  <2>9. ranked[1] \in t.shown \/ Unchanged(ranked[1])
    BY <1>7, <1>8, <1>12
  <2>10. QED
    BY <1>6, <1>12, <2>4, <2>5, <2>6, <2>7, <2>8, <2>9 DEF PlacedOk, ranked
<1>13. CASE /\ ~s.stopped /\ f = ranked[1]
            /\ Unchanged(f) \/ s.used + f.hunks + gap > max
            /\ t.used = s.used /\ t.parts = s.parts /\ t.shown = s.shown
            /\ t.stopped /\ t.truncated /\ t.skipped = ToSet(ranked)
  <2>1. s.shown = {}
    BY <1>7, <1>10, <1>13
  <2>2. Unchanged(ranked[1]) \/ start.used + ranked[1].hunks + Gap(start.parts) > max
    BY <1>8, <1>13, <2>1 DEF gap
  <2>3. QED
    BY <1>6, <1>8, <1>13, <2>1, <2>2 DEF PlacedOk, ranked, start
<1>14. CASE /\ ~s.stopped /\ (f = ranked[1] => Unchanged(f))
            /\ t.used = s.used /\ t.parts = s.parts /\ t.shown = s.shown
            /\ ~t.stopped
            /\ t.skipped = IF Listed(f) THEN s.skipped \cup {f} ELSE s.skipped
  <2>1. t.shown \cap t.skipped = {}
    BY <1>8, <1>9, <1>14
  <2>2. \A g \in t.shown \cup t.skipped : \E i \in 1..(k + 1) : ranked[i] = g
    <3>1. k + 1 \in 1..(k + 1) /\ ranked[k + 1] = f
      BY DEF f
    <3>2. QED
      BY <1>4a, <1>8, <1>14, <3>1
  <2>3. \A i \in 1..(k + 1) : Listed(ranked[i]) => ranked[i] \in t.shown \cup t.skipped
    BY <1>4, <1>8, <1>14 DEF f
  <2>4. ranked[1] \in t.shown \/ Unchanged(ranked[1])
    BY <1>7, <1>8, <1>14
  <2>5. QED
    BY <1>6, <1>8, <1>14, <2>1, <2>2, <2>3, <2>4 DEF PlacedOk, ranked, start
<1>15. QED
  BY <1>6, <1>11, <1>12, <1>13, <1>14 DEF PlacedTo, gap

\* The files are placed one after the other.
LEMMA PlacedInTurn ==
    ASSUME NEW d, ReleaseListed(d), NEW max \in Nat, NEW cap \in Nat
    PROVE  LET ranked == RankFiles(d).ranked
           IN  \E placed : /\ Assembled(d, max, cap) = placed[Len(ranked)]
                           /\ placed[0] = Start(d, cap)
                           /\ \A n \in 1..Len(ranked) :
                                 placed[n] = Place(placed[n - 1], ranked[n], ranked, max)
<1> DEFINE ranked == RankFiles(d).ranked
           m == Len(ranked)
           V == Built(d)
           Taken(v, n) == IF n \in 1..m THEN Place(v, ranked[n], ranked, max) ELSE v
           step == [n \in Nat |-> [v \in V |-> Taken(v, n)]]
<1>1. ranked \in Seq(All(d)) /\ m \in Nat
  BY ReserveNames
<1>2. \A f \in All(d) : FileListed(f)
  BY FilesOf DEF All
<1>3. Start(d, cap) \in V
  BY StartOf
<1>4. ASSUME NEW n \in Nat, NEW v \in V
      PROVE  Taken(v, n) \in V
  <2>1. CASE n \in 1..m
    <3>1. ranked[n] \in All(d) /\ FileListed(ranked[n])
      BY <1>1, <1>2, <2>1
    <3> HIDE DEF ranked, m
    <3>2. Place(v, ranked[n], ranked, max) \in V
      BY <1>1, <3>1, PlaceOf
    <3>3. QED
      BY <2>1, <3>2
  <2>2. CASE n \notin 1..m
    BY <2>2
  <2>3. QED
    BY <2>1, <2>2
<1>5. ASSUME NEW n \in Nat, NEW v \in V
      PROVE  step[n][v] = Taken(v, n)
  OBVIOUS
<1> HIDE DEF V, step
<1>6. PICK f \in [0..m -> V] :
         f[0] = Start(d, cap) /\ \A n \in 1..m : f[n] = step[n][f[n - 1]]
  <2>1. \A n \in Nat : \A v \in V : step[n][v] \in V
    BY <1>4, <1>5
  <2>2. \A k \in Nat : \E f : Iterates(f, V, Start(d, cap), step, k)
    BY <1>3, <2>1, Iterated
  <2>3. QED
    BY <1>1, <2>2 DEF Iterates
<1>7. ASSUME NEW n \in 0..m, n # 0
      PROVE  f[n] = Place(f[n - 1], ranked[n], ranked, max)
  <2>1. n \in 1..m /\ n \in Nat /\ n - 1 \in 0..m
    BY <1>1, <1>7
  <2>2. f[n] = step[n][f[n - 1]] /\ f[n - 1] \in V
    BY <1>6, <2>1
  <2>3. f[n] = Taken(f[n - 1], n)
    BY <1>5, <2>1, <2>2
  <2>4. QED
    BY <2>1, <2>3
<1>8. f = [n \in 0..m |-> IF n = 0 THEN Start(d, cap)
                          ELSE Place(f[n - 1], ranked[n], ranked, max)]
  BY <1>6, <1>7
<1>9. \E g : g = [n \in 0..Len(RankFiles(d).ranked) |->
                    IF n = 0 THEN Start(d, cap)
                    ELSE Place(g[n - 1], RankFiles(d).ranked[n], RankFiles(d).ranked, max)]
  BY <1>8, Zenon
<1> DEFINE placed == CHOOSE g : g = [n \in 0..Len(RankFiles(d).ranked) |->
                    IF n = 0 THEN Start(d, cap)
                    ELSE Place(g[n - 1], RankFiles(d).ranked[n], RankFiles(d).ranked, max)]
<1>10. placed = [n \in 0..m |->
                    IF n = 0 THEN Start(d, cap)
                    ELSE Place(placed[n - 1], ranked[n], ranked, max)]
  BY <1>9, Zenon
<1>11. Assembled(d, max, cap) = placed[m]
  BY Zenon DEF Assembled, PlaceAll
<1> HIDE DEF placed, ranked, m
<1>12. placed[0] = Start(d, cap)
  BY <1>1, <1>10
<1>13. ASSUME NEW n \in 1..m
       PROVE  placed[n] = Place(placed[n - 1], ranked[n], ranked, max)
  <2>1. n \in 0..m /\ n # 0
    BY <1>1
  <2>2. QED
    BY <1>10, <2>1
<1>14. QED
  BY <1>11, <1>12, <1>13 DEF m, ranked

\* and so it holds once all were placed.
LEMMA PlacedAll ==
    ASSUME NEW d, ReleaseListed(d), NEW max \in Nat, NEW cap \in Nat
    PROVE  PlacedOk(d, max, cap, Assembled(d, max, cap), Len(RankFiles(d).ranked))
<1> DEFINE ranked == RankFiles(d).ranked
           m == Len(ranked)
<1>1. PICK placed : /\ Assembled(d, max, cap) = placed[m]
                    /\ placed[0] = Start(d, cap)
                    /\ \A n \in 1..m : placed[n] = Place(placed[n - 1], ranked[n], ranked, max)
  BY PlacedInTurn
<1>2. m \in Nat
  BY ReserveNames
<1> DEFINE S == {k \in Nat : k <= m => PlacedOk(d, max, cap, placed[k], k)}
<1>3. 0 \in S
  BY <1>1, PlacedFirst
<1>4. ASSUME NEW k \in Nat, k \in S
      PROVE  k + 1 \in S
  <2> SUFFICES ASSUME k + 1 <= m
               PROVE  PlacedOk(d, max, cap, placed[k + 1], k + 1)
    OBVIOUS
  <2>1. k + 1 \in 1..m /\ (k + 1) - 1 = k /\ k <= m
    BY <1>2
  <2>2. PlacedOk(d, max, cap, placed[k], k)
    BY <1>4, <2>1
  <2>3. placed[k + 1] = Place(placed[k], ranked[k + 1], ranked, max)
    BY <1>1, <2>1
  <2>4. QED
    BY <2>1, <2>2, <2>3, PlacedStep
<1>5. \A k \in Nat : k \in S /\ k <= m => PlacedOk(d, max, cap, placed[k], k)
  OBVIOUS
<1> HIDE DEF S
<1>6. Nat \subseteq S
  BY <1>3, <1>4, AllNaturals
<1>7. QED
  BY <1>1, <1>2, <1>5, <1>6

\* What is left out of the text is named in it, with the files cut before; its length
\* is that of its parts; within the cap once a file is shown, and never shorter than
\* the context.
LEMMA TextOf ==
    ASSUME NEW d, ReleaseListed(d), NEW max \in Nat, NEW cap \in Nat
    PROVE  LET end == Assembled(d, max, cap)
               text == ReviewText(d, max, cap)
           IN  /\ text.shown = end.shown /\ text.notShown = end.skipped \cup RankFiles(d).cut
               /\ text.length \in Nat
               /\ text.shown # {} => text.length <= max
               /\ text.shown = {} =>
                     Start(d, cap).used <= text.length + NoteReserve
                                               + NotShownReserve(RankFiles(d), cap)
<1> DEFINE r == RankFiles(d)
           end == Assembled(d, max, cap)
           text == ReviewText(d, max, cap)
           notShown == end.skipped \cup r.cut
           block == NotShownBlock(r, notShown, cap)
           parts == IF notShown = {} THEN end.parts ELSE Append(end.parts, block)
           note == CASE end.truncated -> 61
                     [] ~end.truncated /\ d.files \subseteq end.shown -> 0
                     [] OTHER -> IF d.first THEN 54 ELSE 60
           h == d.header
           reserve == NotShownReserve(r, cap)
           joined == Joined(end.parts)
           all == Joined(parts)
           u == end.used
<1>1. PlacedOk(d, max, cap, end, Len(r.ranked))
  BY PlacedAll
<1>2. /\ end \in Built(d)
      /\ u = h + joined + 1 + MarkerLen + NoteReserve + reserve
      /\ end.shown # {} => u <= max
      /\ end.shown = {} => u = Start(d, cap).used
  BY <1>1 DEF PlacedOk
<1>3. notShown \in SUBSET Chosen(d)
  <2>1. \A i \in 1..Len(r.ranked) : r.ranked[i] \in ToSet(r.ranked)
    BY ReserveNames DEF ToSet
  <2>2. end.skipped \subseteq ToSet(r.ranked)
    BY <1>1, <2>1 DEF PlacedOk
  <2>3. QED
    BY <2>2 DEF Chosen, Selected
<1>4. text = [shown |-> end.shown, notShown |-> notShown,
              length |-> h + all + 1 + MarkerLen + note]
  BY Zenon DEF ReviewText, TextFor
<1>5. note \in 0..61
  OBVIOUS
<1> HIDE DEF notShown
<1>6. /\ block \in Nat /\ reserve \in Nat
      /\ notShown # {} => block + 1 <= reserve
  BY <1>3, ReserveNames
<1>7. end.parts \in Seq(Nat) /\ u \in Nat
  BY <1>2 DEF Built
<1> HIDE DEF block, end
<1>8. /\ joined \in Nat /\ all \in Nat /\ joined <= all /\ all <= joined + reserve
  <2>1. CASE notShown = {}
    <3>1. parts = end.parts
      BY <2>1
    <3>2. Joined(end.parts) \in Nat
      BY <1>7, JoinedMore
    <3> HIDE DEF parts
    <3>3. all = joined /\ joined \in Nat
      BY <3>1, <3>2
    <3> HIDE DEF all, joined
    <3>4. QED
      BY <1>6, <3>3
  <2>2. CASE notShown # {}
    <3>1. parts = Append(end.parts, block)
      BY <2>2
    <3>2. joined \in Nat /\ Joined(Append(end.parts, block)) = joined + block + Gap(end.parts)
      BY <1>6, <1>7, JoinedMore
    <3>3. Gap(end.parts) \in 0..1
      BY DEF Gap
    <3> HIDE DEF joined, parts
    <3>4. QED
      BY <1>6, <2>2, <3>1, <3>2, <3>3
  <2>3. QED
    BY <2>1, <2>2
<1>9. h \in Nat
  BY DEF ReleaseListed
<1> HIDE DEF text, note, all, joined, reserve, h, u, parts
<1>10. text.length = h + all + 1 + 51 + note /\ text.shown = end.shown /\ text.notShown = notShown
  BY <1>4 DEF MarkerLen
<1>11. u = h + joined + 1 + 51 + 61 + reserve
  BY <1>2 DEF MarkerLen, NoteReserve
<1>12. /\ text.length \in Nat /\ text.length <= u
       /\ u <= text.length + 61 + reserve
  BY <1>5, <1>6, <1>8, <1>9, <1>10, <1>11
<1>13. end.shown # {} => text.length <= max
  BY <1>2, <1>7, <1>12
<1>14. QED
  BY <1>2, <1>10, <1>12, <1>13 DEF text, end, notShown, r, reserve, NoteReserve

\* What is asked for the cap fits it, names all that is left out, and is kept with its
\* first file when that is too large.
LEMMA PreparedOf ==
    ASSUME NEW d, ReleaseListed(d), NEW cap \in Nat
    PROVE  LET a == Prepare(d, cap)
           IN  Fits(a) /\ NothingUnseen(d, a) /\ HoldsTop(d, cap, a)
<1> DEFINE r == RankFiles(d)
           blocks == BlockCap(cap)
           first == ReviewText(d, cap, blocks)
           top == r.ranked[1]
           gap == Gap(Start(d, blocks).parts)
           reserve == NotShownReserve(r, blocks)
           needed == first.length + NoteReserve + top.hunks + 1 + reserve
           stored == ReviewText(d, needed, blocks)
           a == Prepare(d, cap)
<1>1. blocks \in Nat
  BY DEF BlockCap
<1>2. /\ r.ranked \in Seq(All(d)) /\ reserve \in Nat
      /\ \A f \in All(d) : FileListed(f)
  BY <1>1, ReserveNames, FilesOf DEF All
<1>3. r.ranked # <<>> => /\ 1 \in 1..Len(r.ranked) /\ Len(r.ranked) >= 1
                         /\ top \in All(d) /\ top.hunks \in Nat
  BY <1>2 DEF FileListed
<1> HIDE DEF blocks
\* A text for any cap.
<1>4. ASSUME NEW max \in Nat
      PROVE  LET text == ReviewText(d, max, blocks)
             IN  /\ text.length \in Nat
                 /\ text.shown # {} => text.length <= max
                 /\ \A b : b.text = text => NothingUnseen(d, b)
                 /\ text.shown = {} /\ r.ranked # <<>> =>
                       \/ Unchanged(top)
                       \/ Start(d, blocks).used + top.hunks + gap > max
                 /\ text.shown # {} /\ r.ranked # <<>> => top \in text.shown \/ Unchanged(top)
                 /\ text.shown = {} =>
                       Start(d, blocks).used <= text.length + NoteReserve + reserve
  <2> DEFINE text == ReviewText(d, max, blocks)
             end == Assembled(d, max, blocks)
  <2>1. /\ text.shown = end.shown /\ text.notShown = end.skipped \cup r.cut
        /\ text.length \in Nat /\ (text.shown # {} => text.length <= max)
        /\ text.shown = {} =>
              Start(d, blocks).used <= text.length + NoteReserve + reserve
    BY <1>1, TextOf
  <2>2. PlacedOk(d, max, blocks, end, Len(r.ranked))
    BY <1>1, PlacedAll
  <2> HIDE DEF text, end
  <2>3. /\ end.stopped =>
              /\ end.shown = {} /\ end.skipped = ToSet(r.ranked)
              /\ Unchanged(top) \/ Start(d, blocks).used + top.hunks + gap > max
        /\ ~end.stopped =>
              /\ end.shown \cap end.skipped = {}
              /\ \A f \in end.shown \cup end.skipped : \E i \in 1..Len(r.ranked) : r.ranked[i] = f
              /\ \A i \in 1..Len(r.ranked) :
                    Listed(r.ranked[i]) => r.ranked[i] \in end.shown \cup end.skipped
              /\ Len(r.ranked) >= 1 => top \in end.shown \/ Unchanged(top)
    BY <2>2 DEF PlacedOk
  <2>4. ASSUME NEW b, b.text = text
        PROVE  NothingUnseen(d, b)
    <3>1. \A i \in 1..Len(r.ranked) : r.ranked[i] \in ToSet(r.ranked)
      BY <1>2 DEF ToSet
    <3>2. \A i \in 1..Len(r.ranked) :
              Listed(r.ranked[i]) => r.ranked[i] \in end.shown \cup end.skipped
      BY <2>3, <3>1
    <3>3. end.shown \cap (end.skipped \cup r.cut) = {}
      <4>1. \A i \in 1..Len(r.ranked) : r.ranked[i] \notin r.cut
        BY RankedOf
      <4>2. QED
        BY <2>3, <4>1
    <3> DEFINE seen == end.shown \cup end.skipped \cup r.cut
    <3>4. ASSUME d.first
          PROVE  Weighted(d) \subseteq seen
      <4>1. \A f \in Weighted(d) : f \in r.cut \/ \E i \in 1..Len(r.ranked) : r.ranked[i] = f
        BY <3>4, RankedOf
      <4>2. \A f \in Weighted(d) : Listed(f)
        BY DEF Weighted, Listed
      <4>3. QED
        BY <3>2, <4>1, <4>2
    <3>5. ASSUME ~d.first, Weighted(d) # {}, NEW f \in All(d),
                 f.weight > 0 \/ Unchanged(f) \/ (f.change # "removed" /\ f.cls \in Runnable)
          PROVE  f \in seen
      <4>1. Listed(f)
        BY <3>5 DEF Listed
      <4>2. \/ f \in r.cut
            \/ \E i \in 1..Len(r.ranked) : r.ranked[i] = f
            \/ /\ f.weight = 0 /\ ~Unchanged(f)
               /\ f.change = "removed" \/ f.cls \notin Runnable
        BY <3>5, RankedOf DEF All
      <4>3. QED
        BY <3>2, <3>5, <4>1, <4>2
    <3> HIDE DEF seen
    <3>6. IF d.first THEN Weighted(d) \subseteq seen
          ELSE {f \in All(d) : /\ Weighted(d) # {}
                               /\ \/ f.weight > 0 \/ Unchanged(f)
                                  \/ f.change # "removed" /\ f.cls \in Runnable} \subseteq seen
      BY <3>4, <3>5
    <3>7. QED
      BY <2>1, <2>4, <3>3, <3>6 DEF NothingUnseen, seen, All
  <2>5. text.shown = {} /\ r.ranked # <<>> =>
            Unchanged(top) \/ Start(d, blocks).used + top.hunks + gap > max
    BY <1>3, <2>1, <2>3
  <2>6. text.shown # {} /\ r.ranked # <<>> => top \in text.shown \/ Unchanged(top)
    BY <1>3, <2>1, <2>3
  <2>7. QED
    BY <2>1, <2>4, <2>5, <2>6 DEF text
<1>5. a = IF first.shown = {} /\ r.ranked # <<>>
          THEN [tooLarge |-> TRUE, needed |-> needed, text |-> stored]
          ELSE [tooLarge |-> FALSE, needed |-> cap, text |-> first]
  BY DEF Prepare, StoredText, blocks
<1> HIDE DEF a, r, first, stored, top, gap, reserve
<1>6. CASE ~(first.shown = {} /\ r.ranked # <<>>)
  <2>1. ~a.tooLarge /\ a.needed = cap /\ a.text = first
    BY <1>5, <1>6
  <2>2. NothingUnseen(d, a) /\ (first.shown # {} => first.length <= cap)
    BY <1>4, <2>1 DEF first
  <2>3. QED
    BY <2>1, <2>2 DEF Fits, HoldsTop, a
<1>7. CASE first.shown = {} /\ r.ranked # <<>>
  <2>1. a.tooLarge /\ a.needed = needed /\ a.text = stored
    BY <1>5, <1>7
  <2>2. /\ first.length \in Nat /\ Start(d, blocks).used <= first.length + NoteReserve + reserve
        /\ Unchanged(top) \/ Start(d, blocks).used + top.hunks + gap > cap
    BY <1>4, <1>7 DEF first
  <2>3. top.hunks \in Nat /\ reserve \in Nat /\ gap \in 0..1 /\ Start(d, blocks).used \in Nat
    <3>1. Start(d, blocks) \in Built(d)
      BY <1>1, StartOf
    <3>2. gap \in 0..1
      BY DEF gap, Gap
    <3>3. QED
      BY <1>2, <1>3, <1>7, <3>1, <3>2 DEF Built
  <2>4. needed \in Nat /\ Start(d, blocks).used + top.hunks + gap <= needed
    BY <2>2, <2>3 DEF NoteReserve
  <2>5. /\ NothingUnseen(d, a) /\ (stored.shown # {} => stored.length <= needed)
        /\ stored.shown = {} =>
              Unchanged(top) \/ Start(d, blocks).used + top.hunks + gap > needed
        /\ stored.shown # {} => top \in stored.shown \/ Unchanged(top)
    BY <1>4, <1>7, <2>1, <2>4 DEF stored
  <2> HIDE DEF needed
  <2>6. ~Unchanged(top) => top \in stored.shown /\ needed > cap
    BY <2>2, <2>3, <2>4, <2>5
  <2>7. QED
    BY <2>1, <2>5, <2>6 DEF Fits, HoldsTop, a, top, r
<1>8. QED
  BY <1>6, <1>7 DEF a

-----------------------------------------------------------------------------
(* The chain gate: ChainGate.                                              *)

\* Of numbers at least one, one is the smallest.
LEMMA MinOf ==
    ASSUME NEW n \in Nat, NEW N \in SUBSET (1..n), N # {}
    PROVE  Min(N) \in N /\ \A x \in N : Min(N) <= x
<1> DEFINE S == {s \in SUBSET N : s # {} => \E m \in s : \A x \in s : m <= x}
<1>1. IsFiniteSet(N)
  <2>1. IsFiniteSet(1..n)
    BY FS_Interval
  <2>2. QED
    BY <2>1, FS_Subset
<1>2. {} \in S
  OBVIOUS
<1>3. ASSUME NEW s \in SUBSET N, s # {}, \A x \in s : s \ {x} \in S
      PROVE  s \in S
  <2>1. PICK x \in s : TRUE
    BY <1>3
  <2>2. \A y \in s : y \in Nat
    OBVIOUS
  <2>3. CASE s \ {x} = {}
    BY <2>2, <2>3
  <2>4. CASE s \ {x} # {}
    <3>1. PICK m \in s \ {x} : \A y \in s \ {x} : m <= y
      BY <1>3, <2>1, <2>4
    <3>2. CASE m <= x
      BY <2>2, <3>1, <3>2
    <3>3. CASE x <= m
      <4>1. \A y \in s : x <= y
        BY <2>2, <3>1, <3>3
      <4>2. QED
        BY <2>1, <4>1
    <3>4. QED
      BY <2>2, <3>2, <3>3
  <2>5. QED
    BY <2>3, <2>4
<1>4. \A s \in SUBSET N : s # {} /\ (\A x \in s : s \ {x} \in S) => s \in S
  BY <1>3
<1>5. N \in S => \E m \in N : \A x \in N : m <= x
  OBVIOUS
<1> HIDE DEF S
<1>6. SUBSET N \subseteq S
  BY <1>1, <1>2, <1>4, OverSubsets
<1>7. QED
  BY <1>5, <1>6 DEF Min

\* The lines that one piece of evidence is read from are quoted lines.
LEMMA MergedHits ==
    ASSUME NEW f, NEW hits, NEW g \in Merged(f, hits)
    PROVE  g \subseteq hits
<1> DEFINE starts == Starts(f, hits)
           runs == [s \in starts |-> RunFrom(hits, starts, s)]
<1>1. PICK p \in SUBSET starts : g = UNION {runs[s] : s \in p}
  BY DEF Merged
<1>2. \A s \in p : runs[s] \subseteq hits
  BY DEF RunFrom
<1>3. QED
  BY <1>1, <1>2

\* The ends of a connection each have a live line.
LEMMA ConnectedLive ==
    ASSUME NEW f, NEW source, NEW sink, Connected(f, source, sink)
    PROVE  /\ \E n \in source : f.lines[n].live
           /\ \E n \in sink : f.lines[n].live
<1> DEFINE src == {n \in source : Anchor(f, n)}
           snk == {n \in sink : Anchor(f, n)}
<1>1. CASE \E n \in source \cap sink : f.lines[n].live /\ ~f.lines[n].import
  BY <1>1
<1>2. CASE src # {} /\ snk # {}
  BY <1>2 DEF Anchor
<1>3. CASE snk # {} /\ Hop(f, src, snk)
  <2>1. src # {}
    BY <1>3 DEF Hop, Binds
  <2>2. QED
    BY <1>2, <1>3, <2>1
<1>4. QED
  BY <1>1, <1>2, <1>3 DEF Connected

\* What connects two sets of lines connects one of the first that some sets make up
\* with one of the second.
LEMMA PairConnects ==
    ASSUME NEW f, NEW S, NEW T, Connected(f, UNION S, UNION T)
    PROVE  \E g \in S, h \in T : Connected(f, g, h)
<1> DEFINE Of(lines) == {n \in lines : Anchor(f, n)}
           src == Of(UNION S)
           snk == Of(UNION T)
<1>1. CASE \E n \in (UNION S) \cap (UNION T) : f.lines[n].live /\ ~f.lines[n].import
  <2>1. PICK n \in (UNION S) \cap (UNION T) : f.lines[n].live /\ ~f.lines[n].import
    BY <1>1
  <2>2. PICK g \in S, h \in T : n \in g /\ n \in h
    BY <2>1
  <2>3. QED
    BY <2>1, <2>2 DEF Connected
<1>2. CASE \E m \in src, n \in snk :
              f.lines[m].names \cap f.lines[n].names # {} \/ Near(f, m, n)
  <2>1. PICK m \in src, n \in snk :
                f.lines[m].names \cap f.lines[n].names # {} \/ Near(f, m, n)
    BY <1>2
  <2>2. PICK g \in S, h \in T : m \in g /\ n \in h
    BY <2>1
  <2>3. m \in Of(g) /\ n \in Of(h)
    BY <2>1, <2>2
  <2>4. QED
    BY <2>1, <2>2, <2>3 DEF Connected
<1>3. CASE snk # {} /\ Hop(f, src, snk)
  <2>1. PICK r \in DOMAIN f.lines \ src :
                /\ ~f.lines[r].hidden /\ f.lines[r].live
                /\ Wants(f, r) \cap Binds(f, src) # {}
                /\ r \in snk \/ \E n \in snk : Near(f, r, n)
    BY <1>3 DEF Hop
  <2>2. PICK key \in Wants(f, r) : key \in Binds(f, src)
    BY <2>1
  <2>3. PICK m \in src : /\ f.lines[m].scope # "none"
                         /\ key \in f.lines[m].bound \X {f.lines[m].scope}
    BY <2>2 DEF Binds
  <2>4. PICK n \in snk : n = r \/ Near(f, r, n)
    BY <2>1
  <2>5. PICK g \in S, h \in T : m \in g /\ n \in h
    BY <2>3, <2>4
  <2>6. m \in Of(g) /\ n \in Of(h) /\ Of(g) \subseteq src
    BY <2>3, <2>4, <2>5
  <2>7. Wants(f, r) \cap Binds(f, Of(g)) # {}
    BY <2>2, <2>3, <2>6 DEF Binds
  <2>8. Hop(f, Of(g), Of(h))
    BY <2>1, <2>4, <2>6, <2>7 DEF Hop
  <2>9. QED
    BY <2>5, <2>6, <2>8 DEF Connected
<1>4. QED
  BY <1>1, <1>2, <1>3 DEF Connected

\* And what connects two sets of lines connects larger ones, although the line that
\* reads the bound name must be outside the source.
LEMMA LargerConnects ==
    ASSUME NEW f, NEW source, NEW sink, NEW g \in SUBSET source, NEW h \in SUBSET sink,
           Connected(f, g, h)
    PROVE  Connected(f, source, sink)
<1> DEFINE Of(lines) == {n \in lines : Anchor(f, n)}
<1>1. Of(g) \subseteq Of(source) /\ Of(h) \subseteq Of(sink)
  OBVIOUS
<1>2. CASE \E n \in g \cap h : f.lines[n].live /\ ~f.lines[n].import
  BY <1>2 DEF Connected
<1>3. CASE \E m \in Of(g), n \in Of(h) :
              f.lines[m].names \cap f.lines[n].names # {} \/ Near(f, m, n)
  BY <1>1, <1>3 DEF Connected
<1>4. CASE Of(h) # {} /\ Hop(f, Of(g), Of(h))
  <2>1. PICK r \in DOMAIN f.lines \ Of(g) :
                /\ ~f.lines[r].hidden /\ f.lines[r].live
                /\ Wants(f, r) \cap Binds(f, Of(g)) # {}
                /\ r \in Of(h) \/ \E n \in Of(h) : Near(f, r, n)
    BY <1>4 DEF Hop
  <2>2. PICK n \in Of(sink) : n = r \/ Near(f, r, n)
    BY <1>1, <2>1
  <2>3. CASE r \in Of(source)
    <3>1. CASE n = r
      <4>1. f.lines[r].names \cap f.lines[n].names # {}
        BY <2>3, <3>1 DEF Anchor
      <4>2. QED
        BY <2>2, <2>3, <4>1 DEF Connected
    <3>2. CASE Near(f, r, n)
      BY <2>2, <2>3, <3>2 DEF Connected
    <3>3. QED
      BY <2>2, <3>1, <3>2
  <2>4. CASE r \notin Of(source)
    <3>1. Binds(f, Of(g)) \subseteq Binds(f, Of(source))
      BY <1>1 DEF Binds
    <3>2. Hop(f, Of(source), Of(sink))
      BY <2>1, <2>2, <2>4, <3>1 DEF Hop
    <3>3. QED
      BY <2>2, <3>2 DEF Connected
  <2>5. QED
    BY <2>3, <2>4
<1>5. QED
  BY <1>2, <1>3, <1>4 DEF Connected

\* A file lets the chain stand exactly if it shows one pair.
LEMMA StandsByPair ==
    ASSUME NEW v, NEW f, Found(v.source, f), Found(v.sink, f)
    PROVE  GateFile(v, f) = "stands" <=> OnePair(v, f)
<1> DEFINE src == Hits(v.source, f)
           snk == Hits(v.sink, f)
           S == Kept(f, src, v.sourceKind)
           T == Kept(f, snk, v.sinkKind)
           class == f.cls \in {"not-shipped", "inert", "data", "unknown"}
           noSource == \A n \in src : ~f.lines[n].live
           noSink == \A n \in snk : ~f.lines[n].live
           linked == Connected(f, UNION S, UNION T)
           pair == <<v.sourceKind, v.sinkKind>> \in PAIRS
           checks == Checks(v, f, S, T)
           failed == {i \in DOMAIN checks : checks[i].failed}
<1>1. (\E g \in S, h \in T : Connected(f, g, h)) <=> linked
  <2>1. ASSUME NEW g \in S, NEW h \in T, Connected(f, g, h)
        PROVE  linked
    <3>1. g \subseteq UNION S /\ h \subseteq UNION T
      OBVIOUS
    <3>2. QED
      BY <2>1, <3>1, LargerConnects
  <2>2. QED
    BY <2>1, PairConnects
<1>2. linked => /\ S # {} /\ T # {}
                /\ ~noSource /\ ~noSink
  <2>1. UNION S \subseteq src /\ UNION T \subseteq snk
    BY MergedHits DEF Kept
  <2>2. SUFFICES ASSUME linked
                 PROVE  S # {} /\ T # {} /\ ~noSource /\ ~noSink
    OBVIOUS
  <2>3. (\E n \in UNION S : f.lines[n].live) /\ \E n \in UNION T : f.lines[n].live
    BY <2>2, ConnectedLive
  <2>4. QED
    BY <2>1, <2>3
<1>3. OnePair(v, f) <=> ~class /\ pair /\ linked
  BY <1>1 DEF OnePair
<1> DEFINE R1 == [failed |-> class, why |-> "class"]
           R2 == [failed |-> noSource, why |-> "source not live"]
           R3 == [failed |-> noSink, why |-> "sink not live"]
           R4 == [failed |-> S = {}, why |-> "source kind"]
           R5 == [failed |-> T = {}, why |-> "sink kind"]
           R6 == [failed |-> ~linked, why |-> "not connected"]
           R7 == [failed |-> ~pair, why |-> "pair"]
<1>4. checks = <<R1, R2, R3, R4, R5, R6, R7>>
  BY Zenon DEF Checks
<1>5. /\ R1.failed <=> class
      /\ R2.failed <=> noSource
      /\ R3.failed <=> noSink
      /\ R4.failed <=> S = {}
      /\ R5.failed <=> T = {}
      /\ R6.failed <=> ~linked
      /\ R7.failed <=> ~pair
  <2> HIDE DEF src, snk, S, T, class, noSource, noSink, linked, pair
  <2>1. QED
    BY Zenon
<1>6. /\ R1.why # "stands" /\ R2.why # "stands" /\ R3.why # "stands"
      /\ R4.why # "stands" /\ R5.why # "stands" /\ R6.why # "stands"
      /\ R7.why # "stands"
  <2> HIDE DEF src, snk, S, T, class, noSource, noSink, linked, pair
  <2>1. QED
    OBVIOUS
<1>7. /\ DOMAIN checks = 1..7
      /\ checks[1] = R1 /\ checks[2] = R2 /\ checks[3] = R3 /\ checks[4] = R4
      /\ checks[5] = R5 /\ checks[6] = R6 /\ checks[7] = R7
  <2> HIDE DEF R1, R2, R3, R4, R5, R6, R7, checks
  <2>1. QED
    BY <1>4
<1>8. failed = {} <=> ~class /\ pair /\ linked
  <2>1. failed = {} <=> /\ ~R1.failed /\ ~R2.failed /\ ~R3.failed /\ ~R4.failed
                        /\ ~R5.failed /\ ~R6.failed /\ ~R7.failed
    <3> HIDE DEF R1, R2, R3, R4, R5, R6, R7, checks
    <3>1. QED
      BY <1>7
  <2> HIDE DEF src, snk, S, T, class, noSource, noSink, linked, pair, failed, checks,
               R1, R2, R3, R4, R5, R6, R7
  <2>2. QED
    BY <1>2, <1>5, <2>1, Zenon
<1>9. failed # {} => checks[Min(failed)].why # "stands"
  <2> HIDE DEF R1, R2, R3, R4, R5, R6, R7, checks
  <2>1. ASSUME failed # {}
        PROVE  Min(failed) \in failed
    BY <1>7, <2>1, MinOf
  <2>2. QED
    BY <1>6, <1>7, <2>1
<1>10. GateFile(v, f) = IF failed = {} THEN "stands" ELSE checks[Min(failed)].why
  BY DEF GateFile, FirstFailed
<1>11. QED
  <2> HIDE DEF src, snk, S, T, class, noSource, noSink, linked, pair, checks, failed
  <2>1. QED
    BY <1>3, <1>8, <1>9, <1>10

\* No file with one pair has an empty end or a kind that is none.
LEMMA PairCited ==
    ASSUME NEW v, NEW f, OnePair(v, f)
    PROVE  Cited(v)
<1>1. v.sourceKind # "none" /\ v.sinkKind # "none"
  BY DEF OnePair, PAIRS
<1>2. PICK g \in Kept(f, Hits(v.source, f), v.sourceKind),
           h \in Kept(f, Hits(v.sink, f), v.sinkKind) : Connected(f, g, h)
  BY DEF OnePair
<1>3. (\E n \in g : f.lines[n].live) /\ \E n \in h : f.lines[n].live
  BY <1>2, ConnectedLive
<1>4. g \subseteq Hits(v.source, f) /\ h \subseteq Hits(v.sink, f)
  BY MergedHits DEF Kept
<1>5. v.source # {} /\ v.sink # {}
  BY <1>3, <1>4 DEF Hits
<1>6. QED
  BY <1>1, <1>5 DEF Cited

\* The gate lets a chain stand exactly if one of the files shown has one pair.
LEMMA GateByPair ==
    ASSUME NEW v, NEW shown, FilesShown(shown)
    PROVE  Gate(v, shown) = "stands" <=> \E i \in DOMAIN shown : OnePair(v, shown[i])
<1> DEFINE srcIn == {i \in DOMAIN shown : Found(v.source, shown[i])}
           snkIn == {i \in DOMAIN shown : Found(v.sink, shown[i])}
           both == srcIn \cap snkIn
           reason == [i \in both |-> GateFile(v, shown[i])]
<1>1. \A i \in both : reason[i] = "stands" <=> OnePair(v, shown[i])
  BY StandsByPair
<1>2. \A i \in DOMAIN shown : OnePair(v, shown[i]) => i \in both /\ Cited(v)
  <2>1. \A i \in DOMAIN shown : OnePair(v, shown[i]) => Cited(v)
    BY PairCited
  <2>2. \A i \in DOMAIN shown : OnePair(v, shown[i]) => i \in both
    BY DEF OnePair
  <2>3. QED
    BY <2>1, <2>2
<1>3. both # {} /\ ~(\E i \in both : reason[i] = "stands") => reason[Min(both)] # "stands"
  <2>1. ASSUME both # {}
        PROVE  Min(both) \in both
    BY <2>1, MinOf DEF FilesShown
  <2> HIDE DEF reason, both
  <2>2. QED
    BY <2>1
<1>4. AnyStands(reason) = "stands" <=>
          \/ \E i \in both : reason[i] = "stands"
          \/ reason[Min(both)] = "stands"
  <2>1. DOMAIN reason = both
    OBVIOUS
  <2> HIDE DEF reason, both
  <2>2. QED
    BY <2>1 DEF AnyStands
<1>5. Gate(v, shown) = "stands" <=>
          /\ Cited(v) /\ srcIn # {} /\ snkIn # {} /\ both # {}
          /\ AnyStands(reason) = "stands"
  BY DEF Gate
<1>6. QED
  <2>1. both # {} => srcIn # {} /\ snkIn # {}
    OBVIOUS
  <2>2. both \subseteq DOMAIN shown
    OBVIOUS
  <2> HIDE DEF reason, both, srcIn, snkIn
  <2>3. QED
    BY <1>1, <1>2, <1>3, <1>4, <1>5, <2>1, <2>2

-----------------------------------------------------------------------------
(* What the model is told of how files run: ExecContext.                   *)

\* The strings, those of the block's own words named: that each is one is not told
\* to the provers.
Texts == STRING \cup UnknownItems \cup {"absent", "computed", "comment"}

\* A field lists items at finitely many places, and counts others.
Field(j) ==
    /\ IsFiniteSet(DOMAIN j.listed) /\ DOMAIN j.listed \subseteq Nat \ {0}
    /\ j.more \in Nat

\* What is listed of a list are items of it, the first at its place, and no fewer are
\* counted than are not listed (_join).
LEMMA JoinOf ==
    ASSUME NEW items \in Seq(Texts), NEW empty, NEW extra \in Nat,
           NEW j, j = Join(items, empty, extra)
    PROVE  /\ Field(j) /\ ListedItems(j) \subseteq ToSet(items)
           /\ j.says = IF items = <<>> THEN empty ELSE "items"
           /\ items # <<>> => 1 \in DOMAIN j.listed /\ j.listed[1] = items[1]
           /\ IsFiniteSet(ToSet(items) \ ListedItems(j))
           /\ Cardinality(ToSet(items) \ ListedItems(j)) + extra <= j.more
<1> DEFINE distinct == {i \in DOMAIN items : \A k \in 1..i - 1 : items[k] # items[i]}
           first == FirstPlaces(distinct, MaxItems)
           rest == distinct \ first
           shown == {items[i] : i \in first}
           listed == [i \in first |-> items[i]]
<1>1. j = [listed |-> listed, more |-> Cardinality(rest) + extra,
           says |-> IF items = <<>> THEN empty ELSE "items"]
  BY DEF Join
<1>2. DOMAIN items = 1..Len(items) /\ Len(items) \in Nat
  OBVIOUS
<1>3. first \subseteq distinct /\ distinct \subseteq 1..Len(items)
  BY <1>2 DEF FirstPlaces
<1>4. IsFiniteSet(rest) /\ Cardinality(rest) \in Nat
  <2>1. IsFiniteSet(1..Len(items))
    BY <1>2, FS_Interval
  <2>2. rest \subseteq 1..Len(items)
    BY <1>3
  <2>3. QED
    BY <2>1, <2>2, FS_Subset, FS_CardinalityType
<1>5. \A x \in ToSet(items) : \E i \in distinct : items[i] = x
  <2> SUFFICES ASSUME NEW x \in ToSet(items)
               PROVE  \E i \in distinct : items[i] = x
    OBVIOUS
  <2> DEFINE at == {i \in 1..Len(items) : items[i] = x}
  <2>1. at # {}
    BY <1>2 DEF ToSet
  <2>2. Min(at) \in at /\ \A i \in at : Min(at) <= i
    BY <1>2, <2>1, MinOf
  <2> DEFINE m == Min(at)
  <2>3. m \in 1..Len(items) /\ items[m] = x /\ \A i \in at : m <= i
    BY <2>2
  <2>4. ASSUME NEW k \in 1..m - 1
        PROVE  items[k] # items[m]
    <3>1. k \in 1..Len(items) /\ ~(m <= k)
      BY <1>2, <2>3
    <3>2. QED
      BY <2>3, <3>1
  <2> HIDE DEF m
  <2>5. m \in distinct
    BY <1>2, <2>3, <2>4
  <2>6. QED
    BY <2>3, <2>5
<1>6. items # <<>> => 1 \in first
  <2> SUFFICES ASSUME items # <<>>
               PROVE  1 \in first
    OBVIOUS
  <2>1. 1 \in distinct
    BY <1>2
  <2>2. {k \in distinct : k < 1} = {}
    BY <1>3
  <2>3. Cardinality({k \in distinct : k < 1}) = 0
    BY <2>2, FS_EmptySet
  <2>4. QED
    BY <2>1, <2>3, ItemsAssumption DEF FirstPlaces
<1>7. IsFiniteSet(ToSet(items) \ shown) /\ Cardinality(ToSet(items) \ shown) <= Cardinality(rest)
  <2> DEFINE left == {items[i] : i \in rest}
             f == [i \in rest |-> items[i]]
  <2>1. ToSet(items) \ shown \subseteq left
    BY <1>5
  <2>2. f \in Surjection(rest, left)
    BY DEF Surjection
  <2>3. IsFiniteSet(left) /\ Cardinality(left) <= Cardinality(rest)
    BY <1>4, <2>2, FS_Surjection
  <2>4. IsFiniteSet(ToSet(items) \ shown)
        /\ Cardinality(ToSet(items) \ shown) <= Cardinality(left)
    BY <2>1, <2>3, FS_Subset
  <2>5. Cardinality(left) \in Nat /\ Cardinality(ToSet(items) \ shown) \in Nat
    BY <2>3, <2>4, FS_CardinalityType
  <2> HIDE DEF left, shown, rest
  <2>6. QED
    BY <1>4, <2>3, <2>4, <2>5
<1>8. Cardinality(ToSet(items) \ shown) \in Nat
  BY <1>7, FS_CardinalityType
<1>9. shown \subseteq ToSet(items)
  BY <1>2, <1>3 DEF ToSet
<1>10. items # <<>> => 1 \in DOMAIN listed /\ listed[1] = items[1]
  BY <1>6
<1>11. {listed[i] : i \in DOMAIN listed} = shown
  OBVIOUS
<1>12. IsFiniteSet(DOMAIN listed) /\ DOMAIN listed \subseteq Nat \ {0}
  <2>1. DOMAIN listed = first /\ first \subseteq 1..Len(items)
    BY <1>3
  <2>2. IsFiniteSet(1..Len(items))
    BY <1>2, FS_Interval
  <2>3. 1..Len(items) \subseteq Nat \ {0}
    BY <1>2
  <2> HIDE DEF first, listed
  <2>4. QED
    BY <2>1, <2>2, <2>3, FS_Subset
<1> HIDE DEF distinct, first, rest, shown, listed
<1>13. j.listed = listed /\ j.more = Cardinality(rest) + extra
       /\ j.says = IF items = <<>> THEN empty ELSE "items"
  BY <1>1
<1>14. ListedItems(j) = shown
  BY <1>11, <1>13 DEF ListedItems
<1>15. j.more \in Nat /\ Cardinality(ToSet(items) \ shown) + extra <= j.more
  BY <1>4, <1>7, <1>8, <1>13
<1>16. Field(j)
  BY <1>12, <1>13, <1>15 DEF Field
<1>17. QED
  BY <1>7, <1>9, <1>10, <1>13, <1>14, <1>15, <1>16

\* A sum over one place.
LEMMA SumSingle ==
    ASSUME NEW w, NEW x, DOMAIN w = {x}, w[x] \in Int
    PROVE  SumFunction(w) = w[x]
<1>1. IsFiniteSet({x})
  BY FS_Singleton
<1>2. PICK T : SumFunction(w) = T[{x}] /\ Summed(T, w)
  BY <1>1, SumChosen
<1>3. T[{}] = 0 /\ T[{x}] = w[OneOf({x})] + T[{x} \ {OneOf({x})}]
  BY <1>2 DEF Summed
<1>4. OneOf({x}) = x
  BY DEF OneOf
<1>5. {x} \ {OneOf({x})} = {}
  BY <1>4
<1>6. T[{x}] = w[x] + 0
  BY <1>3, <1>4, <1>5, Zenon
<1>7. QED
  BY <1>2, <1>6

\* An item fits into a line.
LEMMA WidthOf ==
    ASSUME NEW item
    PROVE  Width(item) \in 1..MaxLine /\ MaxLine \in Nat \ {0}
BY LineAssumption DEF Width

\* How far its items reach is no further than the field does, and the first fits.
LEMMA WidthsOf ==
    ASSUME NEW f, Field(f)
    PROVE  /\ FieldWidth(f) \in Nat
           /\ \A n : WidthTo(f, n) \in Nat /\ WidthTo(f, n) <= FieldWidth(f)
           /\ 1 \in DOMAIN f.listed => WidthTo(f, 1) <= MaxLine
<1> DEFINE D == DOMAIN f.listed
           w == [i \in D |-> Width(f.listed[i])]
           rest == IF f.more > 0 \/ f.says # "items" THEN 1 ELSE 0
<1>1. IsFiniteSet(D) /\ D \subseteq Nat \ {0}
  BY DEF Field
<1>2. \A i \in D : w[i] = Width(f.listed[i]) /\ w[i] \in 1..MaxLine /\ MaxLine \in Nat
  BY WidthOf
<1>3. FieldWidth(f) = SumFunction(w) + rest
  BY DEF FieldWidth
<1>4. rest \in Nat
  OBVIOUS
<1>5. DOMAIN w = D
  OBVIOUS
<1>6. ASSUME NEW n
      PROVE  WidthTo(f, n) = SumFunction([i \in {k \in D : k <= n} |-> w[i]])
  <2>1. [i \in {k \in D : k <= n} |-> Width(f.listed[i])]
           = [i \in {k \in D : k <= n} |-> w[i]]
    BY <1>2
  <2>2. QED
    BY <2>1 DEF WidthTo
<1> HIDE DEF w, D, rest
<1>7. \A E \in SUBSET D : /\ SumFunction([i \in E |-> w[i]]) \in Nat
                          /\ SumFunction([i \in E |-> w[i]]) <= SumFunction(w)
  <2>1. \A i \in D : w[i] \in Nat
    BY <1>2
  <2>2. QED
    BY <1>1, <1>5, <2>1, SumPart
<1>8. SumFunction(w) \in Nat
  <2>1. w = [i \in D |-> w[i]]
    BY <1>5 DEF w
  <2>2. QED
    BY <1>7, <2>1
<1>9. ASSUME NEW n
      PROVE  WidthTo(f, n) \in Nat /\ WidthTo(f, n) <= FieldWidth(f)
  <2> DEFINE E == {k \in D : k <= n}
             part == SumFunction([i \in E |-> w[i]])
  <2>1. E \in SUBSET D
    OBVIOUS
  <2> HIDE DEF E
  <2>2. part \in Nat /\ part <= SumFunction(w)
    BY <1>7, <2>1
  <2>3. WidthTo(f, n) = part
    BY <1>6 DEF E
  <2> HIDE DEF part
  <2> DEFINE total == SumFunction(w)
  <2>4. part \in Nat /\ total \in Nat /\ part <= total /\ FieldWidth(f) = total + rest
    BY <1>3, <1>8, <2>2
  <2> HIDE DEF total
  <2>5. QED
    BY <1>4, <2>3, <2>4
<1>10. ASSUME 1 \in D
       PROVE  WidthTo(f, 1) <= MaxLine
  <2>1. {k \in D : k <= 1} = {1}
    <3>1. \A k \in D : k \in Nat /\ k # 0
      BY <1>1
    <3>2. \A k \in Nat : k # 0 /\ k <= 1 => k = 1
      OBVIOUS
    <3>3. 1 <= 1
      OBVIOUS
    <3>4. QED
      BY <1>10, <3>1, <3>2, <3>3, Zenon
  <2> DEFINE v == [i \in {1} |-> w[i]]
  <2>2. WidthTo(f, 1) = SumFunction(v)
    BY <1>6, <2>1
  <2>3. DOMAIN v = {1} /\ v[1] = w[1] /\ w[1] \in 1..MaxLine /\ MaxLine \in Nat
    BY <1>2, <1>10
  <2> HIDE DEF v
  <2>4. SumFunction(v) = w[1]
    BY <2>3, SumSingle
  <2>5. QED
    BY <2>2, <2>3, <2>4
<1>11. QED
  BY <1>3, <1>4, <1>8, <1>9, <1>10 DEF D

\* What is seen of a field is listed there, and says what it says or that it is cut;
LEMMA SeenOf ==
    ASSUME NEW f, NEW before, NEW c, c = InSight(f, before)
    PROVE  /\ c.shown \subseteq ListedItems(f)
           /\ c.says = "none" => f.says = "none"
<1> DEFINE fits == {n \in DOMAIN f.listed : before + WidthTo(f, n) <= MaxLine}
           whole == before + FieldWidth(f) <= MaxLine
<1>1. /\ c.shown = {f.listed[n] : n \in fits}
      /\ c.says = IF whole THEN f.says ELSE "cut"
  BY Zenon DEF InSight
<1>2. c.shown \subseteq ListedItems(f)
  BY <1>1 DEF ListedItems
<1> HIDE DEF fits, whole
<1>3. c.says = "none" => f.says = "none"
  BY <1>1
<1>4. QED
  BY <1>2, <1>3

\* it is all of it, or the line ends cut; and of a line's only field the first item is
\* seen in any case.
LEMMA InSightOf ==
    ASSUME NEW f, Field(f), NEW before \in Int, NEW c, c = InSight(f, before)
    PROVE  /\ ~c.cut => c.shown = ListedItems(f) /\ c.more = f.more
           /\ before = 0 /\ 1 \in DOMAIN f.listed => f.listed[1] \in c.shown
<1> DEFINE fits == {n \in DOMAIN f.listed : before + WidthTo(f, n) <= MaxLine}
           whole == before + FieldWidth(f) <= MaxLine
<1>1. /\ c.shown = {f.listed[n] : n \in fits}
      /\ c.cut <=> ~whole
      /\ c.more = IF whole THEN f.more ELSE 0
  BY Zenon DEF InSight
<1>2. FieldWidth(f) \in Nat /\ MaxLine \in Nat
  BY WidthsOf, LineAssumption
<1>3. \A n : WidthTo(f, n) \in Nat /\ WidthTo(f, n) <= FieldWidth(f)
  BY WidthsOf
<1>4. whole => fits = DOMAIN f.listed
  BY <1>2, <1>3
<1>5. before = 0 /\ 1 \in DOMAIN f.listed => 1 \in fits
  <2>1. 1 \in DOMAIN f.listed => WidthTo(f, 1) <= MaxLine
    BY WidthsOf
  <2>2. QED
    BY <1>2, <1>3, <2>1
<1> HIDE DEF fits, whole
<1>6. ~c.cut => c.shown = ListedItems(f) /\ c.more = f.more
  BY <1>1, <1>4 DEF ListedItems
<1>7. before = 0 /\ 1 \in DOMAIN f.listed => f.listed[1] \in c.shown
  BY <1>1, <1>5
<1>8. QED
  BY <1>6, <1>7

\* One list after another.
LEMMA Appended ==
    ASSUME NEW S, NEW s \in Seq(S), NEW t \in Seq(S)
    PROVE  /\ s \o t \in Seq(S) /\ ToSet(s \o t) = ToSet(s) \cup ToSet(t)
           /\ s \o t = <<>> <=> s = <<>> /\ t = <<>>
           /\ s # <<>> => (s \o t)[1] = s[1]
           /\ s = <<>> => s \o t = t
<1>1. s \o t \in Seq(S) /\ Len(s \o t) = Len(s) + Len(t)
  OBVIOUS
<1>2. \A i \in 1..Len(s) : (s \o t)[i] = s[i]
  OBVIOUS
<1>3. \A i \in 1..Len(t) : Len(s) + i \in 1..Len(s \o t) /\ (s \o t)[Len(s) + i] = t[i]
  OBVIOUS
<1>4. \A i \in 1..Len(s) + Len(t) : i \in 1..Len(s) \/ i - Len(s) \in 1..Len(t)
  OBVIOUS
<1>5. \A i \in 1..Len(s) + Len(t) : i \notin 1..Len(s) => (s \o t)[i] = t[i - Len(s)]
  OBVIOUS
<1>6. ToSet(s \o t) = ToSet(s) \cup ToSet(t)
  <2>1. ASSUME NEW x \in ToSet(s \o t)
        PROVE  x \in ToSet(s) \cup ToSet(t)
    BY <1>1, <1>2, <1>4, <1>5 DEF ToSet
  <2>2. ToSet(s) \subseteq ToSet(s \o t)
    BY <1>1, <1>2 DEF ToSet
  <2>3. ASSUME NEW x \in ToSet(t)
        PROVE  x \in ToSet(s \o t)
    <3>1. PICK i \in 1..Len(t) : x = t[i]
      BY DEF ToSet
    <3>2. Len(s) + i \in DOMAIN (s \o t) /\ x = (s \o t)[Len(s) + i]
      BY <1>1, <1>3, <3>1
    <3>3. QED
      BY <3>2, Zenon DEF ToSet
  <2>4. QED
    BY <2>1, <2>2, <2>3
<1>7. QED
  BY <1>1, <1>2, <1>6

\* A list of one item or none.
LEMMA SaysOf ==
    ASSUME NEW S, NEW what \in S, NEW yes
    PROVE  /\ Says(yes, what) \in Seq(S)
           /\ Says(yes, what) = <<>> <=> ~yes
           /\ ToSet(Says(yes, what)) = IF yes THEN {what} ELSE {}
           /\ yes => Says(yes, what)[1] = what
<1>1. CASE yes
  <2>1. Says(yes, what) = <<what>>
    BY <1>1 DEF Says
  <2>2. ToSet(<<what>>) = {what}
    BY DEF ToSet
  <2>3. <<what>> \in Seq(S) /\ <<what>> # <<>> /\ <<what>>[1] = what
    OBVIOUS
  <2>4. QED
    BY <1>1, <2>1, <2>2, <2>3, Zenon
<1>2. CASE ~yes
  <2>1. Says(yes, what) = <<>>
    BY <1>2 DEF Says
  <2>2. ToSet(<<>>) = {}
    BY DEF ToSet
  <2>3. QED
    BY <1>2, <2>1, <2>2
<1>3. QED
  BY <1>1, <1>2

\* The reasons that are listed are the reasons there are.
LEMMA UnreadListOf ==
    ASSUME NEW reasons
    PROVE  /\ UnreadList(reasons) \in Seq(Reasons)
           /\ UnreadList(reasons) = <<>> <=> reasons \cap Reasons = {}
<1> DEFINE a == Says("too large" \in reasons, "too large")
           b == Says("unparseable" \in reasons, "unparseable")
           c == Says("malformed" \in reasons, "malformed")
<1>0. "too large" \in Reasons /\ "unparseable" \in Reasons /\ "malformed" \in Reasons
  BY DEF Reasons
<1>1. a \in Seq(Reasons) /\ (a = <<>> <=> "too large" \notin reasons)
  BY <1>0, SaysOf, Zenon
<1>2. b \in Seq(Reasons) /\ (b = <<>> <=> "unparseable" \notin reasons)
  BY <1>0, SaysOf, Zenon
<1>3. c \in Seq(Reasons) /\ (c = <<>> <=> "malformed" \notin reasons)
  BY <1>0, SaysOf, Zenon
<1>4. UnreadList(reasons) = (a \o b) \o c
  BY DEF UnreadList
<1> HIDE DEF a, b, c
<1>5. /\ a \o b \in Seq(Reasons)
      /\ a \o b = <<>> <=> a = <<>> /\ b = <<>>
  BY <1>1, <1>2, Appended
<1>6. /\ (a \o b) \o c \in Seq(Reasons)
      /\ (a \o b) \o c = <<>> <=> a \o b = <<>> /\ c = <<>>
  BY <1>3, <1>5, Appended
<1>7. QED
  BY <1>1, <1>2, <1>3, <1>4, <1>5, <1>6 DEF Reasons

\* A slot, and one that is honest about the entries seen: it keeps some, the first and
\* "computed" among them, and has counted no fewer than are left.
Slot == [kept : Seq(Texts), more : Nat]
Honest(slot, seen) ==
    /\ slot \in Slot /\ IsFiniteSet(seen)
    /\ ToSet(slot.kept) \subseteq seen
    /\ "computed" \in seen => "computed" \in ToSet(slot.kept)
    /\ seen # {} => slot.kept # <<>>
    /\ Cardinality(seen \ ToSet(slot.kept)) <= slot.more

\* An empty one is honest about nothing,
LEMMA NothingHonest ==
    Honest([kept |-> <<>>, more |-> 0], {})
<1>1. ToSet(<<>>) = {}
  BY DEF ToSet
<1>2. IsFiniteSet({}) /\ Cardinality({}) = 0 /\ {} \ {} = {}
  BY FS_EmptySet
<1>3. [kept |-> <<>>, more |-> 0] \in Slot
  BY DEF Slot
<1>4. QED
  BY <1>1, <1>2, <1>3 DEF Honest

\* and one more entry keeps it honest.
LEMMA OneCollected ==
    ASSUME NEW slot, NEW seen, Honest(slot, seen), NEW e \in Texts
    PROVE  Honest(CollectOne(slot, e), seen \cup {e})
<1> DEFINE all == seen \cup {e}
           kept == slot.kept
           left == seen \ ToSet(kept)
<1>1. /\ kept \in Seq(Texts) /\ slot.more \in Nat /\ IsFiniteSet(seen)
      /\ slot = [kept |-> kept, more |-> slot.more]
      /\ ToSet(kept) \subseteq seen
      /\ "computed" \in seen => "computed" \in ToSet(kept)
      /\ Cardinality(left) <= slot.more
      /\ seen # {} => kept # <<>>
  BY DEF Honest, Slot
<1>2. IsFiniteSet(all)
  BY <1>1, FS_AddElement
<1>3. IsFiniteSet(left) /\ Cardinality(left) \in Nat
  BY <1>1, FS_Subset, FS_CardinalityType
<1>4. CASE e \in ToSet(kept)
  <2>1. CollectOne(slot, e) = slot /\ all = seen
    BY <1>1, <1>4 DEF CollectOne
  <2>2. QED
    BY <2>1
<1>5. CASE e \notin ToSet(kept) /\ (Len(kept) <= MaxItems \/ e = "computed")
  <2> DEFINE new == Append(kept, e)
  <2>1. CollectOne(slot, e) = [kept |-> new, more |-> slot.more]
    BY <1>1, <1>5 DEF CollectOne
  <2>2. new \in Seq(Texts) /\ new # <<>>
    BY <1>1
  <2>3. ToSet(new) = ToSet(kept) \cup {e}
    <3>1. Len(new) = Len(kept) + 1 /\ new[Len(kept) + 1] = e /\ Len(kept) \in Nat
      BY <1>1
    <3>2. \A i \in 1..Len(kept) : new[i] = kept[i]
      BY <1>1
    <3>3. DOMAIN new = 1..Len(kept) + 1 /\ DOMAIN kept = 1..Len(kept)
      BY <1>1
    <3>4. \A i \in 1..Len(kept) + 1 : i \in 1..Len(kept) \/ i = Len(kept) + 1
      BY <3>1
    <3>5. Len(kept) + 1 \in 1..Len(kept) + 1 /\ 1..Len(kept) \subseteq 1..Len(kept) + 1
      BY <3>1
    <3> HIDE DEF new
    <3>6. QED
      BY <3>1, <3>2, <3>3, <3>4, <3>5 DEF ToSet
  <2>4. all \ ToSet(new) \subseteq left
    BY <2>3
  <2>5. Cardinality(all \ ToSet(new)) <= Cardinality(left)
        /\ IsFiniteSet(all \ ToSet(new))
    BY <1>3, <2>4, FS_Subset
  <2>6. Cardinality(all \ ToSet(new)) \in Nat
    BY <2>5, FS_CardinalityType
  <2> HIDE DEF new, left
  <2>7. Cardinality(all \ ToSet(new)) <= slot.more
    BY <1>1, <1>3, <2>5, <2>6
  <2> DEFINE res == [kept |-> new, more |-> slot.more]
  <2>8. res.kept = new /\ res.more = slot.more /\ res \in Slot
    BY <1>1, <2>2 DEF Slot
  <2> HIDE DEF res, all
  <2>9. ToSet(new) \subseteq all /\ ("computed" \in all => "computed" \in ToSet(new))
    BY <1>1, <2>3 DEF all
  <2>10. Honest(res, all)
    BY <1>2, <2>2, <2>7, <2>8, <2>9 DEF Honest
  <2>11. QED
    BY <2>1, <2>10 DEF all, res
<1>6. CASE e \notin ToSet(kept) /\ ~(Len(kept) <= MaxItems) /\ e # "computed"
  <2>1. CollectOne(slot, e) = [kept |-> kept, more |-> slot.more + 1]
    BY <1>1, <1>6 DEF CollectOne
  <2>2. all \ ToSet(kept) = left \cup {e}
    BY <1>6
  <2>3. Cardinality(left \cup {e}) <= Cardinality(left) + 1
        /\ IsFiniteSet(left \cup {e})
    <3> HIDE DEF left
    <3>1. /\ IsFiniteSet(left \cup {e})
          /\ Cardinality(left \cup {e}) = Cardinality(left)
             \/ Cardinality(left \cup {e}) = Cardinality(left) + 1
      BY <1>3, FS_AddElement
    <3> DEFINE a == Cardinality(left)
               b == Cardinality(left \cup {e})
    <3>2. (b = a \/ b = a + 1) /\ a \in Nat
      BY <1>3, <3>1
    <3> HIDE DEF a, b
    <3>3. b <= a + 1
      BY <3>2
    <3>4. QED
      BY <3>1, <3>3 DEF a, b
  <2>4. Cardinality(left \cup {e}) \in Nat
    BY <2>3, FS_CardinalityType
  <2>5. kept # <<>>
    <3>1. MaxItems \in Nat /\ Len(<<>>) = 0
      BY ItemsAssumption
    <3>2. QED
      BY <1>1, <1>6, <3>1
  <2> DEFINE few == Cardinality(left)
             many == Cardinality(left \cup {e})
             unkept == Cardinality(all \ ToSet(kept))
  <2>6. unkept = many /\ many <= few + 1 /\ few <= slot.more /\ slot.more \in Nat
        /\ many \in Nat /\ few \in Nat
    BY <1>1, <1>3, <2>2, <2>3, <2>4
  <2> HIDE DEF few, many, unkept
  <2>7. unkept <= slot.more + 1 /\ slot.more + 1 \in Nat
    BY <2>6
  <2> DEFINE res == [kept |-> kept, more |-> slot.more + 1]
  <2>8. res.kept = kept /\ res.more = slot.more + 1 /\ res \in Slot
    BY <1>1, <2>7 DEF Slot
  <2> HIDE DEF res, all
  <2>9. ToSet(kept) \subseteq all /\ ("computed" \in all => "computed" \in ToSet(kept))
    BY <1>1, <1>6 DEF all
  <2>10. Honest(res, all)
    BY <1>2, <2>5, <2>7, <2>8, <2>9 DEF Honest, unkept
  <2>11. QED
    BY <2>1, <2>10 DEF all, res
<1>7. QED
  BY <1>4, <1>5, <1>6

\* One line of a table.
CollectLine(slot, e) == IF e = "comment" THEN slot ELSE CollectOne(slot, e)

\* A line keeps a slot a slot.
LEMMA LineType ==
    ASSUME NEW v \in Slot, NEW e \in Texts
    PROVE  CollectLine(v, e) \in Slot
<1>1. v.kept \in Seq(Texts) /\ v.more \in Nat
      /\ v = [kept |-> v.kept, more |-> v.more]
  BY DEF Slot
<1>2. [v EXCEPT !.kept = Append(@, e)] = [kept |-> Append(v.kept, e), more |-> v.more]
  <2> DEFINE k == Append(v.kept, e)
  <2>1. [v EXCEPT !.kept = Append(@, e)] = [v EXCEPT !.kept = k]
    OBVIOUS
  <2> HIDE DEF k
  <2>2. [v EXCEPT !.kept = k] = [kept |-> k, more |-> v.more]
    BY <1>1
  <2>3. QED
    BY <2>1, <2>2 DEF k
<1>3. [v EXCEPT !.more = @ + 1] = [kept |-> v.kept, more |-> v.more + 1]
  BY <1>1
<1>4. Append(v.kept, e) \in Seq(Texts) /\ v.more + 1 \in Nat
  BY <1>1
<1>5. QED
  BY <1>1, <1>2, <1>3, <1>4 DEF CollectLine, CollectOne, Slot

\* The slot line by line.
LEMMA CollectedByLine ==
    ASSUME NEW slot \in Slot, NEW lines \in Seq(Texts)
    PROVE  \E after : /\ Collect(slot, lines) = after[Len(lines)] /\ after[0] = slot
                      /\ \A i \in 1..Len(lines) : after[i] = CollectLine(after[i - 1], lines[i])
<1> DEFINE n == Len(lines)
           line == [i \in Nat |-> IF i \in 1..n THEN lines[i] ELSE "comment"]
           step == [i \in Nat |-> [v \in Slot |-> CollectLine(v, line[i])]]
<1>1. n \in Nat /\ \A i \in Nat : line[i] \in Texts
  <2>1. ASSUME NEW i \in Nat
        PROVE  line[i] \in Texts
    <3>1. i \in 1..n => lines[i] \in Texts
      OBVIOUS
    <3>2. "comment" \in Texts
      BY DEF Texts
    <3>3. line[i] = IF i \in 1..n THEN lines[i] ELSE "comment"
      OBVIOUS
    <3> HIDE DEF line, n
    <3>4. QED
      BY <3>1, <3>2, <3>3
  <2>2. QED
    BY <2>1
<1>2. \A v \in Slot : \A e \in Texts : CollectLine(v, e) \in Slot
  BY LineType
<1>3. ASSUME NEW i \in Nat, NEW v \in Slot
      PROVE  step[i][v] \in Slot /\ step[i][v] = CollectLine(v, line[i])
  BY <1>1, <1>2
<1>4. \A i \in 1..n : line[i] = lines[i] /\ i \in Nat
  BY <1>1
<1> HIDE DEF step, line, n
<1>5. PICK f \in [0..n -> Slot] : f[0] = slot /\ \A i \in 1..n : f[i] = step[i][f[i - 1]]
  <2>1. \A k \in Nat : \E f : Iterates(f, Slot, slot, step, k)
    BY <1>3, Iterated
  <2>2. QED
    BY <1>1, <2>1 DEF Iterates
<1>6. ASSUME NEW i \in 0..n, i # 0
      PROVE  f[i] = CollectLine(f[i - 1], lines[i])
  <2>1. i \in 1..n /\ i \in Nat /\ i - 1 \in 0..n
    BY <1>1, <1>6
  <2>2. f[i] = step[i][f[i - 1]] /\ f[i - 1] \in Slot
    BY <1>5, <2>1
  <2>3. QED
    BY <1>3, <1>4, <2>1, <2>2
<1>7. f = [i \in 0..Len(lines) |->
             IF i = 0 THEN slot
             ELSE IF lines[i] = "comment" THEN f[i - 1] ELSE CollectOne(f[i - 1], lines[i])]
  BY <1>5, <1>6 DEF CollectLine, n
<1>8. \E g : g = [i \in 0..Len(lines) |->
             IF i = 0 THEN slot
             ELSE IF lines[i] = "comment" THEN g[i - 1] ELSE CollectOne(g[i - 1], lines[i])]
  BY <1>7, Zenon
<1> DEFINE after == CHOOSE g : g = [i \in 0..Len(lines) |->
             IF i = 0 THEN slot
             ELSE IF lines[i] = "comment" THEN g[i - 1] ELSE CollectOne(g[i - 1], lines[i])]
<1>9. after = [i \in 0..Len(lines) |->
             IF i = 0 THEN slot
             ELSE IF lines[i] = "comment" THEN after[i - 1]
                  ELSE CollectOne(after[i - 1], lines[i])]
  BY <1>8, Zenon
<1>10. Collect(slot, lines) = after[Len(lines)]
  BY Zenon DEF Collect
<1> HIDE DEF after
<1>11. after[0] = slot
  BY <1>1, <1>9 DEF n
<1>12. ASSUME NEW i \in 1..Len(lines)
       PROVE  after[i] = CollectLine(after[i - 1], lines[i])
  <2>1. i \in 0..Len(lines) /\ i # 0
    BY <1>1 DEF n
  <2>2. QED
    BY <1>9, <2>1 DEF CollectLine
<1>13. QED
  BY <1>10, <1>11, <1>12

\* It stays a slot,
LEMMA CollectType ==
    ASSUME NEW slot \in Slot, NEW lines \in Seq(Texts)
    PROVE  Collect(slot, lines) \in Slot
<1>1. PICK after : /\ Collect(slot, lines) = after[Len(lines)] /\ after[0] = slot
                   /\ \A i \in 1..Len(lines) : after[i] = CollectLine(after[i - 1], lines[i])
  BY CollectedByLine
<1> DEFINE S == {i \in Nat : i <= Len(lines) => after[i] \in Slot}
<1>2. 0 \in S
  BY <1>1
<1>3. ASSUME NEW i \in Nat, i \in S
      PROVE  i + 1 \in S
  <2> SUFFICES ASSUME i + 1 <= Len(lines)
               PROVE  after[i + 1] \in Slot
    OBVIOUS
  <2>1. i <= Len(lines) /\ i + 1 \in 1..Len(lines) /\ (i + 1) - 1 = i
    OBVIOUS
  <2>2. after[i] \in Slot /\ lines[i + 1] \in Texts
    BY <1>3, <2>1
  <2>3. QED
    BY <1>1, <2>1, <2>2, LineType
<1>4. Nat \subseteq S
  <2> HIDE DEF S
  <2>1. QED
    BY <1>2, <1>3, AllNaturals
<1>5. Len(lines) \in Nat
  OBVIOUS
<1>6. QED
  BY <1>1, <1>4, <1>5

\* and an honest one stays honest, whatever comments are between the entries.
LEMMA TableCollected ==
    ASSUME NEW slot, NEW seen, Honest(slot, seen), NEW lines \in Seq(Texts)
    PROVE  Honest(Collect(slot, lines), seen \cup (ToSet(lines) \ {"comment"}))
<1>0. slot \in Slot
  BY DEF Honest
<1>1. PICK after : /\ Collect(slot, lines) = after[Len(lines)] /\ after[0] = slot
                   /\ \A i \in 1..Len(lines) : after[i] = CollectLine(after[i - 1], lines[i])
  BY <1>0, CollectedByLine
<1> DEFINE n == Len(lines)
           Upto(i) == seen \cup ({lines[k] : k \in 1..i} \ {"comment"})
           S == {i \in Nat : i <= n => Honest(after[i], Upto(i))}
<1>2. n \in Nat
  OBVIOUS
<1>3. 0 \in S
  <2>1. Upto(0) = seen
    OBVIOUS
  <2>2. QED
    BY <1>1, <2>1
<1>4. ASSUME NEW i \in Nat, i \in S
      PROVE  i + 1 \in S
  <2> SUFFICES ASSUME i + 1 <= n
               PROVE  Honest(after[i + 1], Upto(i + 1))
    OBVIOUS
  <2> DEFINE e == lines[i + 1]
  <2>1. i <= n /\ i + 1 \in 1..n /\ (i + 1) - 1 = i
    BY <1>2
  <2>2. Honest(after[i], Upto(i)) /\ e \in Texts
    BY <1>4, <2>1
  <2>3. after[i + 1] = CollectLine(after[i], e)
    BY <1>1, <2>1
  <2>4. {lines[k] : k \in 1..i + 1} = {lines[k] : k \in 1..i} \cup {e}
    <3>1. \A k : k \in 1..i + 1 <=> k \in 1..i \/ k = i + 1
      BY <2>1
    <3>2. QED
      BY <3>1
  <2>5. CASE e = "comment"
    <3>1. Upto(i + 1) = Upto(i)
      BY <2>4, <2>5
    <3>2. QED
      BY <2>2, <2>3, <2>5, <3>1 DEF CollectLine
  <2>6. CASE e # "comment"
    <3>1. Upto(i + 1) = Upto(i) \cup {e}
      BY <2>4, <2>6
    <3> HIDE DEF Upto, e
    <3>2. Honest(CollectOne(after[i], e), Upto(i) \cup {e})
      BY <2>2, OneCollected
    <3>3. QED
      BY <2>3, <2>6, <3>1, <3>2 DEF CollectLine
  <2>7. QED
    BY <2>5, <2>6
<1>5. \A i \in Nat : i \in S /\ i <= n => Honest(after[i], Upto(i))
  OBVIOUS
<1> HIDE DEF S
<1>6. Nat \subseteq S
  BY <1>3, <1>4, AllNaturals
<1>7. Honest(after[n], Upto(n))
  <2>1. n \in S /\ n <= n
    BY <1>2, <1>6
  <2> HIDE DEF Upto
  <2>2. QED
    BY <1>2, <1>5, <2>1
<1>8. {lines[k] : k \in 1..n} = ToSet(lines)
  BY DEF ToSet
<1>9. QED
  BY <1>1, <1>7, <1>8

\* The tables that are added, and what was added of them: both slots honest about the
\* entries, and "computed" told of a table that is.
Table == [kind : {"absent", "computed", "table"}, commands : Seq(Texts), plugins : Seq(Texts)]
Added == [commands : Slot, plugins : Slot, computed : BOOLEAN]
Entries(tables, group) ==
    (UNION {ToSet(t[group]) : t \in {t \in tables : t.kind = "table"}}) \ {"comment"}
AddedHonest(eps, tables) ==
    /\ eps \in Added
    /\ Honest(eps.commands, Entries(tables, "commands"))
    /\ Honest(eps.plugins, Entries(tables, "plugins"))
    /\ (\E t \in tables : t.kind = "computed") => eps.computed

\* Nothing added is honest about no tables,
LEMMA NoneAdded ==
    AddedHonest(NothingYet, {})
<1> DEFINE empty == [kept |-> <<>>, more |-> 0]
<1>1. Entries({}, "commands") = {} /\ Entries({}, "plugins") = {}
  BY DEF Entries
<1>2. Honest(empty, {}) /\ empty \in Slot
  BY NothingHonest DEF Honest
<1>3. NothingYet = [commands |-> empty, plugins |-> empty, computed |-> FALSE]
  BY DEF NothingYet
<1> HIDE DEF empty
<1>4. NothingYet \in Added /\ NothingYet.commands = empty /\ NothingYet.plugins = empty
  BY <1>2, <1>3 DEF Added
<1>5. QED
  BY <1>1, <1>2, <1>4 DEF AddedHonest

\* a table is added to both slots.
LEMMA GroupsAdded ==
    ASSUME NEW eps, NEW tables, AddedHonest(eps, tables), NEW t \in Table
    PROVE  AddedHonest(AddGroups(eps, t), tables \cup {t})
<1> DEFINE all == tables \cup {t}
<1>1. /\ eps \in Added /\ Honest(eps.commands, Entries(tables, "commands"))
      /\ Honest(eps.plugins, Entries(tables, "plugins"))
      /\ (\E s \in tables : s.kind = "computed") => eps.computed
  BY DEF AddedHonest
<1>2. /\ t.kind \in {"absent", "computed", "table"}
      /\ t.commands \in Seq(Texts) /\ t.plugins \in Seq(Texts)
  BY DEF Table
<1>3. CASE t.kind = "absent"
  <2>1. Entries(all, "commands") = Entries(tables, "commands")
        /\ Entries(all, "plugins") = Entries(tables, "plugins")
    BY <1>3 DEF Entries
  <2>2. AddGroups(eps, t) = eps
    BY <1>3 DEF AddGroups
  <2>3. (\E s \in all : s.kind = "computed") => eps.computed
    BY <1>1, <1>3
  <2> HIDE DEF all
  <2>4. QED
    BY <1>1, <2>1, <2>2, <2>3 DEF AddedHonest, all
<1>4. CASE t.kind = "computed"
  <2>1. Entries(all, "commands") = Entries(tables, "commands")
        /\ Entries(all, "plugins") = Entries(tables, "plugins")
    BY <1>4 DEF Entries
  <2> DEFINE new == [eps EXCEPT !.computed = TRUE]
  <2>2. AddGroups(eps, t) = new
    BY <1>4 DEF AddGroups
  <2>3. new \in Added /\ new.commands = eps.commands /\ new.plugins = eps.plugins /\ new.computed
    BY <1>1 DEF Added
  <2> HIDE DEF new, all
  <2>4. AddedHonest(new, all)
    BY <1>1, <2>1, <2>3 DEF AddedHonest
  <2>5. QED
    BY <2>2, <2>4 DEF all
<1>5. CASE t.kind = "table"
  <2> DEFINE commands == Collect(eps.commands, t.commands)
             plugins == Collect(eps.plugins, t.plugins)
             new == [eps EXCEPT !.commands = commands, !.plugins = plugins]
  <2>1. Entries(all, "commands") =
            Entries(tables, "commands") \cup (ToSet(t.commands) \ {"comment"})
    BY <1>5 DEF Entries
  <2>2. Entries(all, "plugins") =
            Entries(tables, "plugins") \cup (ToSet(t.plugins) \ {"comment"})
    BY <1>5 DEF Entries
  <2>3. AddGroups(eps, t) = new
    BY <1>5 DEF AddGroups
  <2>4. Honest(commands, Entries(all, "commands"))
    <3>1. Honest(Collect(eps.commands, t.commands),
                 Entries(tables, "commands") \cup (ToSet(t.commands) \ {"comment"}))
      BY <1>1, <1>2, TableCollected
    <3>2. QED
      BY <2>1, <3>1, Zenon
  <2>5. Honest(plugins, Entries(all, "plugins"))
    <3>1. Honest(Collect(eps.plugins, t.plugins),
                 Entries(tables, "plugins") \cup (ToSet(t.plugins) \ {"comment"}))
      BY <1>1, <1>2, TableCollected
    <3>2. QED
      BY <2>2, <3>1, Zenon
  <2>6. commands \in Slot /\ plugins \in Slot
    BY <2>4, <2>5 DEF Honest
  <2> HIDE DEF commands, plugins
  <2>7. new \in Added /\ new.commands = commands /\ new.plugins = plugins
        /\ new.computed = eps.computed
    BY <1>1, <2>6 DEF Added
  <2>8. (\E s \in all : s.kind = "computed") => eps.computed
    BY <1>1, <1>5
  <2> HIDE DEF new, all
  <2>9. AddedHonest(new, all)
    BY <2>4, <2>5, <2>7, <2>8 DEF AddedHonest
  <2>10. QED
    BY <2>3, <2>9 DEF all
<1>6. QED
  BY <1>2, <1>3, <1>4, <1>5

\* The tables of a release are tables.
LEMMA TablesOf ==
    ASSUME NEW r, MetadataRead(r)
    PROVE  /\ FileTable(r, "pyproject.toml") \in Table /\ KwTable(r) \in Table
           /\ FileTable(r, "setup.cfg") \in Table /\ FlitTable(r) \in Table
           /\ \A i \in Nat : EggTable(r, i) \in Table
<1>1. TableRead \subseteq Table
  <2>1. STRING \subseteq Texts
    BY DEF Texts
  <2>2. Seq(STRING) \subseteq Seq(Texts)
    <3> SUFFICES ASSUME NEW s \in Seq(STRING)
                 PROVE  s \in Seq(Texts)
      OBVIOUS
    <3>1. s \in [1..Len(s) -> STRING] /\ Len(s) \in Nat
      OBVIOUS
    <3>2. s \in [1..Len(s) -> Texts]
      BY <2>1, <3>1
    <3>3. QED
      BY <3>1, <3>2
  <2>3. QED
    BY <2>2 DEF TableRead, Table
<1>2. NoTable \in Table /\ [NoTable EXCEPT !.kind = "computed"] \in Table
  <2>1. NoTable \in Table
    BY DEF NoTable, Table
  <2>2. QED
    BY <2>1 DEF Table
<1>3. \A f \in Files : r.eps[f] \in Table
  BY <1>1 DEF MetadataRead
<1>4. "setup.py" \in Files /\ "pyproject.toml" \in Files /\ "setup.cfg" \in Files
  BY DEF Files
<1>5. FileTable(r, "pyproject.toml") \in Table /\ FileTable(r, "setup.cfg") \in Table
  BY <1>2, <1>3, <1>4 DEF FileTable
<1>6. KwTable(r) \in Table
  BY <1>2, <1>3, <1>4 DEF KwTable
<1>7. FlitTable(r) \in Table
  BY <1>1, <1>2 DEF FlitTable, MetadataRead
<1>8. ASSUME NEW i \in Nat
      PROVE  EggTable(r, i) \in Table
  <2> DEFINE E == [state : {"read"} \cup Reasons, table : TableRead]
  <2>1. r.eggs \in Seq(E)
    BY DEF MetadataRead
  <2>2. i \in EggsRead(r) => i \in DOMAIN r.eggs
    BY DEF EggsRead, EggsFound, FirstPlaces
  <2>3. \A e \in E : e.table \in TableRead
    OBVIOUS
  <2> HIDE DEF E
  <2>4. i \in DOMAIN r.eggs => r.eggs[i] \in E
    BY <2>1
  <2>5. QED
    BY <1>1, <1>2, <2>2, <2>3, <2>4 DEF EggTable
<1>9. QED
  BY <1>5, <1>6, <1>7, <1>8

\* The entry points, egg by egg.
LEMMA EntryPointsByEgg ==
    ASSUME NEW r, MetadataRead(r)
    PROVE  LET files == FileTables(r)
               base == AddGroups(AddGroups(AddGroups(NothingYet, files[1]), files[2]), files[3])
           IN  \E eps : /\ EntryPoints(r) = AddGroups(eps[Len(r.eggs)], FlitTable(r))
                        /\ eps[0] = base
                        /\ \A k \in 1..Len(r.eggs) : eps[k] = AddGroups(eps[k - 1], EggTable(r, k))
<1> DEFINE n == Len(r.eggs)
           files == FileTables(r)
           base == AddGroups(AddGroups(AddGroups(NothingYet, files[1]), files[2]), files[3])
           step == [i \in Nat |-> [v \in Added |-> AddGroups(v, EggTable(r, i))]]
<1>1. n \in Nat
  <2>1. r.eggs \in Seq([state : {"read"} \cup Reasons, table : TableRead])
    BY DEF MetadataRead
  <2>2. QED
    BY <2>1
<1>2. \A v \in Added : \A t \in Table : AddGroups(v, t) \in Added
  <2> SUFFICES ASSUME NEW v \in Added, NEW t \in Table
               PROVE  AddGroups(v, t) \in Added
    OBVIOUS
  <2>1. v.commands \in Slot /\ v.plugins \in Slot
    BY DEF Added
  <2>2. t.commands \in Seq(Texts) /\ t.plugins \in Seq(Texts)
    BY DEF Table
  <2> DEFINE c == Collect(v.commands, t.commands)
             p == Collect(v.plugins, t.plugins)
  <2>3. c \in Slot /\ p \in Slot
    BY <2>1, <2>2, CollectType
  <2>4. AddGroups(v, t) \in {v, [v EXCEPT !.computed = TRUE],
                             [v EXCEPT !.commands = c, !.plugins = p]}
    BY DEF AddGroups
  <2> HIDE DEF c, p
  <2>5. v \in Added /\ [v EXCEPT !.computed = TRUE] \in Added
        /\ [v EXCEPT !.commands = c, !.plugins = p] \in Added
    BY <2>3 DEF Added
  <2>6. QED
    BY <2>4, <2>5
<1>3. base \in Added
  <2>1. files[1] \in Table /\ files[2] \in Table /\ files[3] \in Table
    BY TablesOf DEF FileTables
  <2>2. NothingYet \in Added
    BY NoneAdded DEF AddedHonest
  <2> HIDE DEF files
  <2>3. QED
    BY <1>2, <2>1, <2>2
<1>4. ASSUME NEW i \in Nat, NEW v \in Added
      PROVE  step[i][v] \in Added /\ step[i][v] = AddGroups(v, EggTable(r, i))
  BY <1>2, TablesOf
<1> HIDE DEF step, base, n
<1>5. PICK f \in [0..n -> Added] : f[0] = base /\ \A i \in 1..n : f[i] = step[i][f[i - 1]]
  <2>1. \A k \in Nat : \E f : Iterates(f, Added, base, step, k)
    BY <1>3, <1>4, Iterated
  <2>2. QED
    BY <1>1, <2>1 DEF Iterates
<1>6. ASSUME NEW i \in 0..n, i # 0
      PROVE  f[i] = AddGroups(f[i - 1], EggTable(r, i))
  <2>1. i \in 1..n /\ i \in Nat /\ i - 1 \in 0..n
    BY <1>1, <1>6
  <2>2. f[i] = step[i][f[i - 1]] /\ f[i - 1] \in Added
    BY <1>5, <2>1
  <2>3. QED
    BY <1>4, <2>1, <2>2
<1>7. f = [k \in 0..Len(r.eggs) |->
             IF k = 0 THEN base ELSE AddGroups(f[k - 1], EggTable(r, k))]
  BY <1>5, <1>6 DEF n
<1>8. \E g : g = [k \in 0..Len(r.eggs) |->
             IF k = 0 THEN base ELSE AddGroups(g[k - 1], EggTable(r, k))]
  BY <1>7, Zenon
<1> DEFINE eps == CHOOSE g : g = [k \in 0..Len(r.eggs) |->
             IF k = 0 THEN base ELSE AddGroups(g[k - 1], EggTable(r, k))]
<1>9. eps = [k \in 0..Len(r.eggs) |->
             IF k = 0 THEN base ELSE AddGroups(eps[k - 1], EggTable(r, k))]
  BY <1>8, Zenon
<1>10. EntryPoints(r) = AddGroups(eps[Len(r.eggs)], FlitTable(r))
  BY Zenon DEF EntryPoints, base
<1> HIDE DEF eps
<1>11. eps[0] = base
  BY <1>1, <1>9 DEF n
<1>12. ASSUME NEW k \in 1..Len(r.eggs)
       PROVE  eps[k] = AddGroups(eps[k - 1], EggTable(r, k))
  <2>1. k \in 0..Len(r.eggs) /\ k # 0
    BY <1>1 DEF n
  <2>2. QED
    BY <1>9, <2>1
<1>13. QED
  BY <1>10, <1>11, <1>12 DEF base

\* The entry points are honest about every table.
LEMMA EntryPointsOf ==
    ASSUME NEW r, MetadataRead(r)
    PROVE  AddedHonest(EntryPoints(r), Tables(r))
<1> DEFINE n == Len(r.eggs)
           files == FileTables(r)
           base == AddGroups(AddGroups(AddGroups(NothingYet, files[1]), files[2]), files[3])
           three == {FileTable(r, "pyproject.toml"), KwTable(r), FileTable(r, "setup.cfg")}
           Upto(k) == three \cup {EggTable(r, i) : i \in 1..k}
<1>1. n \in Nat /\ DOMAIN r.eggs = 1..n
  <2>1. r.eggs \in Seq([state : {"read"} \cup Reasons, table : TableRead])
    BY DEF MetadataRead
  <2>2. QED
    BY <2>1
<1>2. PICK eps : /\ EntryPoints(r) = AddGroups(eps[n], FlitTable(r)) /\ eps[0] = base
                 /\ \A k \in 1..n : eps[k] = AddGroups(eps[k - 1], EggTable(r, k))
  BY EntryPointsByEgg, Zenon
<1>3. AddedHonest(base, three)
  <2> DEFINE a == FileTable(r, "pyproject.toml")
             b == KwTable(r)
             c == FileTable(r, "setup.cfg")
  <2>1. files[1] = a /\ files[2] = b /\ files[3] = c
    BY DEF FileTables
  <2>2. a \in Table /\ b \in Table /\ c \in Table
    BY TablesOf
  <2> HIDE DEF files, a, b, c
  <2>3. AddedHonest(AddGroups(NothingYet, a), {} \cup {a})
    BY <2>2, NoneAdded, GroupsAdded
  <2>4. AddedHonest(AddGroups(AddGroups(NothingYet, a), b), ({} \cup {a}) \cup {b})
    BY <2>2, <2>3, GroupsAdded
  <2>5. AddedHonest(AddGroups(AddGroups(AddGroups(NothingYet, a), b), c),
                    (({} \cup {a}) \cup {b}) \cup {c})
    BY <2>2, <2>4, GroupsAdded
  <2>6. (({} \cup {a}) \cup {b}) \cup {c} = three
    BY DEF a, b, c
  <2>7. QED
    BY <2>1, <2>5, <2>6
<1> HIDE DEF base, three
<1> DEFINE S == {k \in Nat : k <= n => AddedHonest(eps[k], Upto(k))}
<1>4. 0 \in S
  <2>1. Upto(0) = three
    OBVIOUS
  <2>2. QED
    BY <1>2, <1>3, <2>1
<1>5. ASSUME NEW k \in Nat, k \in S
      PROVE  k + 1 \in S
  <2> SUFFICES ASSUME k + 1 <= n
               PROVE  AddedHonest(eps[k + 1], Upto(k + 1))
    OBVIOUS
  <2>1. k <= n /\ k + 1 \in 1..n /\ (k + 1) - 1 = k /\ k + 1 \in Nat
    BY <1>1
  <2>2. AddedHonest(eps[k], Upto(k))
    BY <1>5, <2>1
  <2>3. eps[k + 1] = AddGroups(eps[k], EggTable(r, k + 1))
    BY <1>2, <2>1
  <2>4. EggTable(r, k + 1) \in Table
    BY <2>1, TablesOf
  <2>5. Upto(k + 1) = Upto(k) \cup {EggTable(r, k + 1)}
    <3>1. \A i : i \in 1..k + 1 <=> i \in 1..k \/ i = k + 1
      BY <2>1
    <3>2. QED
      BY <3>1
  <2> HIDE DEF Upto
  <2>6. QED
    BY <2>2, <2>3, <2>4, <2>5, GroupsAdded
<1>6. \A k \in Nat : k \in S /\ k <= n => AddedHonest(eps[k], Upto(k))
  OBVIOUS
<1> HIDE DEF S
<1>7. Nat \subseteq S
  BY <1>4, <1>5, AllNaturals
<1>8. AddedHonest(eps[n], Upto(n))
  <2>1. n \in S /\ n <= n
    BY <1>1, <1>7
  <2> HIDE DEF Upto
  <2>2. QED
    BY <1>1, <1>6, <2>1
<1>9. Tables(r) = Upto(n) \cup {FlitTable(r)}
  BY <1>1 DEF Tables, three
<1> HIDE DEF Upto
<1>10. QED
  BY <1>2, <1>8, <1>9, TablesOf, GroupsAdded

\* A place beyond the first n has n before it.
LEMMA PlaceBeyond ==
    ASSUME NEW places, IsFiniteSet(places), places \subseteq Nat, NEW n \in Nat,
           NEW i \in places \ FirstPlaces(places, n)
    PROVE  Cardinality(places) > n
<1> DEFINE before == {j \in places : j < i}
           few == Cardinality(before)
           all == Cardinality(places)
<1>1. IsFiniteSet(before) /\ few \in Nat /\ ~(few < n)
  BY FS_Subset, FS_CardinalityType DEF FirstPlaces
<1>2. i \notin before
  OBVIOUS
<1>3. IsFiniteSet(before \cup {i}) /\ Cardinality(before \cup {i}) = few + 1
  BY <1>1, <1>2, FS_AddElement
<1>4. Cardinality(before \cup {i}) <= all
  BY FS_Subset
<1>5. all \in Nat
  BY FS_CardinalityType
<1> HIDE DEF few, all, before
<1>6. QED
  BY <1>1, <1>3, <1>4, <1>5 DEF all

\* What was not read is named, whichever way it was not read (ep_unknown).
LEMMA EpUnknownOf ==
    ASSUME NEW r, MetadataRead(r)
    PROVE  /\ EpUnknown(r) \in Seq(UnknownItems)
           /\ EpsUnread(r) => EpUnknown(r) # <<>>
<1> DEFINE reasons == WhyUnread(r, Files) \cup {FlitState(r)} \cup EggReasons(r)
           why == UnreadList(reasons)
           directive == Says(IsRead(r, "setup.cfg") /\ r.directive, "directive")
           many == Cardinality(EggsFound(r)) > MaxEggEps
           eggs == Says(many, "not read")
           own == FlitState(r) \in {"computed", "not one", "missing"}
           flit == Says(own, "flit file")
           dynamic == Says(IsRead(r, "pyproject.toml") /\ r.dynamic, "dynamic")
<1>1. why \in Seq(UnknownItems) /\ (why = <<>> <=> reasons \cap Reasons = {})
  <2>1. why \in Seq(Reasons) /\ (why = <<>> <=> reasons \cap Reasons = {})
    BY UnreadListOf
  <2>2. Reasons \subseteq UnknownItems
    BY DEF UnknownItems
  <2> HIDE DEF why
  <2>3. why \in Seq(UnknownItems)
    <3>1. why \in [1..Len(why) -> Reasons] /\ Len(why) \in Nat
      BY <2>1
    <3>2. why \in [1..Len(why) -> UnknownItems]
      BY <2>2, <3>1
    <3>3. QED
      BY <3>1, <3>2
  <2>4. QED
    BY <2>1, <2>3
<1>2. /\ "directive" \in UnknownItems /\ "not read" \in UnknownItems
      /\ "flit file" \in UnknownItems /\ "dynamic" \in UnknownItems
  BY DEF UnknownItems
<1>3. /\ directive \in Seq(UnknownItems)
      /\ directive = <<>> <=> ~(IsRead(r, "setup.cfg") /\ r.directive)
  BY <1>2, SaysOf, Zenon
<1>4. eggs \in Seq(UnknownItems) /\ (eggs = <<>> <=> ~many)
  BY <1>2, SaysOf, Zenon
<1>5. flit \in Seq(UnknownItems) /\ (flit = <<>> <=> ~own)
  BY <1>2, SaysOf, Zenon
<1>6. /\ dynamic \in Seq(UnknownItems)
      /\ dynamic = <<>> <=> ~(IsRead(r, "pyproject.toml") /\ r.dynamic)
  BY <1>2, SaysOf, Zenon
<1>7. EpUnknown(r) = (((why \o directive) \o eggs) \o flit) \o dynamic
  BY DEF EpUnknown
<1>8. /\ EpUnknown(r) \in Seq(UnknownItems)
      /\ EpUnknown(r) = <<>> => /\ why = <<>> /\ directive = <<>> /\ eggs = <<>>
                                /\ flit = <<>> /\ dynamic = <<>>
  <2> HIDE DEF why, directive, eggs, flit, dynamic
  <2>1. /\ why \o directive \in Seq(UnknownItems)
        /\ why \o directive = <<>> <=> why = <<>> /\ directive = <<>>
    BY <1>1, <1>3, Appended
  <2> DEFINE a == why \o directive
             b == a \o eggs
             c == b \o flit
  <2> HIDE DEF a
  <2>2. b \in Seq(UnknownItems) /\ (b = <<>> <=> a = <<>> /\ eggs = <<>>)
    BY <1>4, <2>1, Appended DEF a
  <2> HIDE DEF b
  <2>3. c \in Seq(UnknownItems) /\ (c = <<>> <=> b = <<>> /\ flit = <<>>)
    BY <1>5, <2>2, Appended
  <2> HIDE DEF c
  <2>4. /\ c \o dynamic \in Seq(UnknownItems)
        /\ c \o dynamic = <<>> <=> c = <<>> /\ dynamic = <<>>
    BY <1>6, <2>3, Appended
  <2>5. EpUnknown(r) = c \o dynamic
    BY <1>7 DEF a, b, c
  <2>6. QED
    BY <2>1, <2>2, <2>3, <2>4, <2>5 DEF a
<1> DEFINE E == [state : {"read"} \cup Reasons, table : TableRead]
<1>9. /\ r.eggs \in Seq(E) /\ Len(r.eggs) \in Nat /\ DOMAIN r.eggs = 1..Len(r.eggs)
      /\ EggsFound(r) \subseteq 1..Len(r.eggs) /\ 1..Len(r.eggs) \subseteq Nat
      /\ IsFiniteSet(EggsFound(r)) /\ MaxEggEps \in Nat
  <2>1. r.eggs \in Seq(E)
    BY DEF MetadataRead
  <2> HIDE DEF E
  <2>2. Len(r.eggs) \in Nat /\ DOMAIN r.eggs = 1..Len(r.eggs)
    BY <2>1
  <2>3. EggsFound(r) \subseteq 1..Len(r.eggs)
    BY <2>2 DEF EggsFound
  <2>4. IsFiniteSet(1..Len(r.eggs))
    BY <2>2, FS_Interval
  <2>5. QED
    BY <2>1, <2>2, <2>3, <2>4, FS_Subset, ItemsAssumption
<1>10. \A i \in DOMAIN r.eggs : r.eggs[i].state \in {"read"} \cup Reasons
  <2>1. \A e \in E : e.state \in {"read"} \cup Reasons
    OBVIOUS
  <2> HIDE DEF E
  <2>2. \A i \in DOMAIN r.eggs : r.eggs[i] \in E
    BY <1>9
  <2>3. QED
    BY <2>1, <2>2
<1>11. \A i \in DOMAIN r.eggs \ EggsFound(r) : reasons \cap Reasons # {}
  <2>1. "too large" \in Reasons
    BY DEF Reasons
  <2>2. QED
    BY <2>1 DEF EggsFound, EggReasons
<1>12. CASE WhyUnread(r, Files) # {}
  <2>1. WhyUnread(r, Files) \subseteq Reasons
    BY DEF WhyUnread
  <2>2. reasons \cap Reasons # {}
    BY <1>12, <2>1
  <2> HIDE DEF reasons, why
  <2>3. QED
    BY <1>1, <1>8, <2>2
<1>13. CASE Len(r.eggs) > MaxEggEps
  <2>1. CASE EggsFound(r) = DOMAIN r.eggs
    <3>1. Cardinality(1..Len(r.eggs)) = Len(r.eggs)
      BY <1>9, FS_Interval
    <3>2. many
      BY <1>9, <1>13, <2>1, <3>1
    <3> HIDE DEF many, eggs
    <3>3. QED
      BY <1>4, <1>8, <3>2
  <2>2. CASE EggsFound(r) # DOMAIN r.eggs
    <3>1. reasons \cap Reasons # {}
      BY <1>9, <1>11, <2>2
    <3> HIDE DEF reasons, why
    <3>2. QED
      BY <1>1, <1>8, <3>1
  <2>3. QED
    BY <2>1, <2>2
<1>14. CASE \E e \in ToSet(r.eggs) : e.state # "read"
  <2>1. PICK i \in DOMAIN r.eggs : r.eggs[i].state # "read"
    BY <1>14 DEF ToSet
  <2>2. CASE i \in EggsRead(r) \/ i \notin EggsFound(r)
    <3>1. r.eggs[i].state \in EggReasons(r) /\ r.eggs[i].state \in Reasons
      BY <1>10, <2>1, <2>2 DEF EggReasons
    <3>2. reasons \cap Reasons # {}
      BY <3>1
    <3> HIDE DEF reasons, why
    <3>3. QED
      BY <1>1, <1>8, <3>2
  <2>3. CASE i \in EggsFound(r) /\ i \notin EggsRead(r)
    <3>1. i \in EggsFound(r) \ FirstPlaces(EggsFound(r), MaxEggEps)
      BY <2>3 DEF EggsRead
    <3>2. many
      BY <1>9, <3>1, PlaceBeyond
    <3> HIDE DEF many, eggs
    <3>3. QED
      BY <1>4, <1>8, <3>2
  <2>4. QED
    BY <2>2, <2>3
<1>15. CASE Backend(r) = "flit" /\ r.flit.state \notin {"absent", "read"}
  <2>1. FlitState(r) = r.flit.state
    BY <1>15 DEF FlitState
  <2>2. r.flit.state \in {"computed", "not one", "missing"} \/ r.flit.state \in Reasons
    BY <1>15 DEF MetadataRead
  <2>3. own \/ reasons \cap Reasons # {}
    BY <2>1, <2>2
  <2> HIDE DEF own, reasons, why, flit
  <2>4. QED
    BY <1>1, <1>5, <1>8, <2>3
<1>16. CASE \/ r.directive /\ IsRead(r, "setup.cfg")
            \/ r.dynamic /\ IsRead(r, "pyproject.toml")
  <2> HIDE DEF directive, dynamic
  <2>1. QED
    BY <1>3, <1>6, <1>8, <1>16
<1>17. EpsUnread(r) => EpUnknown(r) # <<>>
  BY <1>12, <1>13, <1>14, <1>15, <1>16, Zenon DEF EpsUnread
<1>18. QED
  BY <1>8, <1>17

\* What cannot be read comes from no setup.py that is absent.
LEMMA SetupAbsent ==
    ASSUME NEW r, MetadataRead(r), ~Present(r), NEW files \in SUBSET Files,
           "setup.py" \in files, WhyUnread(r, files) = {}
    PROVE  r.state["setup.py"] = "absent"
<1>1. r.state["setup.py"] \in {"absent", "read"} \cup Reasons
  BY DEF MetadataRead, Files
<1>2. r.state["setup.py"] \notin Reasons
  BY DEF WhyUnread
<1>3. QED
  BY <1>1, <1>2 DEF Present

\* The lines of the entry points are honest (_entry_points_lines).
LEMMA EntryLineOf ==
    ASSUME NEW r, MetadataRead(r), NEW g \in {"commands", "plugins"},
           NEW c, c = InSight(EntryLine(r, g), 0)
    PROVE  /\ EpsUnread(r) => c.shown \cap UnknownItems # {}
           /\ ((\E t \in Tables(r) : t.kind = "computed") \/ "computed" \in Readable(r, g))
                  => c.shown \cap (UnknownItems \cup {"computed"}) # {}
           /\ Cardinality(Readable(r, g) \ (c.shown \cup {"computed"})) <= c.more \/ c.cut
           /\ c.says = "none" =>
                  r.state["setup.py"] = "absent" /\ ~EpsUnread(r) /\ Readable(r, g) = {}
<1> DEFINE f == EntryLine(r, g)
           eps == EntryPoints(r)
           slot == eps[g]
           kept == slot.kept
           seen == Readable(r, g)
           unknown == EpUnknown(r)
           yes == eps.computed \/ "computed" \in ToSet(kept)
           computed == Says(yes, "computed")
           items == unknown \o computed \o kept
<1>1. Honest(slot, seen) /\ ((\E t \in Tables(r) : t.kind = "computed") => eps.computed)
  <2>1. AddedHonest(eps, Tables(r))
    BY EntryPointsOf
  <2>2. Entries(Tables(r), g) = Readable(r, g)
    BY DEF Entries, Readable
  <2>3. Honest(eps.commands, Entries(Tables(r), "commands"))
        /\ Honest(eps.plugins, Entries(Tables(r), "plugins"))
        /\ ((\E t \in Tables(r) : t.kind = "computed") => eps.computed)
    BY <2>1 DEF AddedHonest
  <2> HIDE DEF eps
  <2>4. QED
    BY <2>2, <2>3
<1>2. f = Join(items, OwnNone(r), slot.more)
  BY DEF EntryLine
<1>3. /\ slot \in Slot /\ kept \in Seq(Texts) /\ slot.more \in Nat /\ IsFiniteSet(seen)
      /\ "computed" \in seen => "computed" \in ToSet(kept)
      /\ seen # {} => kept # <<>>
      /\ Cardinality(seen \ ToSet(kept)) <= slot.more
  BY <1>1 DEF Honest, Slot
<1>4. /\ unknown \in Seq(UnknownItems) /\ unknown \in Seq(Texts)
      /\ EpsUnread(r) => unknown # <<>>
  <2>1. unknown \in Seq(UnknownItems) /\ (EpsUnread(r) => unknown # <<>>)
    BY EpUnknownOf
  <2> HIDE DEF unknown
  <2>2. unknown \in [1..Len(unknown) -> UnknownItems] /\ Len(unknown) \in Nat
    BY <2>1
  <2>3. unknown \in [1..Len(unknown) -> Texts]
    BY <2>2 DEF Texts
  <2>4. QED
    BY <2>1, <2>2, <2>3
<1>5. /\ computed \in Seq(Texts) /\ (computed = <<>> <=> ~yes)
      /\ yes => computed[1] = "computed"
  <2>1. "computed" \in Texts
    BY DEF Texts
  <2>2. QED
    BY <2>1, SaysOf, Zenon
<1> HIDE DEF eps, slot, kept, seen, unknown, yes, computed, f
<1> DEFINE told == unknown \o computed
<1>6. /\ told \in Seq(Texts) /\ (told = <<>> <=> unknown = <<>> /\ computed = <<>>)
      /\ unknown # <<>> => told[1] = unknown[1]
      /\ unknown = <<>> => told = computed
  BY <1>4, <1>5, Appended
<1> HIDE DEF told
<1>7. /\ items \in Seq(Texts) /\ (items = <<>> <=> told = <<>> /\ kept = <<>>)
      /\ told # <<>> => items[1] = told[1]
      /\ ToSet(items) = ToSet(told) \cup ToSet(kept)
  BY <1>3, <1>6, Appended DEF told
<1> HIDE DEF items
<1>8. /\ Field(f)
      /\ f.says = IF items = <<>> THEN OwnNone(r) ELSE "items"
      /\ items # <<>> => 1 \in DOMAIN f.listed /\ f.listed[1] = items[1]
      /\ IsFiniteSet(ToSet(items) \ ListedItems(f))
      /\ Cardinality(ToSet(items) \ ListedItems(f)) + slot.more <= f.more
  <2> DEFINE empty == OwnNone(r)
             extra == slot.more
  <2>1. items \in Seq(Texts) /\ extra \in Nat /\ f = Join(items, empty, extra)
    BY <1>2, <1>3, <1>7
  <2> HIDE DEF empty, extra
  <2>2. /\ Field(f)
        /\ f.says = IF items = <<>> THEN empty ELSE "items"
        /\ items # <<>> => 1 \in DOMAIN f.listed /\ f.listed[1] = items[1]
        /\ IsFiniteSet(ToSet(items) \ ListedItems(f))
        /\ Cardinality(ToSet(items) \ ListedItems(f)) + extra <= f.more
    BY <2>1, JoinOf
  <2>3. QED
    BY <2>2 DEF empty, extra
<1>9. /\ items # <<>> => items[1] \in c.shown
      /\ ~c.cut => c.shown = ListedItems(f) /\ c.more = f.more
      /\ c.says = "none" => f.says = "none"
  <2>1. c = InSight(f, 0)
    BY DEF f
  <2>2. /\ ~c.cut => c.shown = ListedItems(f) /\ c.more = f.more
        /\ 1 \in DOMAIN f.listed => f.listed[1] \in c.shown
    BY <1>8, <2>1, InSightOf
  <2>3. c.says = "none" => f.says = "none"
    BY <2>1, SeenOf
  <2>4. QED
    BY <1>8, <2>2, <2>3
<1>10. unknown # <<>> => c.shown \cap UnknownItems # {}
  <2> SUFFICES ASSUME unknown # <<>>
               PROVE  c.shown \cap UnknownItems # {}
    OBVIOUS
  <2>1. unknown[1] \in UnknownItems
    BY <1>4
  <2>2. QED
    BY <1>6, <1>7, <1>9, <2>1
<1>11. yes => c.shown \cap (UnknownItems \cup {"computed"}) # {}
  <2>1. CASE unknown # <<>>
    BY <1>10, <2>1
  <2>2. CASE unknown = <<>>
    BY <1>5, <1>6, <1>7, <1>9, <2>2
  <2>3. QED
    BY <2>1, <2>2
<1>12. ((\E t \in Tables(r) : t.kind = "computed") \/ "computed" \in seen) => yes
  BY <1>1, <1>3, Zenon DEF yes
<1>13. Cardinality(seen \ (ListedItems(f) \cup {"computed"})) <= f.more
  <2> DEFINE left == seen \ ToSet(kept)
             hidden == ToSet(items) \ ListedItems(f)
             all == seen \ (ListedItems(f) \cup {"computed"})
  <2>1. all \subseteq left \cup hidden
    BY <1>7
  <2>2. IsFiniteSet(left) /\ IsFiniteSet(hidden)
    BY <1>3, <1>8, FS_Subset
  <2>3. IsFiniteSet(left \cup hidden)
        /\ Cardinality(left \cup hidden) =
              Cardinality(left) + Cardinality(hidden) - Cardinality(left \cap hidden)
    BY <2>2, FS_Union
  <2>4. IsFiniteSet(left \cap hidden)
    BY <2>2, FS_Subset
  <2>5. IsFiniteSet(all) /\ Cardinality(all) <= Cardinality(left \cup hidden)
    BY <2>1, <2>3, FS_Subset
  <2> DEFINE nl == Cardinality(left)
             nh == Cardinality(hidden)
             nb == Cardinality(left \cap hidden)
             nu == Cardinality(left \cup hidden)
             na == Cardinality(all)
  <2>6. nl \in Nat /\ nh \in Nat /\ nb \in Nat /\ nu \in Nat /\ na \in Nat
    BY <2>2, <2>3, <2>4, <2>5, FS_CardinalityType
  <2>7. nu = nl + nh - nb /\ na <= nu /\ nl <= slot.more /\ nh + slot.more <= f.more
    BY <1>3, <1>8, <2>3, <2>5
  <2> HIDE DEF nl, nh, nb, nu, na
  <2>8. na <= f.more
    BY <1>3, <1>8, <2>6, <2>7 DEF Field
  <2>9. QED
    BY <2>8 DEF na
<1>14. ~c.cut => Cardinality(seen \ (c.shown \cup {"computed"})) <= c.more
  BY <1>9, <1>13
<1>15. ASSUME c.says = "none"
       PROVE  r.state["setup.py"] = "absent" /\ ~EpsUnread(r) /\ seen = {}
  <2>1. items = <<>> /\ OwnNone(r) = "none"
    BY <1>8, <1>9, <1>15
  <2>2. unknown = <<>> /\ kept = <<>>
    BY <1>6, <1>7, <2>1
  <2>3. ~EpsUnread(r) /\ seen = {}
    BY <1>3, <1>4, <2>2
  <2>4. ~Present(r)
    BY <2>1 DEF OwnNone, NoneSaid
  <2>5. WhyUnread(r, Files) = {} /\ "setup.py" \in Files
    BY <2>3 DEF EpsUnread, Files
  <2>6. QED
    BY <2>3, <2>4, <2>5, SetupAbsent
<1>16. QED
  BY <1>4, <1>10, <1>11, <1>12, <1>15, <1>14 DEF seen

\* The names of the first k egg-infos that are read.
NamesUpto(r, k) == UNION {ToSet(r.tops[i].names) : i \in TopsRead(r) \cap 1..k}

\* The top-level files, each read or too large, and those that are read among them.
LEMMA TopsOf ==
    ASSUME NEW r, MetadataRead(r)
    PROVE  /\ Len(r.tops) \in Nat /\ DOMAIN r.tops = 1..Len(r.tops)
           /\ TopsRead(r) \subseteq TopsFound(r) /\ TopsFound(r) \subseteq 1..Len(r.tops)
           /\ \A i \in 1..Len(r.tops) :
                  r.tops[i].names \in Seq(Texts) /\ "comment" \notin ToSet(r.tops[i].names)
<1> DEFINE N == STRING \ {"comment"}
           T == [state : {"read", "too large"}, names : Seq(N)]
<1>1. r.tops \in Seq(T)
  BY DEF MetadataRead
<1>2. \A t \in T : t.names \in Seq(N)
  OBVIOUS
<1> HIDE DEF T
<1>3. Len(r.tops) \in Nat /\ DOMAIN r.tops = 1..Len(r.tops)
  BY <1>1
<1>4. \A i \in 1..Len(r.tops) : r.tops[i].names \in Seq(N)
  BY <1>1, <1>2, <1>3
<1>5. ASSUME NEW s \in Seq(N)
      PROVE  s \in Seq(Texts) /\ "comment" \notin ToSet(s)
  <2>1. N \subseteq Texts /\ "comment" \notin N
    BY DEF Texts
  <2> HIDE DEF N
  <2>2. s \in [1..Len(s) -> N] /\ Len(s) \in Nat
    OBVIOUS
  <2>3. s \in [1..Len(s) -> Texts]
    BY <2>1, <2>2
  <2>4. s \in Seq(Texts)
    BY <2>2, <2>3
  <2>5. "comment" \notin ToSet(s)
    BY <2>1, <2>2 DEF ToSet
  <2>6. QED
    BY <2>4, <2>5
<1>6. TopsRead(r) \subseteq TopsFound(r) /\ TopsFound(r) \subseteq 1..Len(r.tops)
  BY <1>3 DEF TopsRead, TopsFound, FirstPlaces
<1> HIDE DEF N
<1>7. QED
  BY <1>3, <1>4, <1>5, <1>6

\* The slot of the top-level names, file by file.
LEMMA TopNamesByFile ==
    ASSUME NEW r, MetadataRead(r)
    PROVE  \E names : /\ TopNames(r) = names[Len(r.tops)] /\ names[0] = NothingYet.commands
                      /\ \A k \in 1..Len(r.tops) :
                             names[k] = IF k \in TopsRead(r)
                                        THEN Collect(names[k - 1], r.tops[k].names)
                                        ELSE names[k - 1]
<1> DEFINE n == Len(r.tops)
           base == NothingYet.commands
           Next1(v, k) == IF k \in TopsRead(r) THEN Collect(v, r.tops[k].names) ELSE v
           step == [i \in Nat |-> [v \in Slot |-> Next1(v, i)]]
<1>1. n \in Nat
  BY TopsOf
<1>2. base \in Slot
  <2>1. NothingYet \in Added
    BY NoneAdded DEF AddedHonest
  <2>2. QED
    BY <2>1 DEF Added
<1>3. ASSUME NEW i \in Nat, NEW v \in Slot
      PROVE  Next1(v, i) \in Slot
  <2>1. i \in TopsRead(r) => r.tops[i].names \in Seq(Texts)
    BY TopsOf
  <2>2. QED
    BY <2>1, CollectType
<1>4. ASSUME NEW i \in Nat, NEW v \in Slot
      PROVE  step[i][v] \in Slot /\ step[i][v] = Next1(v, i)
  <2> HIDE DEF Next1
  <2>1. QED
    BY <1>3
<1> HIDE DEF step, base, n
<1>5. PICK f \in [0..n -> Slot] : f[0] = base /\ \A i \in 1..n : f[i] = step[i][f[i - 1]]
  <2> HIDE DEF Next1
  <2>1. \A k \in Nat : \E f : Iterates(f, Slot, base, step, k)
    BY <1>2, <1>4, Iterated
  <2>2. QED
    BY <1>1, <2>1 DEF Iterates
<1>6. ASSUME NEW i \in 0..n, i # 0
      PROVE  f[i] = Next1(f[i - 1], i)
  <2> HIDE DEF Next1
  <2>1. i \in 1..n /\ i \in Nat /\ i - 1 \in 0..n
    BY <1>1, <1>6
  <2>2. f[i] = step[i][f[i - 1]] /\ f[i - 1] \in Slot
    BY <1>5, <2>1
  <2>3. QED
    BY <1>4, <2>1, <2>2
<1>7. f = [k \in 0..Len(r.tops) |->
             IF k = 0 THEN base
             ELSE IF k \in TopsRead(r) THEN Collect(f[k - 1], r.tops[k].names) ELSE f[k - 1]]
  BY <1>5, <1>6 DEF n
<1>8. \E g : g = [k \in 0..Len(r.tops) |->
             IF k = 0 THEN base
             ELSE IF k \in TopsRead(r) THEN Collect(g[k - 1], r.tops[k].names) ELSE g[k - 1]]
  BY <1>7, Zenon
<1> DEFINE names == CHOOSE g : g = [k \in 0..Len(r.tops) |->
             IF k = 0 THEN base
             ELSE IF k \in TopsRead(r) THEN Collect(g[k - 1], r.tops[k].names) ELSE g[k - 1]]
<1>9. names = [k \in 0..Len(r.tops) |->
             IF k = 0 THEN base
             ELSE IF k \in TopsRead(r)
                  THEN Collect(names[k - 1], r.tops[k].names) ELSE names[k - 1]]
  BY <1>8, Zenon
<1>10. TopNames(r) = names[Len(r.tops)]
  BY Zenon DEF TopNames, base
<1> HIDE DEF names
<1>11. names[0] = base
  BY <1>1, <1>9 DEF n
<1>12. ASSUME NEW k \in 1..Len(r.tops)
       PROVE  names[k] = IF k \in TopsRead(r)
                         THEN Collect(names[k - 1], r.tops[k].names) ELSE names[k - 1]
  <2>1. k \in 0..Len(r.tops) /\ k # 0
    BY <1>1 DEF n
  <2>2. QED
    BY <1>9, <2>1
<1>13. QED
  BY <1>10, <1>11, <1>12 DEF base

\* The slot is honest about the names that are read.
LEMMA TopNamesOf ==
    ASSUME NEW r, MetadataRead(r)
    PROVE  Honest(TopNames(r), NamesRead(r))
<1> DEFINE n == Len(r.tops)
<1>1. PICK names : /\ TopNames(r) = names[n] /\ names[0] = NothingYet.commands
                   /\ \A k \in 1..n : names[k] = IF k \in TopsRead(r)
                                                 THEN Collect(names[k - 1], r.tops[k].names)
                                                 ELSE names[k - 1]
  BY TopNamesByFile
<1> DEFINE S == {k \in Nat : k <= n => Honest(names[k], NamesUpto(r, k))}
<1>2. n \in Nat /\ TopsRead(r) \subseteq 1..n
  BY TopsOf
<1>3. 0 \in S
  <2>1. NamesUpto(r, 0) = {}
    BY DEF NamesUpto
  <2>2. NothingYet.commands = [kept |-> <<>>, more |-> 0]
    BY DEF NothingYet
  <2>3. QED
    BY <1>1, <2>1, <2>2, NothingHonest
<1>4. ASSUME NEW k \in Nat, k \in S
      PROVE  k + 1 \in S
  <2> SUFFICES ASSUME k + 1 <= n
               PROVE  Honest(names[k + 1], NamesUpto(r, k + 1))
    OBVIOUS
  <2>1. k <= n /\ k + 1 \in 1..n /\ (k + 1) - 1 = k
    BY <1>2
  <2>2. Honest(names[k], NamesUpto(r, k))
    BY <1>4, <2>1
  <2>3. \A i : i \in 1..k + 1 <=> i \in 1..k \/ i = k + 1
    BY <2>1
  <2>4. CASE k + 1 \in TopsRead(r)
    <3> DEFINE new == r.tops[k + 1].names
    <3>1. names[k + 1] = Collect(names[k], new)
      BY <1>1, <2>1, <2>4
    <3>2. new \in Seq(Texts) /\ "comment" \notin ToSet(new)
      BY <2>1, TopsOf
    <3>3. NamesUpto(r, k + 1) = NamesUpto(r, k) \cup ToSet(new)
      BY <2>3, <2>4 DEF NamesUpto
    <3> HIDE DEF new
    <3>4. NamesUpto(r, k + 1) = NamesUpto(r, k) \cup (ToSet(new) \ {"comment"})
      BY <3>2, <3>3
    <3>5. Honest(Collect(names[k], new), NamesUpto(r, k) \cup (ToSet(new) \ {"comment"}))
      BY <2>2, <3>2, TableCollected
    <3>6. QED
      BY <3>1, <3>4, <3>5, Zenon
  <2>5. CASE k + 1 \notin TopsRead(r)
    <3>1. names[k + 1] = names[k]
      BY <1>1, <2>1, <2>5
    <3>2. NamesUpto(r, k + 1) = NamesUpto(r, k)
      BY <2>3, <2>5 DEF NamesUpto
    <3>3. QED
      BY <2>2, <3>1, <3>2
  <2>6. QED
    BY <2>4, <2>5
<1>5. \A k \in Nat : k \in S /\ k <= n => Honest(names[k], NamesUpto(r, k))
  OBVIOUS
<1> HIDE DEF S
<1>6. Nat \subseteq S
  BY <1>3, <1>4, AllNaturals
<1>7. Honest(names[n], NamesUpto(r, n))
  <2>1. n \in S /\ n <= n
    BY <1>2, <1>6
  <2>2. QED
    BY <1>2, <1>5, <2>1
<1>8. TopsRead(r) \cap 1..n = TopsRead(r)
  BY <1>2
<1>9. QED
  BY <1>1, <1>7, <1>8 DEF NamesUpto, NamesRead

\* The line of the top-level names is honest.
LEMMA TopLevelOf ==
    ASSUME NEW r, MetadataRead(r), NEW f, f = TopLevel(r)
    PROVE  /\ (\E t \in ToSet(r.tops) : t.state # "read") \/ Len(r.tops) > MaxEggEps =>
                  ListedItems(f) \cap UnknownItems # {}
           /\ Cardinality(NamesRead(r) \ ListedItems(f)) <= f.more
           /\ Field(f)
<1> DEFINE slot == TopNames(r)
           kept == slot.kept
           seen == NamesRead(r)
           some == TopsFound(r) # DOMAIN r.tops
           many == Cardinality(TopsFound(r)) > MaxEggEps
           large == Says(some, "too large")
           rest == Says(many, "not read")
           unread == large \o rest
           items == unread \o kept
<1>1. /\ slot \in Slot /\ kept \in Seq(Texts) /\ slot.more \in Nat /\ IsFiniteSet(seen)
      /\ Cardinality(seen \ ToSet(kept)) <= slot.more
  <2>1. Honest(slot, seen)
    BY TopNamesOf
  <2> HIDE DEF slot, seen
  <2>2. QED
    BY <2>1 DEF Honest, Slot
<1>2. f = Join(items, "not found", slot.more)
  BY DEF TopLevel, TopsUnread
<1>3. "too large" \in UnknownItems /\ "not read" \in UnknownItems
  BY DEF UnknownItems, Reasons
<1>4. large \in Seq(UnknownItems) /\ (large = <<>> <=> ~some)
  BY <1>3, SaysOf, Zenon
<1>5. rest \in Seq(UnknownItems) /\ (rest = <<>> <=> ~many)
  BY <1>3, SaysOf, Zenon
<1>6. (\E t \in ToSet(r.tops) : t.state # "read") \/ Len(r.tops) > MaxEggEps => some \/ many
  <2>1. DOMAIN r.tops = 1..Len(r.tops) /\ Len(r.tops) \in Nat
    BY TopsOf
  <2>2. (\E t \in ToSet(r.tops) : t.state # "read") => some
    BY DEF ToSet, TopsFound
  <2>3. Cardinality(1..Len(r.tops)) = Len(r.tops)
    BY <2>1, FS_Interval
  <2>4. Len(r.tops) > MaxEggEps => some \/ many
    BY <2>1, <2>3
  <2>5. QED
    BY <2>2, <2>4
<1> HIDE DEF slot, kept, seen, some, many, large, rest
<1>7. unread \in Seq(UnknownItems) /\ (unread = <<>> <=> large = <<>> /\ rest = <<>>)
  BY <1>4, <1>5, Appended
<1> HIDE DEF unread
<1>8. unread \in Seq(Texts)
  <2>1. unread \in [1..Len(unread) -> UnknownItems] /\ Len(unread) \in Nat
    BY <1>7
  <2>2. unread \in [1..Len(unread) -> Texts]
    BY <2>1 DEF Texts
  <2>3. QED
    BY <2>1, <2>2
<1>9. /\ items \in Seq(Texts) /\ (items = <<>> <=> unread = <<>> /\ kept = <<>>)
      /\ unread # <<>> => items[1] = unread[1]
      /\ ToSet(items) = ToSet(unread) \cup ToSet(kept)
  BY <1>1, <1>8, Appended
<1> HIDE DEF items
<1>10. /\ Field(f)
       /\ items # <<>> => items[1] \in ListedItems(f)
       /\ IsFiniteSet(ToSet(items) \ ListedItems(f))
       /\ Cardinality(ToSet(items) \ ListedItems(f)) + slot.more <= f.more
  <2> DEFINE extra == slot.more
             empty == "not found"
  <2>1. items \in Seq(Texts) /\ extra \in Nat /\ f = Join(items, empty, extra)
    BY <1>1, <1>2, <1>9
  <2> HIDE DEF extra, empty
  <2>2. /\ Field(f)
        /\ items # <<>> => 1 \in DOMAIN f.listed /\ f.listed[1] = items[1]
        /\ IsFiniteSet(ToSet(items) \ ListedItems(f))
        /\ Cardinality(ToSet(items) \ ListedItems(f)) + extra <= f.more
    BY <2>1, JoinOf
  <2>3. items # <<>> => items[1] \in ListedItems(f)
    BY <2>2 DEF ListedItems
  <2>4. QED
    BY <2>2, <2>3 DEF extra
<1>11. some \/ many => ListedItems(f) \cap UnknownItems # {}
  <2> SUFFICES ASSUME some \/ many
               PROVE  ListedItems(f) \cap UnknownItems # {}
    OBVIOUS
  <2>1. unread # <<>>
    BY <1>4, <1>5, <1>7
  <2>2. unread[1] \in UnknownItems
    BY <1>7, <2>1
  <2>3. QED
    BY <1>9, <1>10, <2>1, <2>2
<1>12. Cardinality(seen \ ListedItems(f)) <= f.more
  <2> DEFINE left == seen \ ToSet(kept)
             hidden == ToSet(items) \ ListedItems(f)
             all == seen \ ListedItems(f)
  <2>1. all \subseteq left \cup hidden
    BY <1>9
  <2>2. IsFiniteSet(left) /\ IsFiniteSet(hidden)
    BY <1>1, <1>10, FS_Subset
  <2>3. IsFiniteSet(left \cup hidden)
        /\ Cardinality(left \cup hidden) =
              Cardinality(left) + Cardinality(hidden) - Cardinality(left \cap hidden)
    BY <2>2, FS_Union
  <2>4. IsFiniteSet(left \cap hidden)
    BY <2>2, FS_Subset
  <2>5. IsFiniteSet(all) /\ Cardinality(all) <= Cardinality(left \cup hidden)
    BY <2>1, <2>3, FS_Subset
  <2> DEFINE nl == Cardinality(left)
             nh == Cardinality(hidden)
             nb == Cardinality(left \cap hidden)
             nu == Cardinality(left \cup hidden)
             na == Cardinality(all)
  <2>6. nl \in Nat /\ nh \in Nat /\ nb \in Nat /\ nu \in Nat /\ na \in Nat
    BY <2>2, <2>3, <2>4, <2>5, FS_CardinalityType
  <2>7. nu = nl + nh - nb /\ na <= nu /\ nl <= slot.more /\ nh + slot.more <= f.more
    BY <1>1, <1>10, <2>3, <2>5
  <2> HIDE DEF nl, nh, nb, nu, na
  <2>8. na <= f.more
    BY <1>1, <1>10, <2>6, <2>7 DEF Field
  <2>9. QED
    BY <2>8 DEF na
<1>13. (\E t \in ToSet(r.tops) : t.state # "read") \/ Len(r.tops) > MaxEggEps =>
           ListedItems(f) \cap UnknownItems # {}
  BY <1>6, <1>11, Zenon
<1>14. QED
  BY <1>10, <1>12, <1>13 DEF seen

\* What the metadata declares is a list.
LEMMA DeclaredOf ==
    ASSUME NEW r, MetadataRead(r), NEW f \in Fields
    PROVE  /\ Kw(r, f) \in Seq(Texts) /\ Toml(r, f) \in Seq(Texts) /\ Cfg(r, f) \in Seq(Texts)
           /\ Items(Kw(r, f)) \in Seq(Texts) /\ Items(Toml(r, f)) \in Seq(Texts)
           /\ Items(Cfg(r, f)) \in Seq(Texts)
<1>1. ASSUME NEW s \in Seq(STRING)
      PROVE  s \in Seq(Texts)
  <2>1. s \in [1..Len(s) -> STRING] /\ Len(s) \in Nat
    OBVIOUS
  <2>2. s \in [1..Len(s) -> Texts]
    BY <2>1 DEF Texts
  <2>3. QED
    BY <2>1, <2>2
<1>2. r.py[f] \in Seq(STRING) /\ r.toml[f] \in Seq(STRING) /\ r.cfg[f] \in Seq(STRING)
  BY DEF MetadataRead
<1>3. Undeclared \in Seq(Texts) /\ Computed \in Seq(Texts)
  <2>1. "absent" \in Texts /\ "computed" \in Texts
    BY DEF Texts
  <2>2. QED
    BY <2>1 DEF Undeclared, Computed
<1>4. Kw(r, f) \in Seq(Texts) /\ Toml(r, f) \in Seq(Texts) /\ Cfg(r, f) \in Seq(Texts)
  BY <1>1, <1>2, <1>3 DEF Kw, Toml, Cfg
<1>5. <<>> \in Seq(Texts)
  OBVIOUS
<1>6. QED
  BY <1>4, <1>5 DEF Items

\* The reasons are texts.
LEMMA UnreadTexts ==
    ASSUME NEW reasons
    PROVE  UnreadList(reasons) \in Seq(Texts)
<1> DEFINE why == UnreadList(reasons)
<1>1. why \in Seq(Reasons)
  BY UnreadListOf
<1> HIDE DEF why
<1>2. why \in [1..Len(why) -> Reasons] /\ Len(why) \in Nat
  BY <1>1
<1>3. why \in [1..Len(why) -> Texts]
  BY <1>2 DEF Texts, UnknownItems
<1>4. why \in Seq(Texts)
  BY <1>2, <1>3
<1>5. QED
  BY <1>4 DEF why

\* "none" of a list that ends with why something was not read: all was, and there is no
\* setup.py.
LEMMA NoneMeans ==
    ASSUME NEW r, MetadataRead(r), NEW items \in Seq(Texts), NEW files \in SUBSET Files,
           "setup.py" \in files,
           NEW j, j = Join(items \o UnreadList(WhyUnread(r, files)), NoneSaid(r), 0),
           j.says = "none"
    PROVE  r.state["setup.py"] = "absent" /\ WhyUnread(r, files) = {}
<1> DEFINE why == UnreadList(WhyUnread(r, files))
           all == items \o why
<1>1. why \in Seq(Texts) /\ (why = <<>> <=> WhyUnread(r, files) \cap Reasons = {})
  BY UnreadTexts, UnreadListOf
<1> HIDE DEF why
<1>2. all \in Seq(Texts) /\ (all = <<>> <=> items = <<>> /\ why = <<>>)
  BY <1>1, Appended
<1>3. j = Join(all, NoneSaid(r), 0)
  BY DEF why
<1> HIDE DEF all
<1>4. j.says = IF all = <<>> THEN NoneSaid(r) ELSE "items"
  BY <1>3 DEF Join
<1>5. why = <<>> /\ NoneSaid(r) = "none"
  BY <1>2, <1>4
<1>6. WhyUnread(r, files) = {}
  BY <1>1, <1>5 DEF WhyUnread
<1>7. ~Present(r)
  BY <1>5 DEF NoneSaid
<1>8. QED
  BY <1>6, <1>7, SetupAbsent

\* What is seen of the line of the build.
LEMMA BuildLineOf ==
    ASSUME NEW r
    PROVE  /\ \E b : BuildLine(r)[3] = InSight(One(SetupPy(r)), b)
           /\ \E b : BuildLine(r)[4] = InSight(Cmdclass(r), b)
           /\ \E b : BuildLine(r)[5] = InSight(SetupRequires(r), b)
<1> DEFINE fields == <<One(Backend(r)), BackendPath(r), One(SetupPy(r)), Cmdclass(r), SetupRequires(r)>>
           before(k) == SumFunction([j \in 1..k - 1 |-> FieldWidth(fields[j])])
<1>1. BuildLine(r) = [k \in DOMAIN fields |-> InSight(fields[k], before(k))]
  BY DEF BuildLine, Line
<1>2. /\ DOMAIN fields = 1..5 /\ fields[3] = One(SetupPy(r)) /\ fields[4] = Cmdclass(r)
      /\ fields[5] = SetupRequires(r)
  OBVIOUS
<1> HIDE DEF fields, before
<1>3. \A k \in 1..5 : BuildLine(r)[k] = InSight(fields[k], before(k))
  BY <1>1, <1>2
<1>4. 3 \in 1..5 /\ 4 \in 1..5 /\ 5 \in 1..5
  OBVIOUS
<1>5. QED
  BY <1>2, <1>3, <1>4

\* "none" means none.
LEMMA NoneIsNoneOf ==
    ASSUME NEW r, MetadataRead(r)
    PROVE  NoneIsNone(r, Context(r))
<1> DEFINE c == Context(r)
<1>1. /\ c.setup_py = BuildLine(r)[3] /\ c.cmdclass = BuildLine(r)[4]
      /\ c.setup_requires = BuildLine(r)[5]
      /\ c.commands = InSight(EntryLine(r, "commands"), 0)
      /\ c.plugins = InSight(EntryLine(r, "plugins"), 0)
  BY DEF Context
<1> HIDE DEF c
<1>2. /\ c.setup_py.shown \subseteq {SetupPy(r)}
      /\ c.cmdclass.says = "none" => Cmdclass(r).says = "none"
      /\ c.setup_requires.says = "none" => SetupRequires(r).says = "none"
  <2> DEFINE one == One(SetupPy(r))
             f == Cmdclass(r)
             g == SetupRequires(r)
  <2>1. (\E b : c.setup_py = InSight(one, b)) /\ (\E b : c.cmdclass = InSight(f, b))
        /\ (\E b : c.setup_requires = InSight(g, b))
    BY <1>1, BuildLineOf
  <2>2. ListedItems(one) = {SetupPy(r)}
    BY DEF ListedItems, One
  <2> HIDE DEF one, f, g
  <2>3. c.setup_py.shown \subseteq ListedItems(one)
    BY <2>1, SeenOf
  <2>4. c.cmdclass.says = "none" => f.says = "none"
    BY <2>1, SeenOf
  <2>5. c.setup_requires.says = "none" => g.says = "none"
    BY <2>1, SeenOf
  <2>6. QED
    BY <2>2, <2>3, <2>4, <2>5 DEF f, g
<1>3. "absent" \in c.setup_py.shown => r.state["setup.py"] = "absent"
  BY <1>2 DEF SetupPy
<1>4. "not run" \in c.setup_py.shown =>
          r.state["setup.py"] # "too large" /\ WhyUnread(r, {"pyproject.toml"}) = {}
  BY <1>2 DEF SetupPy, Backend
<1>5. "cmdclass" \in Fields /\ "setup_requires" \in Fields /\ "setup.py" \in Files
      /\ "setup.cfg" \in Files
  BY DEF Fields, Files
<1>6. ASSUME c.cmdclass.says = "none"
      PROVE  r.state["setup.py"] = "absent" /\ WhyUnread(r, Files) = {}
  <2> DEFINE x == Items(Kw(r, "cmdclass"))
             y == Items(Toml(r, "cmdclass"))
             z == Items(Cfg(r, "cmdclass"))
             items == (x \o y) \o z
             f == Cmdclass(r)
  <2>1. x \in Seq(Texts) /\ y \in Seq(Texts) /\ z \in Seq(Texts)
    BY <1>5, DeclaredOf
  <2>2. f = Join(items \o UnreadList(WhyUnread(r, Files)), NoneSaid(r), 0)
    BY DEF Cmdclass
  <2>3. f.says = "none"
    BY <1>2, <1>6
  <2> HIDE DEF x, y, z
  <2>4. items \in Seq(Texts)
    BY <2>1
  <2> HIDE DEF items, f
  <2>5. QED
    BY <1>5, <2>2, <2>3, <2>4, NoneMeans
<1>7. ASSUME c.setup_requires.says = "none"
      PROVE  r.state["setup.py"] = "absent" /\ WhyUnread(r, {"setup.cfg"}) = {}
  <2> DEFINE x == Items(Kw(r, "setup_requires"))
             y == Items(Cfg(r, "setup_requires"))
             items == x \o y
             f == SetupRequires(r)
             files == {"setup.py", "setup.cfg"}
  <2>1. x \in Seq(Texts) /\ y \in Seq(Texts)
    BY <1>5, DeclaredOf
  <2>2. f = Join(items \o UnreadList(WhyUnread(r, files)), NoneSaid(r), 0)
    BY DEF SetupRequires
  <2>3. f.says = "none"
    BY <1>2, <1>7
  <2> HIDE DEF x, y
  <2>4. items \in Seq(Texts)
    BY <2>1
  <2>5. files \in SUBSET Files /\ "setup.py" \in files
    BY <1>5
  <2> HIDE DEF items, files, f
  <2>6. r.state["setup.py"] = "absent" /\ WhyUnread(r, files) = {}
    BY <2>2, <2>3, <2>4, <2>5, NoneMeans
  <2>7. WhyUnread(r, {"setup.cfg"}) \subseteq WhyUnread(r, files)
    BY DEF WhyUnread, files
  <2>8. QED
    BY <2>6, <2>7
<1>8. ASSUME NEW g \in {"commands", "plugins"}, c[g].says = "none"
      PROVE  r.state["setup.py"] = "absent" /\ ~EpsUnread(r) /\ Readable(r, g) = {}
  <2>1. c[g] = InSight(EntryLine(r, g), 0)
    BY <1>1
  <2>2. QED
    BY <1>8, <2>1, EntryLineOf
<1>9. NoneIsNone(r, c)
  BY <1>3, <1>4, <1>6, <1>7, <1>8 DEF NoneIsNone
<1>10. QED
  BY <1>9 DEF c

\* What the packages and modules are told by is a list.
LEMMA ToldOf ==
    ASSUME NEW r, MetadataRead(r), NEW name \in {"packages", "modules"}
    PROVE  Declared(r, name) \in Seq(Texts)
<1>1. name \in Fields
  BY DEF Fields
<1>2. Undeclared \in Seq(Texts)
  <2>1. "absent" \in Texts
    BY DEF Texts
  <2>2. QED
    BY <2>1 DEF Undeclared
<1>3. QED
  BY <1>1, <1>2, DeclaredOf DEF Declared

\* What is discovered makes a field, after why not all of it was read.
LEMMA DiscoveredOf ==
    ASSUME NEW r, NEW names \in Seq(Texts)
    PROVE  Field(Discovered(r, names))
<1> DEFINE list == UnreadList(WhyUnread(r, Files))
           empty == ImportNone(r)
           j == Join(names, empty, 0)
           places == DOMAIN list \cup {Len(list) + k : k \in DOMAIN j.listed}
           d == Discovered(r, names)
<1>1. list \in Seq(Texts)
  BY UnreadTexts
<1>2. j = [listed |-> j.listed, more |-> j.more, says |-> j.says]
  BY DEF Join
<1>3. d.listed = PutAfter(list, j.listed) /\ d.more = j.more
  BY <1>2 DEF Discovered
<1>4. DOMAIN d.listed = places
  BY <1>3 DEF PutAfter
<1> HIDE DEF list, empty, d
<1>5. Field(j)
  BY JoinOf
<1> HIDE DEF j
<1>6. DOMAIN list = 1..Len(list) /\ Len(list) \in Nat
  BY <1>1
<1>7. IsFiniteSet(DOMAIN list)
  BY <1>6, FS_Interval
<1>8. IsFiniteSet({Len(list) + k : k \in DOMAIN j.listed})
  <2> DEFINE after == [k \in DOMAIN j.listed |-> Len(list) + k]
             image == {Len(list) + k : k \in DOMAIN j.listed}
  <2>1. after \in Surjection(DOMAIN j.listed, image)
    BY DEF Surjection
  <2>2. IsFiniteSet(DOMAIN j.listed)
    BY <1>5 DEF Field
  <2> HIDE DEF after, image
  <2>3. IsFiniteSet(image)
    BY <2>1, <2>2, FS_Surjection
  <2>4. QED
    BY <2>3 DEF image
<1>9. IsFiniteSet(places)
  BY <1>7, <1>8, FS_Union
<1>10. places \subseteq Nat \ {0}
  <2>1. DOMAIN j.listed \subseteq Nat \ {0}
    BY <1>5 DEF Field
  <2>2. QED
    BY <1>6, <2>1
<1> HIDE DEF places
<1>11. Field(d)
  BY <1>3, <1>4, <1>5, <1>9, <1>10 DEF Field
<1>12. QED
  BY <1>11 DEF d

\* The fields of that line are fields.
LEMMA ImportFields ==
    ASSUME NEW r, MetadataRead(r)
    PROVE  Field(Packages(r)) /\ Field(Modules(r)) /\ Field(TopLevel(r))
<1>1. Declared(r, "packages") \in Seq(Texts) /\ Declared(r, "modules") \in Seq(Texts)
  BY ToldOf
<1>2. r.found.packages \in Seq(Texts) /\ r.found.modules \in Seq(Texts)
  <2>1. ASSUME NEW s \in Seq(STRING)
        PROVE  s \in Seq(Texts)
    <3>1. s \in [1..Len(s) -> STRING] /\ Len(s) \in Nat
      OBVIOUS
    <3>2. s \in [1..Len(s) -> Texts]
      BY <3>1 DEF Texts
    <3>3. QED
      BY <3>1, <3>2
  <2>2. r.found.packages \in Seq(STRING) /\ r.found.modules \in Seq(STRING)
    BY DEF MetadataRead
  <2>3. QED
    BY <2>1, <2>2
<1>3. \A items \in Seq(Texts) : \A empty : Field(Join(items, empty, 0))
  BY JoinOf
<1>4. Field(Packages(r))
  BY <1>1, <1>2, <1>3, DiscoveredOf DEF Packages
<1>5. UnreadList(WhyUnread(r, Files)) \in Seq(Texts)
  BY UnreadTexts
<1>6. Field(Modules(r))
  BY <1>1, <1>2, <1>3, <1>5, DiscoveredOf DEF Modules
<1>7. QED
  BY <1>4, <1>6, TopLevelOf

\* What is seen of the line of what is imported.
LEMMA ImportLineOf ==
    ASSUME NEW r, MetadataRead(r)
    PROVE  /\ \E b \in Int : ImportLine(r)[1] = InSight(Packages(r), b)
           /\ \E b \in Int : ImportLine(r)[3] = InSight(TopLevel(r), b)
<1> DEFINE fields == <<Packages(r), Modules(r), TopLevel(r)>>
           widths(k) == [j \in 1..k - 1 |-> FieldWidth(fields[j])]
           before(k) == SumFunction(widths(k))
<1>1. ImportLine(r) = [k \in DOMAIN fields |-> InSight(fields[k], before(k))]
  BY DEF ImportLine, Line
<1>2. /\ DOMAIN fields = 1..3 /\ fields[1] = Packages(r) /\ fields[2] = Modules(r)
      /\ fields[3] = TopLevel(r)
  OBVIOUS
<1> HIDE DEF fields
<1>3. \A j \in 1..3 : Field(fields[j])
  BY <1>2, ImportFields
<1>4. \A j \in 1..3 : FieldWidth(fields[j]) \in Nat
  BY <1>3, WidthsOf
<1>5. ASSUME NEW k \in 1..3
      PROVE  before(k) \in Int
  <2> DEFINE w == widths(k)
  <2>1. DOMAIN w = 1..k - 1 /\ \A j \in 1..k - 1 : w[j] \in Int
    BY <1>4
  <2>2. IsFiniteSet(1..k - 1)
    BY FS_Interval
  <2> HIDE DEF w
  <2>3. SumFunction(w) \in Int
    BY <2>1, <2>2, SumType
  <2>4. QED
    BY <2>3 DEF w
<1> HIDE DEF before
<1>6. \A k \in 1..3 : ImportLine(r)[k] = InSight(fields[k], before(k))
  BY <1>1, <1>2
<1>7. 1 \in 1..3 /\ 3 \in 1..3
  OBVIOUS
<1>8. QED
  BY <1>2, <1>5, <1>6, <1>7

\* All packages are known only if none is computed and none is hidden.
LEMMA KnowsPackagesOf ==
    ASSUME NEW r, MetadataRead(r)
    PROVE  KnowsPackages(r, Context(r))
<1> DEFINE c == Context(r)
           p == c.packages
           d == Declared(r, "packages")
           j == Packages(r)
<1>1. c.known <=> PackagesKnown(r)
  BY Zenon DEF Context
<1>2. p = ImportLine(r)[1]
  BY DEF Context
<1>3. d \in Seq(Texts)
  BY ToldOf
<1> HIDE DEF p
<1>4. ~p.cut => p.more = j.more
  <2>1. PICK b \in Int : p = InSight(j, b)
    BY <1>2, ImportLineOf
  <2>2. Field(j)
    BY ImportFields
  <2> HIDE DEF j
  <2>3. QED
    BY <2>1, <2>2, InSightOf
<1>5. ASSUME PackagesKnown(r), j.more = 0
      PROVE  "computed" \notin ToSet(d)
  <2>1. CASE d = Undeclared
    BY <2>1 DEF Undeclared, ToSet
  <2>2. CASE d # Undeclared
    <3> DEFINE empty == NoneSaid(r)
    <3>1. j = Join(d, empty, 0)
      BY <2>2 DEF Packages
    <3>2. "computed" \notin ListedItems(j)
      BY <1>5, <2>2 DEF PackagesKnown
    <3> HIDE DEF j, d, empty
    <3>3. /\ IsFiniteSet(ToSet(d) \ ListedItems(j))
          /\ Cardinality(ToSet(d) \ ListedItems(j)) + 0 <= j.more
      BY <1>3, <3>1, JoinOf
    <3>4. Cardinality(ToSet(d) \ ListedItems(j)) \in Nat
      BY <3>3, FS_CardinalityType
    <3>5. Cardinality(ToSet(d) \ ListedItems(j)) = 0
      BY <1>5, <3>3, <3>4
    <3>6. ToSet(d) \ ListedItems(j) = {}
      BY <3>3, <3>5, FS_EmptySet
    <3>7. QED
      BY <3>2, <3>6
  <2>3. QED
    BY <2>1, <2>2
<1>6. PackagesKnown(r) => WhyUnread(r, Files) = {}
  BY DEF PackagesKnown
<1> HIDE DEF j, d, c
<1>7. c.known => /\ WhyUnread(r, Files) = {}
                 /\ p.more = 0 /\ ~p.cut => "computed" \notin ToSet(d)
  BY <1>1, <1>4, <1>5, <1>6
<1>8. QED
  BY <1>7 DEF KnowsPackages, c, p, d

\* The block keeps what it promises.
LEMMA ContextOf ==
    ASSUME NEW r, MetadataRead(r)
    PROVE  /\ NoneIsNone(r, Context(r)) /\ EntryPointsHonest(r, Context(r))
           /\ TopLevelHonest(r, Context(r)) /\ KnowsPackages(r, Context(r))
<1> DEFINE c == Context(r)
<1>1. /\ c.commands = InSight(EntryLine(r, "commands"), 0)
      /\ c.plugins = InSight(EntryLine(r, "plugins"), 0)
      /\ c.top_level = ImportLine(r)[3]
  BY DEF Context
<1> HIDE DEF c
<1>2. \A g \in {"commands", "plugins"} : c[g] = InSight(EntryLine(r, g), 0)
  BY <1>1
<1>3. EntryPointsHonest(r, c)
  BY <1>2, EntryLineOf DEF EntryPointsHonest
<1>4. TopLevelHonest(r, c)
  <2> DEFINE f == TopLevel(r)
             s == c.top_level
  <2>1. PICK b \in Int : s = InSight(f, b)
    BY <1>1, ImportLineOf
  <2>2. /\ (\E t \in ToSet(r.tops) : t.state # "read") \/ Len(r.tops) > MaxEggEps =>
               ListedItems(f) \cap UnknownItems # {}
        /\ Cardinality(NamesRead(r) \ ListedItems(f)) <= f.more
        /\ Field(f)
    BY TopLevelOf
  <2> HIDE DEF f, s
  <2>3. ~s.cut => s.shown = ListedItems(f) /\ s.more = f.more
    BY <2>1, <2>2, InSightOf
  <2>4. /\ (\E t \in ToSet(r.tops) : t.state # "read") \/ Len(r.tops) > MaxEggEps =>
               s.shown \cap UnknownItems # {} \/ s.cut
        /\ Cardinality(NamesRead(r) \ s.shown) <= s.more \/ s.cut
    BY <2>2, <2>3
  <2>5. QED
    BY <2>4 DEF TopLevelHonest, s
<1>5. QED
  BY <1>3, <1>4, NoneIsNoneOf, KnowsPackagesOf DEF c

-----------------------------------------------------------------------------
(* The decisions, as they are asked for: Decisions.                        *)

\* What was decided is the answer to a case.
AnsweredInv ==
    done => /\ task = "input" =>
                  given \in InputCases /\ answer = Prepare(given.diff, given.cap)
            /\ task = "review" => given \in ReviewCases /\ answer = Review(given)
            /\ task = "baseline" => given \in BaselineCases
            /\ task = "chain" =>
                  given \in ChainCases /\ answer = Gate(given.verdict, given.shown)
            /\ task = "context" => given \in ContextCases /\ answer = Context(given)
            /\ task = "deps" => given \in DepCases /\ answer = ScreenAddedDeps(given.deps)
            /\ task = "diff" => /\ given \in DiffCases
                                /\ answer = ScanOf(given.sdist, given.prior)
            /\ task = "triage" => given \in TriageCases
            /\ task = "merge" => /\ given \in MergeCases
                                 /\ answer = Analyzed(given.rules, given.facts, given.claims)
            /\ task = "classes" => given \in FileCases /\ answer = Classify(given)
            /\ task = "endpoint" => given \in EndpointCases /\ answer = InputCapChars(given)

\* The decisions proved about answer the case they were given.
LEMMA Answered == Spec => []AnsweredInv
<1>1. Init => AnsweredInv
  BY DEF Init, AnsweredInv
<1>2. AnsweredInv /\ [Next]_vars => AnsweredInv'
  <2> SUFFICES ASSUME AnsweredInv, [Next]_vars
               PROVE  AnsweredInv'
    OBVIOUS
  <2>1. CASE JudgeReview
    BY <2>1 DEF JudgeReview, Asked, Answer, AnsweredInv
  <2>2. CASE PickBaseline
    BY <2>2 DEF PickBaseline, Asked, Answer, AnsweredInv
  <2>3. CASE CapInput
    BY <2>3 DEF CapInput, Asked, Answer, AnsweredInv
  <2>4. CASE PrepareInput
    BY <2>4 DEF PrepareInput, Asked, Answer, AnsweredInv
  <2>5. CASE GateChain
    BY <2>5 DEF GateChain, Asked, Answer, AnsweredInv
  <2>6. CASE ScreenDeps
    BY <2>6 DEF ScreenDeps, Asked, Answer, AnsweredInv
  <2>7. CASE DiffRelease
    BY <2>7 DEF DiffRelease, Asked, Answer, AnsweredInv
  <2>8. CASE ScoreRelease
    BY <2>8 DEF ScoreRelease, Asked, Answer, AnsweredInv
  <2>9. CASE MergeScores
    BY <2>9 DEF MergeScores, Asked, Answer, AnsweredInv
  <2>10. CASE BuildContext
    BY <2>10 DEF BuildContext, Asked, Answer, AnsweredInv
  <2>11. CASE ClassifyFiles
    BY <2>11 DEF ClassifyFiles, Asked, Answer, AnsweredInv
  <2>12. CASE UNCHANGED vars
    BY <2>12 DEF vars, AnsweredInv
  <2>13. QED
    BY <2>1, <2>2, <2>3, <2>4, <2>5, <2>6, <2>7, <2>8, <2>9, <2>10, <2>11, <2>12 DEF Next
<1>3. QED
  BY <1>1, <1>2, PTL DEF Spec

\* Whatever the models reply, silence and the malicious alert each rest on the last
\* word of a model, and a warning is not lost on the way: for any replies, floors
\* and gate (validate_verdict, review_text, _call, _record).
THEOREM JudgedOnWord == Spec => []WordDecides
<1>1. AnsweredInv => WordDecides
  <2> SUFFICES ASSUME AnsweredInv, task = "review", done
               PROVE  /\ SilentOnWord(given, answer)
                      /\ AlarmOnEvidence(given, answer)
                      /\ WarningKept(given, answer)
    BY DEF WordDecides
  <2>1. given \in ReviewCases /\ answer = Review(given)
    BY DEF AnsweredInv
  <2>2. given.primary.confidence \in Int /\ given.second.confidence \in Int
    BY <2>1, ReviewAssumption
  <2>3. QED
    BY <2>1, <2>2, OneReviewDecided
<1>2. QED
  BY <1>1, Answered, PTL

\* However a project's history has grown, a scan that is retried compares with the
\* predecessor the first scan would have taken (_pick_predecessor).
THEOREM BaselineKept == Spec => []BaselineStays
<1>1. AnsweredInv => BaselineStays
  <2> SUFFICES ASSUME AnsweredInv, task = "baseline", done
               PROVE  SameBaseline(given.history, given.after, given.version)
    BY DEF BaselineStays
  <2>1. LaterLook(given.history, given.after, given.version)
    BY BaselineAssumption DEF AnsweredInv
  <2>2. QED
    BY <2>1, SameCandidates DEF SameBaseline
<1>2. QED
  BY <1>1, Answered, PTL

\* Every endpoint, of any speed, density and window, is sent something, and never
\* so much that its window has no room for the answer it is asked for (_cap_terms,
\* _max_tokens_for).
THEOREM RoomForBoth == Spec => []WindowShared
<1>1. AnsweredInv => WindowShared
  <2> SUFFICES ASSUME AnsweredInv, task = "endpoint", done
               PROVE  AnswerFits(given, answer) /\ NotStarved(given, answer)
    BY DEF WindowShared
  <2>1. given \in Endpoints /\ answer = InputCapChars(given)
    BY EndpointAssumption DEF AnsweredInv
  <2>2. QED
    BY <2>1, WindowSharedOf
<1>2. QED
  BY <1>1, Answered, PTL

\* Whatever lookups fail or are capped, in whatever order the answers come, only names
\* the release adds are reported and a name is passed over only on an answer that
\* clears it (screen_added_deps).
THEOREM ScreenedOnData == Spec => []DepsScreened
<1>1. AnsweredInv => DepsScreened
  <2> SUFFICES ASSUME AnsweredInv, task = "deps", done
               PROVE  /\ OnlyAdded(given.deps, given.really, answer)
                      /\ ClearedByData(given.deps, answer)
    BY DEF DepsScreened
  <2>1. answer = ScreenAddedDeps(given.deps) /\ ListsKnown(given.deps, given.really)
    BY DepsAssumption DEF AnsweredInv
  <2>2. QED
    BY <2>1, DepsScreenedOf
<1>2. QED
  BY <1>1, Answered, PTL

\* Whatever the rules and the facts, one fact or one rule more never lowers a score; and
\* whatever a worker claims, what the parent can score itself counts in full and the claims
\* about the rest add no more than they claim (score, load_rules, _with_parent_rules).
\* What only the worker saw it may leave out.
THEOREM ScoreOnlyGrows == Spec => []NothingTakenOut
<1>1. AnsweredInv => NothingTakenOut
  <2>1. ASSUME AnsweredInv, task = "triage", done
        PROVE  NeverTakenOut(given.files, given.facts)
    <3>1. RulesRead(given.files) /\ FactsBuilt(given.facts)
      BY <2>1, TriageAssumption DEF AnsweredInv
    <3>2. QED
      BY <3>1, NeverTaken
  <2>2. ASSUME AnsweredInv, task = "merge", done
        PROVE  ParentDecides(given.rules, given.facts, given.claims, answer)
    <3>1. /\ RulesLoaded(given.rules) /\ FactsBuilt(given.facts)
          /\ \A id \in DOMAIN given.claims : given.claims[id] \in Int
          /\ answer = Analyzed(given.rules, given.facts, given.claims)
      BY <2>2, MergeAssumption DEF AnsweredInv
    <3>2. QED
      BY <3>1, ParentKnows
  <2>3. QED
    BY <2>1, <2>2 DEF NothingTakenOut
<1>2. QED
  BY <1>1, Answered, PTL

\* Whatever the files of a release and whatever names and imports them: each is classed
\* by metadata, by its place in the tree, or as what the shipped files, setup.py and the
\* __init__.py files that are found to run, taken in the archive's order, import
\* (classify, _references).
THEOREM RunsNoLater == Spec => []RunsAsSaid
<1>1. AnsweredInv => RunsAsSaid
  <2> SUFFICES ASSUME AnsweredInv, task = "classes", done
               PROVE  RunsWhenReached(given, answer)
    BY DEF RunsAsSaid
  <2>1. FilesListed(given) /\ answer = Classify(given)
    BY FilesAssumption DEF AnsweredInv
  <2>2. QED
    BY <2>1, ClassesRight
<1>2. QED
  BY <1>1, Answered, PTL

\* Whatever an update adds or changes, and however many files it does not change, is
\* scanned or recorded, foreign files up to their cap; except a source file that reads
\* line for line as before, or is empty (extract_download, build_diff).
THEOREM NothingDropsOut == Spec => []ChangesReported
<1>1. AnsweredInv => ChangesReported
  <2> SUFFICES ASSUME AnsweredInv, task = "diff", done
               PROVE  AllReported(given.sdist, given.prior, answer)
    BY DEF ChangesReported
  <2>1. /\ ArchiveListed(given.sdist) /\ ArchiveListed(given.prior)
        /\ SameFiles(given.sdist, given.prior)
        /\ answer = ScanOf(given.sdist, given.prior)
    BY DiffAssumption DEF AnsweredInv
  <2>2. QED
    BY <2>1, Reported
<1>2. QED
  BY <1>1, Answered, PTL

\* Whatever a release holds and whatever the cap, the text built for it fits, and a
\* release refused as too large is kept with its most important file and a size that
\* is larger than the cap (build_review_input, Reviewer.prepare).
THEOREM FitsTheCap == Spec => []InputWithinCap
<1>1. AnsweredInv => InputWithinCap
  <2> SUFFICES ASSUME AnsweredInv, task = "input", done
               PROVE  Fits(answer) /\ HoldsTop(given.diff, given.cap, answer)
    BY DEF InputWithinCap
  <2>1. /\ ReleaseListed(given.diff) /\ given.cap \in Nat
        /\ answer = Prepare(given.diff, given.cap)
    BY InputAssumption DEF AnsweredInv
  <2>2. QED
    BY <2>1, PreparedOf
<1>2. QED
  BY <1>1, Answered, PTL

\* Whatever a release holds and whatever the cap, each file a rule fired on, and each
\* that may run beside it, is shown to the model, or named or counted as not shown, and
\* not both (_rank_files, build_review_input).
THEOREM NoneUnseen == Spec => []NothingLeftUnsaid
<1>1. AnsweredInv => NothingLeftUnsaid
  <2> SUFFICES ASSUME AnsweredInv, task = "input", done
               PROVE  NothingUnseen(given.diff, answer)
    BY DEF NothingLeftUnsaid
  <2>1. /\ ReleaseListed(given.diff) /\ given.cap \in Nat
        /\ answer = Prepare(given.diff, given.cap)
    BY InputAssumption DEF AnsweredInv
  <2>2. QED
    BY <2>1, PreparedOf
<1>2. QED
  BY <1>1, Answered, PTL

\* Whatever chain a verdict quotes and whatever files were shown, it stands exactly if
\* one file holds one source group and one sink group, each with its evidence, that are
\* connected (gate, _gate_file: "so this is exactly 'some kept source group connects to
\* some kept sink group'").
THEOREM StandsOnOnePair == Spec => []ChainOfOnePair
<1>1. AnsweredInv => ChainOfOnePair
  <2> SUFFICES ASSUME AnsweredInv, task = "chain", done
               PROVE  answer = "stands" <=>
                          \E i \in DOMAIN given.shown : OnePair(given.verdict, given.shown[i])
    BY DEF ChainOfOnePair
  <2>1. FilesShown(given.shown) /\ answer = Gate(given.verdict, given.shown)
    BY ChainAssumption DEF AnsweredInv
  <2>2. QED
    BY <2>1, GateByPair
<1>2. QED
  BY <1>1, Answered, PTL

\* Whatever a release's metadata holds, wherever the caps fall and however wide its names
\* are, the model is never told that nothing is declared while a file that could declare
\* more was not read, nor shown a list as if it were whole: what is missing is counted,
\* or the line ends cut (execctx.py: build).
THEOREM ToldOfTheUnread == Spec => []ContextHonest
<1>1. AnsweredInv => ContextHonest
  <2> SUFFICES ASSUME AnsweredInv, task = "context", done
               PROVE  /\ NoneIsNone(given, answer) /\ EntryPointsHonest(given, answer)
                      /\ TopLevelHonest(given, answer) /\ KnowsPackages(given, answer)
    BY DEF ContextHonest
  <2>1. MetadataRead(given) /\ answer = Context(given)
    BY ContextAssumption DEF AnsweredInv
  <2>2. QED
    BY <2>1, ContextOf
<1>2. QED
  BY <1>1, Answered, PTL

=============================================================================
