------------------------------ MODULE Decisions ------------------------------
(***************************************************************************)
(* The decisions DiffWatch takes on data alone, each computed once by one  *)
(* call on a case taken from the bounded sets below: no other process can  *)
(* interfere with them, so that what matters is the answer for each case.  *)
(***************************************************************************)
EXTENDS ReviewInput, ChainGate, DepScreen, ReleaseDiff, Triage, ReviewCall,
        ExecContext, FileClasses

CONSTANTS
    InputCases,         \* [diff, cap]: releases to build a review input of
    ChainCases,         \* [verdict, shown]: quoted chains and the code shown
    DepCases,           \* [deps, really]: declared dependencies
    BaselineCases,      \* [history, after, version]: two looks at one project
    DiffCases,          \* [sdist, prior]: archives to scan
    TriageCases,        \* [files, facts]: rule files and what a diff holds
    MergeCases,         \* [rules, facts, claims]: the same, and a worker's reply
    EndpointCases,      \* endpoints, as measured so far
    ReviewCases,        \* reviews sent and the replies to them
    ContextCases,       \* metadata of releases
    FileCases           \* files of releases, with what refers to them

\* A confidence is a number or NoNumber; lists of names are as they are declared, or
\* unknown; a second look is later than the first.
ASSUME InputAssumption == \A c \in InputCases : ReleaseListed(c.diff) /\ c.cap \in Nat
ASSUME ChainAssumption == \A c \in ChainCases : FilesShown(c.shown)
ASSUME ReviewAssumption ==
    \A r \in ReviewCases : {r.primary.confidence, r.second.confidence} \subseteq Int
ASSUME DepsAssumption == \A c \in DepCases : ListsKnown(c.deps, c.really)
ASSUME BaselineAssumption ==
    \A c \in BaselineCases : LaterLook(c.history, c.after, c.version)
ASSUME DiffAssumption ==
    \A c \in DiffCases : /\ ArchiveListed(c.sdist) /\ ArchiveListed(c.prior)
                         /\ SameFiles(c.sdist, c.prior)
ASSUME TriageAssumption == \A c \in TriageCases : RulesRead(c.files) /\ FactsBuilt(c.facts)
ASSUME MergeAssumption ==
    \A c \in MergeCases : /\ RulesLoaded(c.rules) /\ FactsBuilt(c.facts)
                          /\ \A id \in DOMAIN c.claims : c.claims[id] \in Int
ASSUME ContextAssumption == \A r \in ContextCases : MetadataRead(r)
ASSUME FilesAssumption == \A c \in FileCases : FilesListed(c)
ASSUME EndpointAssumption == EndpointCases \subseteq Endpoints

VARIABLES
    task,               \* which decision is asked
    given,              \* its case
    answer,             \* what was decided
    done

vars == <<task, given, answer, done>>

Init ==
    /\ task \in {"input", "chain", "deps", "baseline", "diff", "triage", "merge",
                 "endpoint", "review", "context", "classes"}
    /\ given = <<>> /\ answer = <<>> /\ done = FALSE

Asked(t) == task = t /\ ~done

\* The answer to the case c.
Answer(c, value) ==
    /\ given' = c
    /\ answer' = value
    /\ done' = TRUE
    /\ UNCHANGED task

PrepareInput ==
    Asked("input") /\ \E c \in InputCases : Answer(c, Prepare(c.diff, c.cap))
GateChain ==
    Asked("chain") /\ \E c \in ChainCases : Answer(c, Gate(c.verdict, c.shown))
ScreenDeps ==
    Asked("deps") /\ \E c \in DepCases : Answer(c, ScreenAddedDeps(c.deps))
PickBaseline ==
    /\ Asked("baseline")
    /\ \E c \in BaselineCases : Answer(c, PickPredecessor(c.history, c.version))
DiffRelease ==
    Asked("diff") /\ \E c \in DiffCases : Answer(c, ScanOf(c.sdist, c.prior))
ScoreRelease ==
    Asked("triage") /\ \E c \in TriageCases : Answer(c, Escalate(c.files, c.facts))
MergeScores ==
    Asked("merge") /\ \E c \in MergeCases : Answer(c, Analyzed(c.rules, c.facts, c.claims))
CapInput ==
    Asked("endpoint") /\ \E c \in EndpointCases : Answer(c, InputCapChars(c))
JudgeReview == Asked("review") /\ \E c \in ReviewCases : Answer(c, Review(c))
BuildContext == Asked("context") /\ \E c \in ContextCases : Answer(c, Context(c))
ClassifyFiles == Asked("classes") /\ \E c \in FileCases : Answer(c, Classify(c))

Next == \/ PrepareInput
        \/ GateChain
        \/ ScreenDeps
        \/ PickBaseline
        \/ DiffRelease
        \/ ScoreRelease
        \/ MergeScores
        \/ CapInput
        \/ JudgeReview
        \/ BuildContext
        \/ ClassifyFiles

Spec == Init /\ [][Next]_vars

-----------------------------------------------------------------------------
\* The text sent to the model, and the text kept for a larger one, is never
\* longer than the cap, or the size, it was built for; and a release refused as too
\* large is kept with its most important file, if the release changed that one, and
\* with a size no model so far had (build_review_input, InputTooLarge).
InputWithinCap ==
    task = "input" /\ done => Fits(answer) /\ HoldsTop(given.diff, given.cap, answer)

\* No file that fired a rule, or that may run beside it, is left out of the
\* model's sight without being named or counted (_rank_files, the not-shown block).
NothingLeftUnsaid == task = "input" /\ done => NothingUnseen(given.diff, answer)

\* A chain stands exactly when one file shows one source group and one sink
\* group, each with its evidence, that are connected: quoted lines repeated
\* elsewhere neither lend evidence nor connection to it (gate, _gate_file).
ChainOfOnePair ==
    task = "chain" /\ done =>
        (answer = "stands" <=>
            \E i \in DOMAIN given.shown : OnePair(given.verdict, given.shown[i]))

\* Whatever lookups fail or are capped, only names the release adds are
\* reported, and a name is passed over only on an answer that clears it
\* (screen_added_deps: "never cleared on no data").
DepsScreened ==
    task = "deps" /\ done =>
        /\ OnlyAdded(given.deps, given.really, answer)
        /\ ClearedByData(given.deps, answer)

\* A scan retried after newer releases came is compared with the predecessor the
\* first scan would have taken (_pick_predecessor).
BaselineStays ==
    task = "baseline" /\ done =>
        SameBaseline(given.history, given.after, given.version)

\* What an update adds, changes or removes is scanned, recorded, or the scan ends
\* without a result: nothing else drops out on the way than source whose lines, as
\* they are read, stay the same (extract_download, build_diff: "if hunks").
ChangesReported == task = "diff" /\ done => AllReported(given.sdist, given.prior, answer)

\* One more changed file or one more rule never takes a release out of review (score;
\* validate_rule rejects a negative weight).  A worker that lies about its scan cannot
\* touch what the parent scores itself, nor add more than it claims; what only it saw
\* it can leave out (_decode_output, _with_parent_rules).
NothingTakenOut ==
    /\ task = "triage" /\ done => NeverTakenOut(given.files, given.facts)
    /\ task = "merge" /\ done =>
           ParentDecides(given.rules, given.facts, given.claims, answer)

\* Every endpoint is sent what it can read and answer: neither a text that leaves
\* no room for the verdict, nor nothing at all (_cap_terms, _max_tokens_for).
WindowShared ==
    task = "endpoint" /\ done => AnswerFits(given, answer) /\ NotStarved(given, answer)

\* Through truncated replies, escalation, the gate and files left out, silence and
\* the malicious alert each rest on the last word of a model, and a warning is not
\* lost on the way (validate_verdict, review_text, _call, _record).
WordDecides ==
    task = "review" /\ done =>
        /\ SilentOnWord(given, answer)
        /\ AlarmOnEvidence(given, answer)
        /\ WarningKept(given, answer)

\* The model is never told that nothing is declared, or shown a list of entry points or
\* top-level names as if it were whole, while a file that could declare more was not
\* read or items are left out: a mark, a count or the cut of the line is in sight, for
\* unread entry points the mark itself (build, _collect, _entry_points_lines).
ContextHonest ==
    task = "context" /\ done =>
        /\ NoneIsNone(given, answer) /\ EntryPointsHonest(given, answer)
        /\ TopLevelHonest(given, answer) /\ KnowsPackages(given, answer)

\* No file that the release's own metadata or path runs early is presented as one that
\* runs later, in whatever order the archive holds them; imports are followed through
\* the __init__.py files in the archive's order, exactly once (classify, _references).
RunsAsSaid == task = "classes" /\ done => RunsWhenReached(given, answer)

=============================================================================
