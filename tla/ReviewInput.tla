----------------------------- MODULE ReviewInput -----------------------------
(***************************************************************************)
(* What the model gets to read: the selection and order of a release's     *)
(* files, the assembly of the review input under a character cap, and the  *)
(* input that is stored when the most important file does not fit          *)
(* (reviewer.py: _rank_files, build_review_input, Reviewer.prepare).       *)
(*                                                                         *)
(* The text itself is abstracted to lengths.  A file is a record: path (a  *)
(* number that stands for its place in path order), change, weight (its    *)
(* fired rules), cls (when it runs), build (its place in _BUILD_FILES, or  *)
(* 0), names (an added line names a flagged dependency), and the lengths   *)
(* hunks and whole of its two renderings (whole = 0: no candidate for a    *)
(* whole rendering) and line (of its line in the not-shown block).         *)
(***************************************************************************)
EXTENDS Integers, Sequences, FiniteSets, SequencesExt, Functions

CONSTANTS
    TopFiles,       \* _FIRST_RELEASE_TOP_FILES
    HooksShown,     \* _MAX_HOOK_SHOWN
    NamesShown      \* the lines of the not-shown block (40)

ASSUME ShownAssumption == {TopFiles, HooksShown, NamesShown} \subseteq Nat

Classes == <<"build", "startup", "import", "user-command", "plugin-host",
             "runtime-call", "not-shipped", "data", "inert">>
Runnable == {Classes[i] : i \in 1..6}
ClassRank(f) == CHOOSE i \in DOMAIN Classes : Classes[i] = f.cls

WholeFileMax == 4000
NoteReserve == 61           \* the longest of the three notes
MarkerLen == 51
NotShownHeading == 73

Smaller(m, n) == IF m <= n THEN m ELSE n

BlockCap(max) == IF max \div 8 < 1200 THEN 1200 ELSE max \div 8

-----------------------------------------------------------------------------
(* Selection and order: _rank_files.                                       *)

Unchanged(f) == f.change = "unchanged"
FitsWhole(f) == f.whole \in 1..WholeFileMax
Rendering(f) == IF FitsWhole(f) THEN f.whole ELSE f.hunks

Weighted(d) == {f \in d.files : f.weight > 0}

\* Among files of no weight the build files come first.
ZeroRank(f) == IF f.weight = 0 /\ f.build > 0 THEN f.build ELSE 4

FirstReleaseOrder(f, g) ==
    \/ f.weight > g.weight
    \/ /\ f.weight = g.weight
       /\ \/ ZeroRank(f) < ZeroRank(g)
          \/ ZeroRank(f) = ZeroRank(g) /\ f.path < g.path

RunOrder(f, g) ==
    \/ f.weight > g.weight
    \/ /\ f.weight = g.weight
       /\ \/ ClassRank(f) < ClassRank(g)
          \/ /\ ClassRank(f) = ClassRank(g)
             /\ \/ Rendering(f) < Rendering(g)
                \/ /\ Rendering(f) = Rendering(g)
                   /\ f.path < g.path

\* Build files first, then the files that name a flagged dependency.
BuildOrder(f, g) == \/ ZeroRank(f) < ZeroRank(g)
                    \/ ZeroRank(f) = ZeroRank(g) /\ f.path < g.path

Before(order, f, g) ==
    CASE order = "first" -> FirstReleaseOrder(f, g)
      [] order = "run" -> RunOrder(f, g)
      [] OTHER -> BuildOrder(f, g)

\* The files in their order: the place of each is how many come before it.
InOrder(files, order) ==
    [i \in 1..Cardinality(files) |->
        CHOOSE f \in files : Cardinality({g \in files : Before(order, g, f)}) = i - 1]

\* by_path: the changed files and the unchanged hook targets that may be shown.
Hooks(d) == SubSeq(d.hooks, 1, Smaller(HooksShown, Len(d.hooks)))
ByPath(d) == d.files \cup ToSet(Hooks(d))

\* What may run with the weighted files of an update.
Beside(d) ==
    {f \in ByPath(d) \ Weighted(d) :
        \/ Unchanged(f)
        \/ f.change \in {"added", "modified"} /\ f.cls \in Runnable}

\* ranked: the files offered to the cap, in this order; cut: selected, never offered.
RankFiles(d) ==
    LET all == InOrder(d.files, "first")
        top == SubSeq(all, 1, Smaller(TopFiles, Len(all)))
    IN  CASE d.first -> [ranked |-> top, cut |-> Weighted(d) \ ToSet(top), order |-> "first"]
          [] ~d.first /\ Weighted(d) = {} ->
                [ranked |-> InOrder({f \in ByPath(d) : f.build > 0 \/ f.names}, "build"),
                 cut |-> {}, order |-> "build"]
          [] OTHER ->
                [ranked |-> InOrder(Weighted(d), "run") \o InOrder(Beside(d), "run"),
                 cut |-> ToSet(d.hooks) \ ToSet(Hooks(d)), order |-> "run"]

-----------------------------------------------------------------------------
(* Assembly under the cap: build_review_input.                             *)

\* A context block of n characters held to cap (_render_block): its lines share
\* what the cap leaves, so that a block that is cut is exactly cap long.
Block(n, cap) == Smaller(n, cap)

\* "\n".join: one newline between the parts.
Joined(lengths) ==
    SumFunction(lengths) + (IF lengths = <<>> THEN 0 ELSE Len(lengths) - 1)

\* The parts before the files: flagged locations and description, execution
\* context, signals, then endpoints and unreadable files.
Part(n) == IF n > 0 THEN <<n>> ELSE <<>>
ContextParts(d, cap) ==
    Part(d.notes) \o Part(Block(d.exec, Smaller(4000, cap)))
        \o Part(Block(d.signals, Smaller(3000, cap)))
        \o Part(Block(d.unreadable, Smaller(3000, cap)))

\* "... (+N more)", with its newline and indentation: 13 characters and N's digits.
More(n) ==
    IF n <= NamesShown THEN 0
    ELSE 14 + Cardinality({k \in {10, 100, 1000, 10000} : k <= n - NamesShown})

\* The files of a block that have a line of their own: the first in rank order, those
\* cut before the others last.
Earlier(r, f, g) ==
    \/ f \notin r.cut /\ g \in r.cut
    \/ (f \in r.cut <=> g \in r.cut) /\ Before(r.order, f, g)
NamedIn(r, files) ==
    {f \in files : Cardinality({g \in files : Earlier(r, g, f)}) < NamesShown}

\* The lines of these files, each with its newline and indentation.
Lines(files) == SumFunction([f \in files |-> f.line + 3])

NotShownBlock(r, files, cap) ==
    Block(NotShownHeading + Lines(NamedIn(r, files)) + More(Cardinality(files)),
          Smaller(3000, cap))

Selected(r) == ToSet(r.ranked) \cup r.cut

\* Mutation: the room is kept for the first lines and not for the longest.
ReserveInOrder(r, cap) ==
    IF Selected(r) = {} THEN 0 ELSE NotShownBlock(r, Selected(r), cap) + 1

\* The most the not-shown block can take: of all the files, with the longest lines.
NotShownReserve(r, cap) ==
    LET longest == Max({Lines(some) : some \in {s \in SUBSET Selected(r) :
                                                  Cardinality(s) <= NamesShown}})
    IN  IF Selected(r) = {} THEN 0
        ELSE Block(NotShownHeading + longest + More(Cardinality(Selected(r))),
                   Smaller(3000, cap)) + 1

\* Mutation: a file left out is named only if a rule fired on it.
ListedIfWeighted(f) == f.weight > 0

\* Which files left out are named to the model.
Listed(f) == f.weight > 0 \/ f.cls \in Runnable \/ Unchanged(f)

\* One newline before a part, but for the first.
Gap(parts) == IF parts = <<>> THEN 0 ELSE 1

\* One ranked file: whole, else its hunks, else left out; without the most
\* important file nothing is rendered.
Place(s, f, ranked, max) ==
    LET gap == Gap(s.parts)
        n == IF s.used + Rendering(f) + gap > max /\ ~Unchanged(f)
             THEN f.hunks ELSE Rendering(f)
        wholeOnly == Unchanged(f) /\ ~FitsWhole(f)
    IN  CASE s.stopped -> s
          [] ~s.stopped /\ s.used + n + gap <= max /\ ~wholeOnly ->
                [s EXCEPT !.used = @ + n + gap, !.parts = Append(@, n),
                          !.shown = @ \cup {f}]
          [] ~s.stopped /\ s.used + n + gap > max /\ ~wholeOnly /\ f = ranked[1] ->
                [s EXCEPT !.truncated = TRUE, !.stopped = TRUE, !.skipped = ToSet(ranked)]
          [] OTHER ->
                [s EXCEPT !.truncated = @ \/ ~wholeOnly,
                          !.skipped = IF Listed(f) THEN @ \cup {f} ELSE @]

\* The context, and the room that is used up or kept before any file is rendered.
Start(d, cap) ==
    LET context == ContextParts(d, cap)
    IN  [used |-> d.header + Joined(context) + 1 + MarkerLen + NoteReserve
                    + NotShownReserve(RankFiles(d), cap),
         parts |-> context, shown |-> {}, skipped |-> {},
         truncated |-> FALSE, stopped |-> FALSE]

\* The ranked files, placed one by one.
PlaceAll(start, ranked, max) ==
    LET placed[n \in 0..Len(ranked)] ==
            IF n = 0 THEN start ELSE Place(placed[n - 1], ranked[n], ranked, max)
    IN  placed[Len(ranked)]
Assembled(d, max, cap) == PlaceAll(Start(d, cap), RankFiles(d).ranked, max)

\* The text of what was placed: the files shown, the selected ones named, or counted,
\* as not shown, and its length.
TextFor(d, r, end, cap) ==
    LET notShown == end.skipped \cup r.cut
        parts == IF notShown = {} THEN end.parts
                 ELSE Append(end.parts, NotShownBlock(r, notShown, cap))
        note == CASE end.truncated -> 61
                  [] ~end.truncated /\ d.files \subseteq end.shown -> 0
                  [] OTHER -> IF d.first THEN 54 ELSE 60
    IN  [shown |-> end.shown, notShown |-> notShown,
         length |-> d.header + Joined(parts) + 1 + MarkerLen + note]

\* The input for cap max, its context blocks held to cap.
ReviewText(d, max, cap) == TextFor(d, RankFiles(d), Assembled(d, max, cap), cap)

-----------------------------------------------------------------------------
(* Reviewer.prepare: the input, or what is stored as too large.            *)

\* Mutation: the blocks of the stored input scale with its own cap.
StoredScaled(d, needed, cap) == ReviewText(d, needed, BlockCap(needed))

\* The input stored for a model with a larger context, its context blocks at
\* the size they had when `needed` was measured.
StoredText(d, needed, cap) == ReviewText(d, needed, BlockCap(cap))

Prepare(d, cap) ==
    LET text == ReviewText(d, cap, BlockCap(cap))
        r == RankFiles(d)
        needed == text.length + NoteReserve + r.ranked[1].hunks + 1
                    + NotShownReserve(r, BlockCap(cap))
    IN  IF text.shown = {} /\ r.ranked # <<>>
        THEN [tooLarge |-> TRUE, needed |-> needed, text |-> StoredText(d, needed, cap)]
        ELSE [tooLarge |-> FALSE, needed |-> cap, text |-> text]

-----------------------------------------------------------------------------
(* What the answer promises, for a release d, a cap and an answer.         *)

\* The changed files of a release, and its unchanged hook targets: each has a path of
\* its own, and a weight only if it changed.
FileListed(f) ==
    /\ {f.path, f.weight, f.build, f.hunks, f.whole, f.line} \subseteq Nat
    /\ f.cls \in ToSet(Classes) /\ f.names \in BOOLEAN
    /\ f.change \in {"added", "modified", "removed", "unchanged"}
ReleaseListed(d) ==
    /\ IsFiniteSet(d.files) /\ d.hooks \in Seq(ToSet(d.hooks)) /\ d.first \in BOOLEAN
    /\ {d.header, d.notes, d.exec, d.signals, d.unreadable} \subseteq Nat
    /\ \A f \in d.files : FileListed(f) /\ ~Unchanged(f)
    /\ \A f \in ToSet(d.hooks) : FileListed(f) /\ Unchanged(f) /\ f.weight = 0
    /\ \A f, g \in d.files \cup ToSet(d.hooks) : f.path = g.path => f = g

\* The input fits what it was built for: the cap, or the size asked for.
Fits(answer) == answer.text.shown # {} => answer.text.length <= answer.needed

\* A file some rule fired on, and every other file that may run with it, is
\* shown, or named or counted as not shown, and only once.
NothingUnseen(d, answer) ==
    LET chosen == IF d.first THEN Weighted(d)
                  ELSE {f \in d.files \cup ToSet(d.hooks) :
                           /\ Weighted(d) # {}
                           /\ \/ f.weight > 0 \/ Unchanged(f)
                              \/ f.change # "removed" /\ f.cls \in Runnable}
    IN  /\ chosen \subseteq answer.text.shown \cup answer.text.notShown
        /\ answer.text.shown \cap answer.text.notShown = {}

\* What is stored as too large holds the most important file, and asks for more
\* than there was, when that file is one the release changed.
HoldsTop(d, cap, answer) ==
    LET top == RankFiles(d).ranked[1]
    IN  answer.tooLarge /\ ~Unchanged(top)
            => top \in answer.text.shown /\ answer.needed > cap

=============================================================================
