# A formal model of pydiffwatch

pydiffwatch polls PyPI for new releases, diffs each one against its predecessor,
scores the difference with rules, and sends what scores high to a language model.
What the model, or a person, concludes is stored and alerted. It is a program of
many small commits: cron or `watch` starts a *tick* (`run_once`), a person runs
`review-pending`, `label` and `prune` beside it, any of them may be killed, and
PyPI and the model endpoint answer late, stale, or not at all. The promise behind
all of it is in the project's own words: a release that could not be looked at is
never dropped in silence.

This directory states that promise, and the ones it rests on, as TLA+ modules;
TLC checks them on small instances, and TLAPS proves the central ones for every
instance. `PROJECT.json` lists the components, the runs, the source lines every
definition models, the hazards, the findings and the theorems.

    tlc -workers 2 -config ReviewQueueTick.cfg MCReviewQueue      # one run
    tlapm ReviewQueueProofs.tla                                   # one proof module

## 1. The system

All sources are under `src/pydiffwatch/`. State is one SQLite database; every
function of `store.py` commits on its own, so two calls are never one step.

| component | state | operations | hard behaviour | correct when |
|---|---|---|---|---|
| review queue (`orchestrator.py`, `store.py`) | `releases`: stage, pending reason, input, attempts; `verdicts`, `alerts`, `adjudications`, evidence | park, drain (tick, by hand), attempt, record, exhaust, rebuild, label, prune | two drains of one row, a kill between two of eight commits, outages that must not count as attempts | a queued release keeps its input; a model's answer and a person's label are final; alerts agree with verdicts; every release ends with a model or a person |
| release scan and sweep (`orchestrator.py`, `fetcher.py`) | stage, `fetch_attempts`, `recheck_at` | process a listed release, retry sweep, give up, removals, waits for an sdist | stale JSON, a release removed or completed late, kills in the sweep | decided once, not given up early or late, called removed only after its grace (one that waits for its sdist: after its deadline, section 4), never forgotten |
| ingest cursor (`ingest.py`, `orchestrator.py`) | cursor, floor, backfill flag, holds | seed, poll the index, cap, move cursor and floor | lagging index, JSON that fails for one project, caps, kills before the cursor moves | no release after the start is passed without being listed or alerted, and the cursor catches up |
| project alerts and holds (`orchestrator.py`) | `ingest_holds`, the rows `<name>==*` | count a hold, alert an incident, re-open a labelled one | an incident repeated after a label | a label is about the incident it was given for |
| reviewer guard (`guard.py`) | `reviewer_stats`, one copy per batch | begin, probe, calibrate, admit, record success or timeout | two processes writing one row from copies; timeouts; slow endpoints | a paused endpoint gets no review; no pause lasts for ever |
| notifier (`notifier.py`) | `alerts` (dedupe key) | emit | committed alert, lost delivery | each finding alerts once |
| reviewer input (`reviewer.py`) | none | rank, assemble under the cap, `InputTooLarge` | many blocks share one cap | the input fits, nothing that may run is left out unsaid |
| chain gate (`chain.py`) | none | find quotes, group, evidence, connect | copies of quoted lines far apart | evidence and connection come from one place |
| dependency screening (`deps.py`) | none (a cache per call) | look up added names | lookups that fail or are capped | nothing is cleared for want of an answer |
| fetcher, differ (`fetcher.py`, `differ.py`) | none | predecessor, download, extract, diff | a history that grows between two attempts, limits, a prior that cannot be read | the same baseline on every attempt; every change of the text, as it is read, is reported |
| facts, rules, engine | the loaded rules | validate, load, score | malformed or negative rules, caps | nothing takes a release out of review |
| model backends (`backends.py`) | none | `complete`, `ping`, `context_length` | malformed answers | an unusable answer is a failed attempt, never a verdict; silence and alarm rest on the last word of a model |
| execution context (`execctx.py`) | none | say how the files run, class by class and field by field | files absent, too large, unparseable or computed; only the first items of a list are shown; several lists share a line that is cut; imports are followed in the archive's order | the model never reads "none", or a list as if it were whole, while something went unread; no file is said to run later than metadata, its path or a followed `__init__.py` makes it run |
| parse sandbox (`sandbox.py`, `_parse_worker.py`) | the backend in use; per call a worker, a timer, two threads | choose and probe, call a worker, check its reply, merge its score | the worker answers, dies, hangs, floods or is taken over; the timer races the reply; Ctrl-C | bytes are parsed only where the mode allows; a reply counts exactly when it is whole; nothing is left behind; a call ends; a lying worker changes nothing that the parent scores itself |
| host memory, egress guard, quarantine, dashboard, configuration, data classes | none that matters | refuse, allow, render, dispatch | - | - |

How they interact: a tick takes the *scan lock* (flock), drains the queue, sweeps
the retries, polls the index, scans what it lists, and moves the cursor and the floor
last. `review-pending` takes no scan lock, so it runs beside a tick on the same rows;
both take the *review lock* around a model call. Labels and `prune` take neither.
The guard decides before each call whether it is made and with which cap. Nothing is
called back and nothing is shared in memory: the components meet in the database.

## 2. The modules

| module | models | kind |
|---|---|---|
| `ReviewQueue` | the review queue, commit by commit | core |
| `ReleaseOutcome` | what the queue promises about a release | abstract specification |
| `ReviewQueueProofs` | types, the lock and the kept input of `ReviewQueue`, and how its rows map to `ReleaseOutcome` | proofs |
| `ReviewQueueAloneProofs` | `ReviewQueue` with one drain at a time, and that it implements `ReleaseOutcome` | proofs |
| `ReviewQueueAnyProofs` | what holds of `ReviewQueue` whichever drains overlap, and with two that share no reason | proofs |
| `ReleaseScan` | one release's stages up to the hand-over, and the sweep | core |
| `ReleaseScanProofs` | theorems about `ReleaseScan` | proofs |
| `IngestCursor` | index, cursor, floor, holds, project alerts | core |
| `IngestCursorProofs` | that no release is passed in silence | proofs |
| `ReviewerGuard` | breaker, pause, probes, two processes | core |
| `ReviewerGuardProofs` | theorems about `ReviewerGuard` | proofs |
| `Sandbox` | the choice of a sandbox and one call of its worker, with timer, threads and interrupt | core |
| `SandboxProofs` | theorems about `Sandbox` | proofs |
| `ReviewInput`, `ChainGate`, `DepScreen`, `ReleaseDiff`, `Triage`, `ReviewCall`, `ExecContext`, `FileClasses` | the decisions taken on data alone | pure operators |
| `Decisions` | one case of one of them, computed once | composition |
| `DecisionsProofs` | the review input, the replies, the baseline, what is scanned, the dependencies, the score, the window and what the model is told of them and when files run, for every case | proofs |
| `MC...` | constants of the instances | model checking |

An operator whose comment starts with "Mutation" is not part of the specification:
it is a definition as a plausible bug would make it, and substituting it must break
the property it is paired with (`PROJECT.json`, `mutants`).

### ReviewQueue

`row` is the database, `pc` and `job` are where each process is and its local
variables (the rows it read, the row in hand, the cap, the answer), `slot` is the
review lock. A step ends at a commit or at a read, so other actors run between any
two commits and `Kill` may stop a process there, which loses its locals and frees
its locks. `WalkRows` is the two drains' loop, `AttemptReview` is
`_attempt_review`, `Record` is `_record` (its order of clear, verdict, evidence,
alert and stage is the code's), `Scan` is the part of `_process_fetched` that parks,
and `Rebuild` is the re-scan of a row whose input is missing. A model's answer is one of
the outcomes that `_record` tells apart; texts are a number of characters, the input
fits or does not fit the cap; the guard's admission and the host's memory are
nondeterministic refusals.

`ReleaseOutcome` says what all this is for in seven actions: a release is queued, may go to
a person and be taken back, is judged at most once, and is condemned only after the
alert. `ImplementsOutcome` checks the refinement, for the tick alone; `QueueImplementsOutcome`
proves it for any one drain and `PairImplementsOutcome` for two that share no reason. With two drains of one reason it is
false (finding `queue_lost_verdict`).

### ReleaseScan

`pypi` is how each release is served (unpublished, wheels only, with sdist, gone),
`changed` the projects above the cursor, `row` the table, `job` the tick's locals. The actions
are the outcomes of one download followed by the commits of each branch of
`_process_fetched`, and the sweep that re-reads what is due. Time is what happens to
a re-check: `later` becomes `past`. The review queue is one stage, `queued`.

### IngestCursor

PyPI is a log of uploads; serials and times are positions in it. A poll reads a
copy of the index (possibly an older one), then the JSON of the projects whose
serial is above the cursor, each fresh, stale, failed or refused; caps cut the list;
the tick scans what was taken, records incidents, counts holds, and commits holds, floor
and cursor in this order. What is listed is scanned in the order of the
projects' serials (`InOrder`), and a cap takes the head of it and stops the cursor below
the rest. `since` remembers what the person asked for when the database was started.

### ReviewerGuard

`stats` is the shared row, `mem[p]` a guard's copy. Pauses have one length, so the
clock is the number of pauses that are over. `owed`, `slowRun` and `overlap` are
histories for the properties only.

### Sandbox

`tick` is one scanning command: it chooses a backend, with a probe of it, and then scans.
`call` is the main thread in `_run`, `threads` its timer, feeder and drainer, `worker`
the worker with the pipe to the parent and the child process that is killed and waited
for. The worker and the child are the same process under Seatbelt; under systemd the child
is only the client, so that a killed call can leave the unit running until
`RuntimeMaxSec`, with both pipes in its hands. A reply is a number of chunks, against a
cap in chunks, and what it says: a taken-over worker may say anything, close its output and
stay, or send for ever. A probe and a scan are the same call with other replies.

### Decisions

Each module has the decision as operators over records, text abstracted to what the
decision asks of it: a file is its weight, class and lengths; a line of code is its
names, reads, brackets and evidence; a lookup is what it brings; a reply is its keys, each
absent, odd or a value. `Decisions` takes a
case from a bounded set and computes the answer in one step, since no other process
can interfere. The promise is stated apart from the algorithm (`Fits`,
`NothingUnseen`, `HoldsTop`, `OnePair`, `OnlyAdded`, `ClearedByData`,
`SameBaseline`, `AllReported`, `NeverTakenOut`, `AnswerFits`, `NotStarved`, `SilentOnWord`,
`AlarmOnEvidence`, `WarningKept`, `ParentDecides`, `NoneIsNone`, `EntryPointsHonest`,
`TopLevelHonest`, `KnowsPackages`, `RunsWhenReached`). `ExecContext` takes every metadata file as
absent, too large, unparseable, malformed or read, and what it declares as a list of names
or "computed". Each field is what `_join` makes of such a list: the items listed, how many
more, or why there are none (`Join`). A line is its fields one after the other, and
`InSight` is what is left of a field when the line is cut at `_MAX_LINE`: the items that fit
whole, the count or the reason only if all of the field fits, and otherwise the cut, which the
code marks with an ellipsis. An item takes as much of a line as `Widths` says, 1 if it says
nothing. `FileClasses` takes the files in the archive's order with what names and
what imports them. `ReleaseDiff` gives a source file its content and, apart from it, its
lines as `_lines` reads them, none for an empty file: contents that differ can have the same lines. `Triage` has the score twice: as one scan computes it, and as the parent
merges it from a worker's claims. `ReviewCall` is one review from the cap to the row: how much
the endpoint is sent, what one or two replies amount to, and what is stored and alerted.

## 3. What is checked

| run | instance | shows |
|---|---|---|
| `queue_tick` | 2 releases, tick alone, 2 faults, 1 kill, fair | evidence for a person, tried often enough and warned when unreviewed, implements `ReleaseOutcome`, queue drains |
| `queue_both` | 1 release, both drains on one reason, a person, prune, 1 fault, 1 kill | one request at a time; a label, its verdict and its evidence survive |
| `queue_manual` | 2 releases, drains with disjoint reasons and different caps, a person | nothing is dropped, no input lost, verdict final, alerts and verdicts agree |
| `queue_killed` | 1 release, 1 kill | violates `NothingDropped` |
| `queue_lost_verdict` | 1 release, two drains | violates `VerdictFinal` |
| `scan` | 2 releases, 2 attempts, one kill or fault, fair | found again after a kill, reported and given up on time, grace before removal, decided, late sdist noticed |
| `scan_killed` | 1 release, 1 kill | violates `NeverForgotten` |
| `ingest` | 2 projects, 3 versions, 3 uploads, one upset, fair | neither cursor nor floor passes a release in silence, or behind a label given for an earlier incident; catches up |
| `guard` | 2 processes, 4 faults, 1 kill, fair | no review in a pause until batches overlap, two slow reviews to pause, resumes |
| `guard_overlap` | 2 processes, 1 fault | violates `PausedMeansPaused` |
| `sandbox` | every mode and sandbox, commands without end, replies up to two chunks over the cap, one interrupt, fair | parsed only where allowed, a reply counts when it is whole, nothing left, every call ends |
| `decisions` | 320 000 cases of eleven decisions | the promises of section 2 |

### Bounds

The bounds are constants of the modules and are in the guards. Two releases suffice for
the queue and the scan because rows meet only in the order and the limit of a query
(`MaxPerTick`, `PageSize`, `SweepLimit` are 1, so a limit always bites). Where two
drains overlap on one row, one release is enough: a drain holds one row at a time. Two attempts
are enough to reach, and not only to start at, the limit. `MaxFaults` and `MaxCrashes` bound what
the environment does; one kill at every commit boundary finds what a crash can do, since
a restarted process has no memory of an earlier one. `ReleaseScan` and `IngestCursor` have
one budget, `MaxUpsets`, for kills, faults and deletions together: a behaviour has one of
them, at any point. `ReviewerGuard` has four faults: a pause needs two slow
reviews, and a second pause two more. In `IngestCursor` the log is short (three uploads), but
caps of one project and one release, a margin and a lag of one entry make every branch
of the floor's arithmetic happen. In `decisions` the limits are small (two top files, one
hook shown, bridges and spans of one line, two lookups, three members) so that every
limit is reached from both sides, and the lengths are around the real caps. Metadata lists have up to four
items around a cap of two, and there are one egg-info more than are read; a line holds nine, and one name takes eight of it, so that each field of a line is seen whole, cut and pushed off. The archives have a file whose bytes change and whose lines do not, and an empty one. In `sandbox` a
pipe holds one chunk and the cap is two, so that the worker blocks on a full pipe and a
reply is read short of, at, and past the cap. `SeedCursor` also has the mode "now"; its instance is left out of `ingest` for its time.

### Fairness

Safety needs none. Liveness (`QueueDrains`, `Decided`, `LateSdistNoticed`, `CaughtUp`,
`Resumes`, `Ends`) assumes weak fairness of a tick or a drain as a whole, which is what cron or
`watch` gives: ticks are started for ever, and a running one goes on because every request
has a deadline (`fetch_deadline_s`, `packument_deadline_s`, the reviewer's timeout). Time
passes: `GraceEnds` and `PauseEnds` are fair. In `Sandbox` the parent's threads go on, its timer runs
out, and systemd stops a unit at `RuntimeMaxSec` and ends the client of a unit that is gone; the worker is
not fair in anything: it need not read, answer, or exit. No fairness is assumed of a person, of PyPI, of a
particular outcome, or against kills other than their bound.

## 4. What the runs found

Each is a run that TLC must find violated, with its trace; `PROJECT.json` quotes the
documentation.

1. `queue_killed`: `triaged` is committed before the release is parked; a kill in between leaves it where no drain, no sweep and no person finds it.
2. `queue_lost_verdict`: an overlapping drain that fails for the last time records UNREVIEWED over the model's answer.
3. `scan_killed`: the sweep takes a row out of its own query (`diffed`) before the scan is done.
4. `guard_overlap`: `admit` is asked before the wait for the review lock and not again after it.

Further behaviours of the code that were seen while modelling, and have no run of their own:

- Overlapping drains of one reason can lose a queued release's input; `queue_manual` therefore drains disjoint reasons. Disjoint reasons are enough only while the guard's caps agree: if memory makes the cap cross the size of one release between two ticks, the tick drains what `review-pending --reason too_large` has in hand, and the input, the verdict and the alert can all be lost (TLC finds each on the instance of `queue_manual` with the caps {1, 2} in place of {1}). The theorems for two drains therefore assume `Disjoint`, section 5.
- A kill inside `_record` after the queue entry was cleared leaves `pending_review` with no reason; one between the UNREVIEWED verdict and its alert loses the alert; one inside `_alert_project` makes the next incident take the missing verdict for one that waits in `pending` (`orchestrator.py:725`).
- A label given after a drain's query does not keep the release from the model.
- A release that stays `ingested` and whose project vanishes stays there.
- A `--recent` start killed between cursor and floor loses the window. Without a kill, a release uploaded between the index copy that seeds the cursor and the clock that seeds the floor (`orchestrator.py:827`) has a serial above the cursor and an upload time below the floor, and no poll lists it, although GETTING-STARTED.md:429 says "`run` pulls every release since the last cursor". `NonePassed` counts from the floor found.
- An index served backwards while a project is held lets the floor pass that project's releases.
- A release listed with an sdist, then served stale without it, is believed when its predecessor had none.
- A release that waited for its sdist is recorded as removed at the first 404 (against GETTING-STARTED.md:443).
- A change that leaves every line of a source file as it is read is neither a change nor a record (`differ.py:144`, "if hunks"; the lines are decoded with `errors="replace"` and split by `splitlines`): an empty file that is added or removed, other line ends, bytes that differ only where they cannot be decoded. `AllReported` excepts exactly these (`ReadsAsBefore`), and an empty file that is removed.
- A worker that has been taken over can leave out what only it saw: claiming nothing takes a release that only code rules flagged out of review. `sandbox.py:9` says so ("It cannot make an exploited parser tell the truth"); `ParentDecides` bounds its answer by what the parent scores itself and what it claims.
- `prune` takes no lock and can drop the evidence of a release that is just being recorded for a person (`store.py:171`, `store.py:161`).
- Guard probes and calibrations are sent outside the review lock, although `_review_slot` says the two processes "never have requests at one endpoint at the same time"; a closing probe, or a save of an older copy, overwrites an opened breaker or a pause; a timeout replaces a degraded pause by `open`, which has none.
- `InputTooLarge` says its stored text "holds the top file". When that file is an unchanged hook target (a release flagged only for its dependencies whose `pyproject.toml` names an unchanged `setup.py`), `needed` is measured from its heading alone (`reviewer.py:972`): it can be below the cap, and the stored text holds no file. `HoldsTop` is stated for a file the release changed.
- The room kept for the not-shown block counts every selected file, so unflagged churn can push out a flagged file that would just have fitted (`reviewer.py:303` "never pushed out by churn").
- The cap counts the system prompt at `DEFAULT_CPT` (`guard.py:141`), the room for the answer at the measured density (`orchestrator.py:146`). Where text is denser (a model that reads 2 characters a token in a window of 4096), a text within the cap is more than the window by the second count, and the floor of 256 tokens is asked for on top, although `_max_tokens_for` says the clamp is there so that the endpoint does not reject the request. `AnswerFits` is stated from `DEFAULT_CPT` on.
- An interrupt between the start of the worker and the `try` of `_run` (`sandbox.py:373`-`378`, `Thread.start` waits there) leaves the worker running and the timer armed, against the comment at `sandbox.py:386`; `NothingLeft` excepts it (`early`), and `Ends` shows that the timer or the unit still ends the worker.
- Under systemd, a client that is killed leaves its unit until `RuntimeMaxSec`, and the join of the feeder and the drainer waits for it.
- `_reply_cap` is "the most a genuine reply can be", four times `max_total_bytes`; JSON escapes a character outside ASCII as six to twelve, so a large genuine reply in such a script can pass it and is retried until it is given up as unscanned. In the model a reply above the cap is an error, genuine or not.
- The block says that tests are not imported when "the package list is known" (`execctx.py:661`). A list of more than `_MAX_ITEMS` literals plus `find_packages()` folds the computed item into "+1 more", and counts as known; `KnowsPackages` is stated for lists that are shown whole. In the same way `cmdclass` appends what was unread last, where twenty literal names hide it.
- Packages, modules and `top_level.txt` share a line of `_MAX_LINE` characters, and the packages come first: ten names of two hundred characters push everything after them off the line (`execctx.py:738`), `unknown (... not read)` and "+N more" of the top-level names included, although the comment at `execctx.py:674` puts what was not read first so that no cap folds it away. Only the ellipsis at the end of the line says that something is missing. The build line ends likewise in `cmdclass` and `setup_requires`. `TopLevelHonest` therefore asks for the mark or the cut; the entry points, each on a line of their own and the unread ones first, keep their mark, whatever the widths.
- `build` says that "a field it could declare is never a bare "none"" while setup.py exists (`execctx.py:530`): with a setup.py that is too large to scan, `startup` reads "none".
- `_references` follows the imports of an `__init__.py` in one pass over the archive ("one level", `execctx.py:497`): when an `__init__.py` is itself reached by one that comes earlier its imports are followed too, and otherwise not. With `tests/mod.py`, `tests/__init__.py` that imports it and `pkg/__init__.py` that imports `tests`, `tests/mod.py` is `not-shipped` in this order and `import` in the reverse one, though it runs at import in both. `RunsWhenReached` does not hide this: it says exactly which `__init__.py` are followed, in the archive's order (`Followed`), and promises nothing about imports that lead back to its front.
- `_switched_from` looks at a predecessor's files now: an sdist added late to a wheel-only release changes its answer. `BaselineStays` is about the predecessor that is diffed.

## 5. What is proved

TLAPS proves the following from the named assumptions on the constants in each module, for
any number of releases and processes, any caps, bounds, faults and kills.

The review queue. "One drain" means that `Drains` has one element; it may still be killed
at every commit, as often as one likes, beside any number of people who label and prune.

- `TypeCorrect`: `TypeInv` is `TypeOK` and that the locals a place uses are set (`LocalsKnown`); one lemma per group of actions.
- `OneAtATime`, any drains: two processes are never at the model. `HoldsSlot`, "a process at the model holds the lock", is inductive; every action but the two that enter the model goes elsewhere and keeps the lock.
- `LabelsKept` (`AdjudicationKept`), any drains: a label stays with its verdict row, and its evidence goes only to `prune`. It is a property of steps; what makes it provable is `Backed`, that a label always has a verdict row, so that `Honours` can be shown row by row for each store function.
- `DroppedByKillOnly` (`NothingDropped`), any drains: until the first kill, an escalated release has a process on it, a queue reason, a person or a label, or is settled. The invariant names who owes what: a row is `Safe` by itself, or some process has it in hand at one of the places (`Owing`) where it has still to store what makes it safe. The restriction to `crashes = 0` is the finding `queue_killed`, not a convenience.
- `InputKept` (`QueuedHasInput`), one drain: a release queued under a reason has its input. It is not inductive: a process about to park again, or with a row read a moment ago, decides from its locals. `InputInv` adds what those locals say about the row (`Carried`), place by place.
- `VerdictsFinal`, `AlertsMatch`, `WarnedFirst`, `EvidenceKept`, one drain: a model's verdict is final; alerts agree with verdicts; until a kill, what is shown as not scanned was tried often enough and has alerted; and, unless somebody prunes by hand, a release that waits for a person has its flagged code (`~PrunedByHand` is the hypothesis; `prune` by hand takes no lock and can hit a release while it is recorded, section 4). `AloneInv` is one invariant for the four: what holds of a row whoever has it (`RowOk`, `Shown`, `Waiting`), what the row in hand looks like at each of the places of `_record` and `_review_failed` (`HandOk`), and that the rows still to do are as they were read (`TodoOk`).
- `QueueImplementsOutcome`, one drain and nobody labelling (`Labels = {}`: a label moves a release in ways `ReleaseOutcome` does not speak of): every step maps to a step of `ReleaseOutcome` or a stutter. `Lives` is the abstract step in terms of one row, shown for each store function; a step of the queue changes at most one row (`Lived`), and `MappedStep` takes that to `ReleaseOutcome`.

- `InputKeptByTwo`, `VerdictsFinalByTwo`, `AlertsMatchByTwo`, `PairImplementsOutcome` (the last with `Labels = {}`): what `InputKept`, `VerdictsFinal`, `AlertsMatch` and `QueueImplementsOutcome` say, with two processes at work, the tick and `review-pending --reason too_large`, whatever they read before the other wrote, however often either is killed. The hypothesis `Disjoint` says that these are the two, and that each release is too large for all caps of the tick or for none. The argument is rely-guarantee. `PairInv` says what each process knows of the release it has in hand (`HeldBy`: what both know, and what only the tick or only `review-pending` does) and of the rows it has read (`ReadBy`); in sum, `review-pending` has only big releases, queued as such until they are answered, and the tick has no release that is. They meet on one release all the same, in one place: a failed review is queued for the tick before `review-pending` has warned about it or cleared a stale verdict (`Soft`). `Moves` is what a step of either guarantees (`Becomes` to its own row; `Quiet` to the others), `RowsShared` derives from it what the other may rely on, and `Undisturbed` that its part of `PairInv` stands. Each action of either process is shown to be a `Moves` once, so the invariant, the verdicts and the refinement come from the same case analysis. TLC has checked `PairInv` on the instance of `queue_manual` with one kill and a prune by hand added (9.3 million states, five and a half minutes: too long to be one of the runs).

The scan.

- `ScanTypeCorrect`, `NoneLost` (`IngestedRevisited`), `UnscannedKnown` (`UnscannedReported`): no release left before a terminal stage is forgotten while PyPI serves it; until a kill, what is left unscanned has alerted, and is given up on with exactly the failures allowed. `ScanInv` adds the stage of the row in hand at each place (`HandKnown`), that what is to be taken up is not settled and is listed once (`TodoKnown`), that failures are counted for what was given up on and no more (`RowsSound`), and that between the poll and the end of the tick everything polled is settled, in hand or still listed (`PolledListed`): without the last, the cursor could move past a release that the tick had let go of.
- `NothingAtFirstLook` (`GraceFirst`): no removal and no warning without a grace period that the release itself entered. A property of steps, from `ScanInv`.

The ingest.

- `IngestTypeCorrect`, and `NoReleasePassed` (`NonePassed`): `PassInv` says what each of the two marks has behind it. `CursorKept` and `FloorKept`: a release at or below the cursor is done or its project told about, and one below the floor was at least recorded, or told about. `CeilingKept` is the same of the place the cursor will move to, with what the running tick has listed (`InTodo`) or held and must still tell about (`Covered`). They need that the tick knows what it holds (`JobKnown`), that a project leaves its hold only with an incident on record (`HoldsTold`), that an incident is due or told (`IncidentsTold`), that a label is of the incident on record and, until a fault, every incident has its verdict (`StarsSound`), and that serials are of copies already read (`SerialsKnown`). The hypothesis is `Lag <= Margin`: the index and the JSON lag behind uploads no more than `floor_margin_minutes`, which is what that setting is for. It is needed: with a lag beyond the margin the floor passes a release that no copy of the index has yet shown, and `FloorKept` is violated. The least element of a set of serials comes from the well-foundedness of the naturals (`WFMin`), so nothing here is induction over data.

The guard and the sandbox.

- `GuardTypeCorrect`, `PausedKept`, `ProbedAfterPause` (`ReviewerGuard`; `PauseKept`, the property of the last, is proved and in no run): until two batches overlap, no review is at the model while a pause runs or a probe is owed, and no probe is sent before the pause is over. `GuardInv` says that without overlap at most one process is in a batch, that the row tells the truth about pauses and owed probes (`RowIsTrue`), and what the process in the batch knows at each place (`Informed`).
- `SlowCounted` (`SlowTwice`): without a kill or an overlap, it takes two slow reviews in a row to pause, and two are enough. `StreakKept` says that the streak in the row is the number of slow samples since the last good one, and `Counts` what the process in a batch has counted and not yet saved.
- `SandboxTypeCorrect`, `ParsedInBox`, `ReplyCounts`, `LeavesNothing` (`Sandbox`): the four invariants of the `sandbox` run, for every set of modes and machines, every cap, pipe and reply. None but the first is inductive. `SandboxInv` adds that a chosen box stands while a command scans and a call belongs to its phase (`BoxFound`, `BoxChosen`), where an interrupt has brought the command (`Stopped`), what the main thread knows of child and timer at each place (`Cleared`) and of the worker (`WorkerKnown`), and, for `ReplyCounts`, that the chunks of a reply are read, in the pipe or to be written (`Counted`) and that past the loop nothing written is left unread (`ReadUp`). Lemmas on what a kill and an end change field by field keep the steps short; a step that leaves the command or the counts alone is covered by `SameCommand` and `SameCounts`.

The decisions. `Decisions` computes one answer to one case, so that the invariant is only that the answer
is the operator's (`AnsweredInv`); the content is in lemmas about the operators, for every case and not
only for those of the run.

- `FitsTheCap` (`InputWithinCap`), `NoneUnseen` (`NothingLeftUnsaid`): for any release, cap and limits. The files are placed one by one, and `PlacedOk` says after each that what is used up is the length of the parts and of what is kept, within the cap once a file is shown; that each file so far that must be named is shown or left out, and not both; and that without the first nothing is shown, because it did not fit. That the room kept for the not-shown block suffices, whichever of the selected files it will hold (`_not_shown_reserve`: "any subset renders no longer"), is `ReserveNames`: no more than 40 files have a line (`NamedFew`), their lines are among those of which the longest were measured (`MaxOf`), and fewer files are counted with no more digits (`MoreGrows`). The three orders of `_rank_files` are total (`BeforeTotal`), so that putting files in order loses none (`Ordered`). `InputAssumption` says that a release is finitely many files, each with a path of its own, that lengths are numbers, and that an unchanged hook target has fired no rule. The run has room for two lines in place of 40, so that files beyond the last line occur.
- `JudgedOnWord` (`WordDecides`): for any replies whose confidence is a number or none, any floors and any outcome of the gate. The verdict of a review is made of the last word (`WordGiven`), and `_record` is a case analysis of it (`RecordSays`).
- `BaselineKept` (`BaselineStays`): for any history, and any later look (`LaterLook`) that adds releases and late sdists, none older than the scanned one, and takes nothing away. The candidates are the same set, and which of them is the latest depends on their own times only.
- `ScreenedOnData` (`DepsScreened`): for any lists, index and cap. `ScreenedTo` says of the names up to one that each was passed over, is reported, or was cleared by its own answer; one name keeps it and the cap (`OneScreened`). The induction over the names is over a set of naturals, from well-foundedness, and `ScreenDefined` shows that the recursive function exists. `DepsAssumption` says that a list of names is known as it is or not at all.
- `NothingDropsOut` (`ChangesReported`): for any two archives and any limits. A file is fresh exactly when its record is not the same as one of the prior archive's, and the paths of the foreign records are as many as the records, so that the claim is one about counting: of a set of records the first `MaxForeignFiles`, by their place, are that many or all (`CountLowest`). Source that reads line for line as before is excepted (`ReadsAsBefore`), as `build_diff` reports a path only if there are hunks. `DiffAssumption` says that no two files of one archive have the same path, and that the same path with the same content is the same file.
- `ScoreOnlyGrows` (`NothingTakenOut`): for any rule files, facts, threshold and claims of a worker: more facts or rules never lower a score, and a worker's claims cannot lower or add to what the parent scores itself. It does not say that a lying worker cannot take a release out of review (section 4). A score is a sum over a finite set (`SumFunction`), which the library defines by taking one element after the other; that the order does not matter (`SumAnyOrder`) is proved over the set of the sets for which it holds (`OverSubsets`), from the well-foundedness of the naturals, and so are the bounds (`SumLeq`, `SumPart`). `TriageAssumption` and `MergeAssumption` say that numbers are numbers, that facts are finitely many, and that loaded rules are valid with distinct ids.
- `RunsNoLater` (`RunsAsSaid`): for any files in any order. `RefsTo` says after each file what refers to the files so far and from where, `FollowedTo` which `__init__.py` have been followed; that the recursive functions exist is `Iterated`, and after the last file the second is a set that is `Followed` (`RefsOfAll`). The property is about that set: what is reached by metadata, by its path, or by an `__init__.py` of the set, and no other chain of imports.
- `StandsOnOnePair` (`ChainOfOnePair`): for any verdict and any files shown. `_gate_file` connects the lines of all source groups with those of all sink groups at once, since "each of its rules is a union over lines". The hop is not one at first sight: the line that reads the bound name must be outside the source, and less is outside all groups than outside one. It makes no difference: a line that is in another source group and near the sink connects that group by itself (`PairConnects`: a pair, from all groups; `LargerConnects`: all groups, from a pair). What is connected holds a live line of each end (`ConnectedLive`) that was matched (`MergedHits`), so the checks on live lines never refuse a file that has such a pair. The code takes "this is exactly 'some kept source group connects to some kept sink group'" for granted; it holds.
- `ToldOfTheUnread` (`ContextHonest`): for any metadata, `_MAX_ITEMS` from one on, any `_MAX_EGG_EPS`, any `_MAX_LINE` and any widths, as long as one item fits into a line. A slot of entry points is `Honest` about the entries seen when it keeps some of them, the computed one among them, and has counted no fewer than it leaves out; `_collect` keeps it so (`OneCollected`), table by table (`EntryPointsOf`) and egg-info by egg-info. `JoinOf` says that the first item of a list is always listed, `InSightOf` that what is seen of a field is all of it unless the line is cut, and that the first item of a line of its own is always seen; so unread entry points, which come first, are in sight whatever the caps and the cut hide; `EpUnknownOf` that the list is not empty when anything was unread. `ContextAssumption` says that metadata is lists of strings, tables and states of files as `MetadataRead` has them.
- `RoomForBoth` (`WindowShared`): for an endpoint of any speed, density, window and answer limit. It rests on `LimitsAssumption`, that the system prompt is worth at least 768 tokens (the code's is 2784): then a window with room for any text has 1024 tokens, a quarter of which is the floor of 256 that `_max_tokens_for` asks for. With a shorter prompt the two functions could disagree on a small window.

What the proofs ask of the constants, beside the types: `Lag <= Margin`, one drain, `Disjoint`,
`~PrunedByHand` and `Labels = {}` are hypotheses of the theorems that need them, each given above; all else is in the named `ASSUME`s
of the modules, which TLC evaluates on every instance.

Only model-checked: everything with fairness (`QueueDrains`, `Decided`, `LateSdistNoticed`, `CaughtUp`,
`Resumes`, `Ends`), since liveness and `ENABLED` are out of the prover's reach. Every invariant and every
property of steps that a passing run checks is stated by a theorem. `UnreviewedWarned` and `EvidenceForPerson` are proved for
one drain; no run has them with two.

## 6. What is not modelled

- Text: parsing, rendering, tokenizing, hunks. The models take its results as attributes: which ways round a literal `setup()` call are recognised, and which files the metadata names, are given to `ExecContext` and `FileClasses`. Items of the block are told apart by their text as it is shown (`_clip`, 200 characters); of a line's width only items, counts and reasons are taken, not labels and separators; an item that is cut in its middle counts as not seen; and the lines of the block that name the files too large or unparseable are left out. The edit distance that makes a name a lookalike is given.
- The network and the operating system: HTTP, gzip and tar, flock, what a sandbox profile enforces, memory counters, the egress guard. The models take outcomes; locks work and a killed process frees them; the scan lock keeps two ticks apart by the operating system's promise.
- In `ReviewQueue`: `review-pending --limit`, an exception inside `_record`, deletion of old rows by retention, the `blocked` flag (`_process_fetched` always returns True), webhook delivery.
- In `ReleaseScan`: a known removal time (ingest reports none any more, `removed_at` is always None), more than one release of a project.
- In `IngestCursor`: the conditional GET and its cache, malformed project JSON, `seed-now` on a cursor that has moved, limits changed between ticks, an index served backwards, a 404 for a project that is not deleted (`ingest.py:162` takes any 404 for one that is gone, and the cursor passes it). `NonePassed` is about what was uploaded since `since`, which `Begin` raises to the floor each tick starts from: a version that the floor passed without a row counts from the end of the tick that moved it to the beginning of the next, which is where `FloorPassesNone` finds it. The read and the update of a `<name>==*` row are one step; the alert of an incident is not a state.
- In `Sandbox`: the encoding of the request, the checks of a reply field by field (one check, `Reply`), a second Ctrl-C within the `finally`, and a reply of a taken-over worker that is well formed and wrong: it counts as a whole reply there, and `ParentDecides` bounds what it can do.
- In `ReviewerGuard`: the speed itself. `ReviewCall` computes the cap from it; the averages that `record_success` keeps of speed and density are inputs there.
- In `ReleaseDiff`: two members of one archive with the same path below the top directory, names that refuse an archive, releases without an upload time, and a predecessor that is yanked, or a release that is deleted, between two attempts (`LaterLook`).
- The requests of the backends and the texts of their errors.
- Dashboard, configuration, command line and data classes keep no state of their own.

## 7. Plan

Written so far: the state machines of the queue, the scan, the ingest, the guard and the
sandbox, and eleven decisions. What is left, in this order:

1. *Compose.* An abstract specification of a release's life from PyPI to verdict, implemented by `ReleaseScan`; the guard's admission in place of the nondeterministic refusal in `ReviewQueue`.
2. *Model more.* Retention's deletion of rows and `--limit` in `ReviewQueue`; the averages the guard keeps.

Runs stay few: one per question. A new decision joins the `decisions` run, and a new
invariant joins the run whose instance reaches it.
