----------------------------- MODULE IngestCursor -----------------------------
(***************************************************************************)
(* Which releases pydiffwatch sees: a poll of PyPI's simple index, the JSON *)
(* of each project whose serial is above the cursor, and the move of the    *)
(* cursor and of the new-version floor that ends the tick (changes_since,   *)
(* run_once, _note_holds, _alert_project).  The process may be killed       *)
(* between any two commits.                                                 *)
(*                                                                          *)
(* PyPI is a log of uploads.  Serials and times are counted in entries of   *)
(* the log: entry s has serial s, and time t lies between entries t and     *)
(* t + 1, so a version first uploaded by entry s is "at or after" the floor *)
(* t iff s > t.  What happens to a release that is listed is ReleaseScan's. *)
(***************************************************************************)
EXTENDS Integers, Sequences, FiniteSets, SequencesExt

CONSTANTS
    Versions,       \* ids
    Projects,
    ProjectOf,      \* the project of each version
    Starts,         \* how a fresh database may be started: now, recent, backfill
    Recent,         \* run --recent, in serials
    RecentFloor,    \* recent_floor_hours, in log entries
    Margin,         \* floor_margin_minutes, in log entries
    Lag,            \* how far behind the log the index may be read
    HoldLimit,      \* max_hold_ticks
    MaxProjects,    \* max_projects_per_run
    MaxReleases,    \* max_releases_per_run
    MaxLog,         \* bound: uploads
    MaxUpsets       \* bound: ticks killed, lagging or failed reads of the index,
                    \* projects deleted

ASSUME VersionsAssumption == Versions \subseteq Nat \ {0} /\ Versions # {}
ASSUME ProjectAssumption == ProjectOf \in [Versions -> Projects]
ASSUME StartsAssumption == Starts \subseteq {"now", "recent", "backfill"}
ASSUME NumbersAssumption == {Recent, RecentFloor, Margin, Lag} \subseteq Nat
ASSUME LimitsAssumption == {HoldLimit, MaxProjects, MaxReleases} \subseteq Nat \ {0}
ASSUME BoundsAssumption == MaxLog \in Nat \ {0} /\ MaxUpsets \in Nat

VARIABLES
    log,        \* PyPI: the version each upload adds a file to
    gone,       \* the projects PyPI has deleted
    read,       \* the newest copy of the index it has served
    cursor,     \* last_serial
    updated,    \* the cursor's updated_at; only the one of the seeding is ever used
    floor,      \* meta ingest_floor
    backfill,   \* meta ingest_backfill
    row,        \* the releases table
    star,       \* the rows <project>==* and their verdicts
    holds,      \* meta ingest_holds
    pc,         \* where the tick is
    job,        \* its local variables
    since,      \* history: what was uploaded before is not asked for
    upsets

pypi == <<log, gone, read>>
start == <<updated, backfill, since>>
vars == <<log, gone, read, cursor, updated, floor, backfill, row, star, holds, pc, job,
          since, upsets>>

-----------------------------------------------------------------------------
(* PyPI, at serial s.                                                      *)

Serial == 0..MaxLog
NoFloor == -1
Now == Len(log)

Files(p, s) == {i \in 1..s : ProjectOf[log[i]] = p}
LastSerial(p, s) == IF Files(p, s) = {} THEN 0 ELSE Max(Files(p, s))
Uploaded(v, s) == \E i \in 1..s : log[i] = v
FirstUpload(v) == Min({i \in 1..Now : log[i] = v})

-----------------------------------------------------------------------------
(* Rows and local variables.                                               *)

\* "done" stands for every terminal stage.
Stages == {"none", "ingested", "done"}

Star == [serial : Serial,           \* 0: no row
         verdict : BOOLEAN,         \* it has the UNREVIEWED verdict
         label : Serial]            \* 0, or the serial a person has labelled

Hold == [serial : Serial, ticks : 0..(HoldLimit + 1)]
NoHold == [serial |-> 0, ticks |-> 0]

Incident == [project : Projects, serial : Serial]

Job == [recent : BOOLEAN,                       \* the run was started with --recent
        begun : Serial,                         \* tick_start
        todo : Seq(Versions),                   \* the releases to process
        held : SUBSET Incident,
        refused : SUBSET Incident,
        due : SUBSET Incident,                  \* the ones still to be alerted
        counted : BOOLEAN,                      \* the holds are on record
        ceiling : Serial,
        complete : BOOLEAN]

Rest == [recent |-> FALSE, begun |-> 0, todo |-> <<>>, held |-> {},
         refused |-> {}, due |-> {}, counted |-> FALSE, ceiling |-> 0,
         complete |-> FALSE]

Places == {"idle", "seed", "begin", "poll", "scan", "settle",
           "verdict", "cursor"}

Init == /\ log = <<Min(Versions)>>
        /\ gone = {} /\ read = 0
        /\ cursor = 0 /\ updated = 0
        /\ floor = NoFloor /\ backfill = FALSE
        /\ row = [v \in Versions |-> "none"]
        /\ star = [p \in Projects |-> [serial |-> 0, verdict |-> FALSE,
                                       label |-> 0]]
        /\ holds = [p \in Projects |-> NoHold]
        /\ pc = "idle" /\ job = Rest
        /\ since = NoFloor
        /\ upsets = 0

-----------------------------------------------------------------------------
(* PyPI, the person.                                                       *)

Upset == upsets < MaxUpsets /\ upsets' = upsets + 1

Upload(v) ==
    /\ Len(log) < MaxLog
    /\ ProjectOf[v] \notin gone
    /\ log' = Append(log, v)
    /\ UNCHANGED <<gone, read, cursor, start, floor, row, star, holds, pc, job, upsets>>

Delete(p) ==
    /\ Files(p, Now) # {} /\ p \notin gone
    /\ Upset
    /\ gone' = gone \cup {p}
    /\ UNCHANGED <<log, read, cursor, start, floor, row, star, holds, pc, job>>

\* A person handles the incident that waits in `pending`.
Adjudicate(p) ==
    /\ star[p].verdict /\ star[p].label = 0
    /\ star' = [star EXCEPT ![p].label = star[p].serial]
    /\ UNCHANGED <<pypi, cursor, start, floor, row, holds, pc, job, upsets>>

-----------------------------------------------------------------------------
(* The start of a tick.                                                    *)

Go(place) == pc' = place /\ UNCHANGED job

\* The serial of a copy of the index: the current one, or one that lags, but
\* never an older one than was served before.
IndexRead(m) ==
    /\ \/ m = Now /\ UNCHANGED upsets
       \/ /\ m < Now /\ m >= Now - Lag /\ m >= read
          /\ Upset
    /\ read' = m
    /\ UNCHANGED <<log, gone>>

\* A fresh cursor is seeded from the index (seed_now, run, run --recent), ...
SeedCursor(mode) ==
    /\ pc = "idle" /\ cursor = 0
    /\ mode \in {"now", "recent"}
    /\ \E m \in 1..Now :
          /\ IndexRead(m)
          /\ mode = "recent" => m > Recent
          /\ cursor' = IF mode = "recent" THEN m - Recent ELSE m
    /\ updated' = Now
    /\ since' = cursor'
    /\ pc' = "seed"
    /\ job' = [Rest EXCEPT !.recent = (mode = "recent")]
    /\ UNCHANGED <<floor, backfill, row, star, holds>>

\* ... and the floor in a second commit.  A --recent start goes on and polls.
SeedFloor ==
    /\ pc = "seed"
    /\ floor' = IF job.recent THEN Max({0, Now - RecentFloor}) ELSE Now
    /\ since' = Max({since, floor'})
    /\ Go(IF job.recent THEN "begin" ELSE "idle")
    /\ UNCHANGED <<pypi, cursor, updated, backfill, row, star, holds, upsets>>

\* A cursor without a floor gets one from the cursor's last move.
FloorFound ==
    IF floor = NoFloor /\ ~backfill /\ cursor > 0 THEN Max({0, updated - Margin})
                                                  ELSE floor

Begin ==
    /\ \/ pc = "idle" /\ (cursor > 0 \/ "backfill" \in Starts)
       \/ pc = "begin"
    /\ backfill' = (backfill \/ cursor = 0)
    /\ floor' = FloorFound
    /\ since' = Max({since, floor'})
    /\ pc' = "poll"
    /\ job' = [job EXCEPT !.begun = Now]
    /\ UNCHANGED <<pypi, cursor, updated, row, star, holds, upsets>>

-----------------------------------------------------------------------------
(* The poll: changes_since.                                                *)

Lowest(S, n, serial) ==
    {x \in S : Cardinality({y \in S : serial[y] < serial[x]}) < n}

\* _new_versions: unseen ones since the floor, and ones a crash left at `ingested`.
NewVersions(p, s) ==
    {v \in Versions : /\ ProjectOf[v] = p /\ Uploaded(v, s)
                      /\ \/ row[v] = "none" /\ FirstUpload(v) > floor
                         \/ row[v] = "ingested"}

Released == {p \in Projects : holds[p].ticks >= HoldLimit}

\* How each JSON is answered: as it is, by a stale copy, not at all, or over
\* max_metadata_bytes.
Answers == {"fresh", "stale", "failed", "refused"}

\* The projects answered so; a deleted one (404) has nothing to scan.
Answered(answer, how) == {p \in DOMAIN answer \ gone : answer[p] \in how}

Incidents(S, serial) == {[project |-> p, serial |-> serial[p]] : p \in S}

\* The ticks a project has held the cursor; past the limit one more is all
\* that matters.
Ticks(h) == Min({holds[h.project].ticks + 1, HoldLimit + 1})

\* Mutation: past the limit a later serial is no new incident.
AlertDueOnce(h) == Ticks(h) = HoldLimit

AlertDue(h) == \/ Ticks(h) = HoldLimit
               \/ Ticks(h) > HoldLimit /\ holds[h.project].serial # h.serial

\* What the answers list: the versions of a stale copy are used.
ListedBy(answer, serial) ==
    (UNION {NewVersions(p, Now) : p \in Answered(answer, {"fresh"})})
      \cup (UNION {NewVersions(p, serial[p] - 1) : p \in Answered(answer, {"stale"})})

\* By the serial of the project, then as its JSON lists them.
InOrder(todo, serial) ==
    LET at(i) == serial[ProjectOf[todo[i]]]
    IN  \A i, j \in 1..Len(todo) :
            i < j => at(i) < at(j) \/ (at(i) = at(j) /\ todo[i] < todo[j])

\* The first serial a cap leaves out ends the window.
CutBefore(S) == IF S = {} THEN Serial ELSE 0..(Min(S) - 1)

\* Mutation: one release more than max_releases_per_run.
TakenOver(todo) == SubSeq(todo, 1, Min({MaxReleases + 1, Len(todo)}))

Taken(todo) == SubSeq(todo, 1, Min({MaxReleases, Len(todo)}))

Poll ==
    /\ pc = "poll"
    /\ \E meta \in 1..Now :
        LET serial == [p \in Projects |-> LastSerial(p, meta)]
            above == {p \in Projects : serial[p] > cursor}
            changed == Lowest(above, MaxProjects, serial)
        IN  /\ IndexRead(meta)
            /\ \E answer \in [changed -> Answers] :
               \E todo \in SetToSeqs(ListedBy(answer, serial)) :
                LET held == Incidents(Answered(answer, {"stale", "failed"}), serial)
                    cut == {serial[p] : p \in above \ changed}
                             \cup {h.serial : h \in {h \in held : h.project \notin Released}}
                             \cup {serial[ProjectOf[todo[i]]] :
                                     i \in (MaxReleases + 1)..Len(todo)}
                    ceiling == Max({0} \cup (CutBefore(cut) \cap 0..meta))
                IN  /\ InOrder(todo, serial)
                    /\ job' = [job EXCEPT
                                 !.todo = Taken(todo),
                                 !.held = held,
                                 !.due = {h \in held : AlertDue(h)},
                                 !.refused = Incidents(Answered(answer, {"refused"}), serial),
                                 !.ceiling = ceiling,
                                 !.complete = (ceiling = meta)]
    /\ pc' = "scan"
    /\ UNCHANGED <<cursor, start, floor, row, star, holds>>

\* The index could not be read: the cursor stays.
PollFails ==
    /\ pc = "poll"
    /\ Upset
    /\ pc' = "idle" /\ job' = Rest
    /\ UNCHANGED <<pypi, cursor, start, floor, row, star, holds>>

-----------------------------------------------------------------------------
(* The releases, in serial order.                                          *)

\* What the rest of the tick leaves alone.
Outside == <<pypi, backfill, since, upsets>>

RecordRelease ==
    /\ pc = "scan" /\ job.todo # <<>>
    /\ row' = [row EXCEPT ![Head(job.todo)] = "ingested"]
    /\ Go("settle")
    /\ UNCHANGED <<Outside, cursor, updated, floor, star, holds>>

\* _process_fetched ends every release at a terminal stage (see ReleaseScan),
\* so the tick is never blocked.
Settle ==
    /\ pc = "settle"
    /\ row' = [row EXCEPT ![Head(job.todo)] = "done"]
    /\ pc' = "scan"
    /\ job' = [job EXCEPT !.todo = Tail(@)]
    /\ UNCHANGED <<Outside, cursor, updated, floor, star, holds>>

-----------------------------------------------------------------------------
(* Held and refused projects: _note_holds, _alert_project.                 *)

Scanned == pc = "scan" /\ job.todo = <<>>

Current == CHOOSE h \in job.due : \A g \in job.due : h.serial <= g.serial

\* Mutation: a label a person gave is kept when a later incident comes.
NoteOverLabel(s, serial) == [s EXCEPT !.serial = serial]

\* The row of the project: a new one, or pointed at the later incident, and
\* then a label given to the earlier one is taken off.
NoteSerial(s, serial) ==
    [s EXCEPT !.serial = serial,
              !.label = IF s.serial = serial THEN @ ELSE 0]

\* Still waiting in `pending`, as the code reads it: unlabelled.
Waits(s, serial) == s.serial \notin {0, serial} /\ s.label = 0

NoteIncident ==
    /\ Scanned /\ job.due # {}
    /\ LET h == Current
           s == star[h.project]
       IN  /\ star' = [star EXCEPT ![h.project] = NoteSerial(s, h.serial)]
           /\ IF Waits(s, h.serial)
              THEN pc' = pc /\ job' = [job EXCEPT !.due = @ \ {h}]
              ELSE Go("verdict")
    /\ UNCHANGED <<Outside, cursor, updated, floor, row, holds>>

\* _alert_unscanned: the verdict, and the alert, which fires once per serial.
RecordIncident ==
    /\ pc = "verdict"
    /\ star' = [star EXCEPT ![Current.project].verdict = TRUE]
    /\ pc' = "scan"
    /\ job' = [job EXCEPT !.due = @ \ {Current}]
    /\ UNCHANGED <<Outside, cursor, updated, floor, row, holds>>

\* Mutation: a hold is counted anew once it has alerted.
CountHoldsAnew ==
    [p \in Projects |->
        IF \E h \in job.held : h.project = p
        THEN LET h == CHOOSE h \in job.held : h.project = p
             IN  [serial |-> h.serial,
                  ticks |-> IF Ticks(h) < HoldLimit THEN Ticks(h) ELSE 0]
        ELSE NoHold]

CountHolds ==
    [p \in Projects |->
        IF \E h \in job.held : h.project = p
        THEN LET h == CHOOSE h \in job.held : h.project = p
             IN  [serial |-> h.serial, ticks |-> Ticks(h)]
        ELSE NoHold]

\* The holds, once every alert is out; the refused projects are next.
SetHolds ==
    /\ Scanned /\ job.due = {} /\ ~job.counted
    /\ holds' = CountHolds
    /\ pc' = pc
    /\ job' = [job EXCEPT !.due = job.refused, !.counted = TRUE]
    /\ UNCHANGED <<Outside, cursor, updated, floor, row, star>>

-----------------------------------------------------------------------------
(* The end of the tick.                                                    *)

\* Mutation: the floor does not trail the tick.
FloorUntrailed == IF job.complete THEN Max({floor, job.begun}) ELSE floor

\* After a complete poll the floor trails the start of the tick; it never
\* moves back.
FloorMoved == IF job.complete THEN Max({floor, 0, job.begun - Margin}) ELSE floor

SetFloor ==
    /\ Scanned /\ job.due = {} /\ job.counted
    /\ floor' = FloorMoved
    /\ Go("cursor")
    /\ UNCHANGED <<Outside, cursor, updated, row, star, holds>>

SetCursor ==
    /\ pc = "cursor"
    /\ cursor' = Max({cursor, job.ceiling})
    /\ pc' = "idle" /\ job' = Rest
    /\ UNCHANGED <<Outside, updated, floor, row, star, holds>>

Kill ==
    /\ pc # "idle"
    /\ Upset
    /\ pc' = "idle" /\ job' = Rest
    /\ UNCHANGED <<pypi, cursor, start, floor, row, star, holds>>

-----------------------------------------------------------------------------

Tick == \/ \E mode \in Starts : SeedCursor(mode)
        \/ SeedFloor \/ Begin \/ Poll \/ PollFails
        \/ RecordRelease \/ Settle
        \/ NoteIncident \/ RecordIncident
        \/ SetHolds \/ SetFloor \/ SetCursor

Next == \/ \E v \in Versions : Upload(v)
        \/ \E p \in Projects : Delete(p) \/ Adjudicate(p)
        \/ Tick
        \/ Kill

Spec == Init /\ [][Next]_vars

\* Ticks are started for ever (cron or watch) and a running one goes on: every
\* request has a deadline.
FairSpec == Spec /\ WF_vars(Tick)

-----------------------------------------------------------------------------
(* Properties.                                                             *)

TypeOK == /\ log \in Seq(Versions) /\ Len(log) \in 1..MaxLog
          /\ gone \subseteq Projects /\ read \in Serial
          /\ cursor \in Serial /\ updated \in Serial
          /\ floor \in Serial \cup {NoFloor} /\ backfill \in BOOLEAN
          /\ row \in [Versions -> Stages]
          /\ star \in [Projects -> Star]
          /\ holds \in [Projects -> Hold]
          /\ pc \in Places
          /\ job \in Job /\ Len(job.todo) <= MaxReleases
          /\ since \in Serial \cup {NoFloor}
          /\ upsets \in 0..MaxUpsets

\* The versions pydiffwatch is asked for: first uploaded since it was started.
Asked == {v \in Versions : Uploaded(v, Now) /\ FirstUpload(v) > since}

\* The project of v has an incident on record that covers v's upload, and no label
\* of an earlier one hides it; as long as no tick was killed, it has the verdict that
\* puts it in `pending`.
Noted(v) == LET s == star[ProjectOf[v]]
            IN  /\ s.serial >= FirstUpload(v) /\ (upsets = 0 => s.verdict)
                /\ s.label \in {0, s.serial}

Excused(v) == ProjectOf[v] \in gone \/ Noted(v)

\* The cursor passes no release in silence (changes_since's ceiling, run_once):
\* a version of a project it has passed is at a terminal stage, unless PyPI has
\* deleted the project or an incident of it is on record.
CursorPassesNone ==
    \A v \in Asked :
        LastSerial(ProjectOf[v], Now) <= cursor => row[v] = "done" \/ Excused(v)

\* Nor does the floor, wherever the cursor is: a version uploaded before it has
\* a row, so that the polls to come list it, however late they are and however
\* far the index lags behind the uploads (floor_margin_minutes).
FloorPassesNone ==
    \A v \in Asked : FirstUpload(v) <= floor => row[v] # "none" \/ Excused(v)

\* Through lags, failures, holds, caps, labels and one kill: neither of them passes
\* a release that nobody has been told of.
NonePassed == CursorPassesNone /\ FloorPassesNone

\* The index caught up with, however many projects fail or are stale, and
\* for however long (max_hold_ticks), whatever the caps leave for later.
CaughtUp == []<>(cursor = Now)
=============================================================================
