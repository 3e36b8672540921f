---------------------------- MODULE ReleaseScanProofs ----------------------------
(***************************************************************************)
(* Proofs about ReleaseScan: type correctness; that no release is lost     *)
(* between two polls; that what is left unscanned is reported; and that no *)
(* removal and no switch is believed at the first look.                    *)
(***************************************************************************)
EXTENDS ReleaseScan, TLAPS

\* Where a release is in hand.
Handling == {"unwarn", "map", "nosdist", "diffed", "triaged", "clear", "verdict", "alert"}

\* From the poll to the end of the tick.
Listing == pc = "list" \/ (pc \in Handling /\ ~job.sweeping)

Retried == {"no_sdist_wait", "metadata_retry"}
TakenUp == Retried \cup {"no_sdist", "ingested", "diffed"}

\* What each place knows of the release in hand, whose row nobody else writes.
HandKnown ==
    /\ job.rid = 0 <=> pc \notin Handling
    /\ pc = "sweep" => job.sweeping
    /\ pc = "list" => ~job.sweeping
    /\ pc \in {"unwarn", "map", "nosdist"} =>
           /\ Mine.stage = job.was
           /\ job.was \in IF job.sweeping THEN Retried ELSE TakenUp
    /\ pc = "unwarn" => job.was = "no_sdist"
    /\ pc = "diffed" => Mine.stage = "diffed"
    /\ pc = "triaged" => Mine.stage = "triaged"
    /\ pc = "clear" => Mine.stage \in {"triaged", "queued"}
    /\ pc \in {"verdict", "alert"} =>
           /\ Mine.stage \in Unscanned
           /\ Mine.stage = "no_sdist" => job.rid \in Switched
    /\ pc \in {"map", "nosdist"} => ~Mine.unreviewed
    /\ pc = "alert" => Mine.unreviewed

\* The rows still to be taken up: each once, and none that is settled.
TodoKnown ==
    /\ \A s \in job.todo :
           /\ s.rid # job.rid
           /\ row[s.rid].stage \in IF job.sweeping THEN Retried ELSE TakenUp \cup {"none"}
    /\ \A s, t \in job.todo : s.rid = t.rid => s = t

\* A row has used up its attempts exactly if it was given up on, and only what was
\* left unscanned has the UNREVIEWED verdict.
Sound(r, w) ==
    /\ w.stage = "gave_up" <=> w.tries = Attempts
    /\ w.unreviewed => w.stage \in Unscanned /\ (w.stage = "no_sdist" => r \in Switched)

RowsSound == \A r \in Releases : Sound(r, row[r])

\* UnscannedReported of one row that no tick has in hand.
Reported(r, w) ==
    w.stage \in Unscanned =>
        LET loud == w.stage # "no_sdist" \/ r \in Switched
        IN  w.unreviewed = loud /\ (loud => w.stage \in w.sent)

\* Between the poll and the end of the tick, a polled project is settled, in hand or
\* still listed, and nothing is taken up that was not polled.
PolledListed ==
    /\ ~Listing => polled = {}
    /\ Listing => /\ \A s \in job.todo : s.rid \in polled
                  /\ job.rid \in polled \cup {0}
                  /\ \A r \in polled : \/ row[r].stage \in Terminal \/ pypi[r] = "gone"
                                       \/ InHand(r) \/ \E s \in job.todo : s.rid = r

ScanInv == /\ TypeOK /\ HandKnown /\ TodoKnown /\ RowsSound /\ PolledListed
           /\ IngestedRevisited /\ UnscannedReported


-----------------------------------------------------------------------------
(* Rows.                                                                   *)

\* Every store function maps a row to a row.
LEMMA StoreTypes ==
    ASSUME NEW w \in Row
    PROVE  /\ \A stage \in Stages : UpdateStage(w, stage) \in Row
           /\ RecordRelease(w) \in Row /\ ClearFailures(w) \in Row /\ WaitForSdist(w) \in Row
           /\ w.tries < Attempts => NoteFailure(w) \in Row
           /\ \A b \in BOOLEAN : [w EXCEPT !.unreviewed = b] \in Row
           /\ w.stage \in Unscanned => [w EXCEPT !.sent = @ \cup {w.stage}] \in Row
           /\ [w EXCEPT !.recheck = "past"] \in Row
<1> USE DEF Row
<1>1. \A stage \in Stages : UpdateStage(w, stage) \in Row
  BY DEF UpdateStage
<1>2. RecordRelease(w) \in Row
  BY <1>1 DEF RecordRelease, Stages
<1>3. ClearFailures(w) \in Row
  BY AttemptsAssumption DEF ClearFailures
<1>4. WaitForSdist(w) \in Row
  BY DEF WaitForSdist, Stages, Terminal
<1>5. w.tries < Attempts => NoteFailure(w) \in Row
  <2>1. w.tries \in 0..Attempts
    BY ZenonT(30)
  <2>2. ASSUME NEW n \in 0..Attempts, NEW stage \in Stages
        PROVE  [w EXCEPT !.tries = n, !.stage = stage] \in Row
    OBVIOUS
  <2>3. w.tries < Attempts => w.tries + 1 \in 0..Attempts
    BY <2>1, AttemptsAssumption
  <2>4. "gave_up" \in Stages /\ "metadata_retry" \in Stages
    BY DEF Stages, Terminal
  <2> HIDE DEF Row
  <2> QED
    BY <2>2, <2>3, <2>4 DEF NoteFailure
<1>6. \A b \in BOOLEAN : [w EXCEPT !.unreviewed = b] \in Row
  OBVIOUS
<1>7. w.stage \in Unscanned => [w EXCEPT !.sent = @ \cup {w.stage}] \in Row
  OBVIOUS
<1>8. [w EXCEPT !.recheck = "past"] \in Row
  OBVIOUS
<1> QED
  BY <1>1, <1>2, <1>3, <1>4, <1>5, <1>6, <1>7, <1>8

\* What each store function changes.
LEMMA StoreFacts ==
    ASSUME NEW w \in Row
    PROVE  /\ \A stage : LET v == UpdateStage(w, stage)
                         IN  /\ v.stage = stage /\ v.tries = w.tries
                             /\ v.unreviewed = w.unreviewed /\ v.sent = w.sent
           /\ LET v == ClearFailures(w)
              IN  /\ v.stage = w.stage /\ v.tries = 0
                  /\ v.unreviewed = w.unreviewed /\ v.sent = w.sent
           /\ LET v == WaitForSdist(w)
              IN  /\ v.stage = "no_sdist_wait" /\ v.tries = w.tries
                  /\ v.unreviewed = w.unreviewed
           /\ LET v == NoteFailure(w)
              IN  /\ v.tries = w.tries + 1 /\ v.unreviewed = w.unreviewed
                  /\ v.stage = IF w.tries + 1 >= Attempts THEN "gave_up" ELSE "metadata_retry"
           /\ \A b : LET v == [w EXCEPT !.unreviewed = b]
                     IN  /\ v.stage = w.stage /\ v.tries = w.tries
                         /\ v.unreviewed = b /\ v.sent = w.sent
           /\ LET v == [w EXCEPT !.sent = @ \cup {w.stage}]
              IN  /\ v.stage = w.stage /\ v.tries = w.tries
                  /\ v.unreviewed = w.unreviewed /\ v.stage \in v.sent
           /\ LET v == [w EXCEPT !.recheck = "past"]
              IN  /\ v.stage = w.stage /\ v.tries = w.tries
                  /\ v.unreviewed = w.unreviewed /\ v.sent = w.sent
<1> USE DEF Row
<1>1. \A stage : LET v == UpdateStage(w, stage)
                 IN  /\ v.stage = stage /\ v.tries = w.tries
                     /\ v.unreviewed = w.unreviewed /\ v.sent = w.sent
  BY DEF UpdateStage
<1>2. LET v == ClearFailures(w)
      IN  /\ v.stage = w.stage /\ v.tries = 0
          /\ v.unreviewed = w.unreviewed /\ v.sent = w.sent
  BY DEF ClearFailures
<1>3. LET v == WaitForSdist(w)
      IN  v.stage = "no_sdist_wait" /\ v.tries = w.tries /\ v.unreviewed = w.unreviewed
  BY DEF WaitForSdist
<1>4. LET v == NoteFailure(w)
      IN  /\ v.tries = w.tries + 1 /\ v.unreviewed = w.unreviewed
          /\ v.stage = IF w.tries + 1 >= Attempts THEN "gave_up" ELSE "metadata_retry"
  BY DEF NoteFailure
<1>5. \A b : LET v == [w EXCEPT !.unreviewed = b]
             IN  /\ v.stage = w.stage /\ v.tries = w.tries
                 /\ v.unreviewed = b /\ v.sent = w.sent
  OBVIOUS
<1>6. LET v == [w EXCEPT !.sent = @ \cup {w.stage}]
      IN  /\ v.stage = w.stage /\ v.tries = w.tries
          /\ v.unreviewed = w.unreviewed /\ v.stage \in v.sent
  OBVIOUS
<1>7. LET v == [w EXCEPT !.recheck = "past"]
      IN  /\ v.stage = w.stage /\ v.tries = w.tries
          /\ v.unreviewed = w.unreviewed /\ v.sent = w.sent
  OBVIOUS
<1> QED
  BY <1>1, <1>2, <1>3, <1>4, <1>5, <1>6, <1>7

\* The items of a tick: each the row of a release at a stage that is not settled.
LEMMA ItemFacts ==
    ASSUME TypeOK, RowsSound
    PROVE  /\ DueRows \in SUBSET Item /\ Listed \in SUBSET Item
           /\ \A s \in DueRows : row[s.rid].stage \in Retried
           /\ \A s \in Listed : row[s.rid].stage \in TakenUp \cup {"none"} /\ s.rid \in changed
           /\ \A s, t \in DueRows : s.rid = t.rid => s = t
           /\ \A s, t \in Listed : s.rid = t.rid => s = t
           /\ \A r \in changed : pypi[r] # "gone" /\ row[r].stage \notin Terminal
                                     => \E s \in Listed : s.rid = r
<1>1. \A r \in Releases, kind \in Kinds :
         ItemOf(r, kind) \in Item /\ ItemOf(r, kind).rid = r
  BY DEF TypeOK, Row, ItemOf, Item
<1>2. \A s \in DueRows : \E r \in Releases :
         \/ s = ItemOf(r, "wait") /\ row[r].stage = "no_sdist_wait"
         \/ s = ItemOf(r, "retry") /\ row[r].stage = "metadata_retry"
  BY Zenon DEF DueRows, FirstItems
<1>3. \A s \in Listed : \E r \in changed :
         \/ s = ItemOf(r, "new") /\ row[r].stage \notin Terminal
         \/ s = ItemOf(r, "sdist") /\ row[r].stage \in WheelOnly
  BY DEF Listed
<1>4. \A r \in Releases : row[r].stage \in Stages
  BY DEF TypeOK, Row
<1>5. changed \subseteq Releases
  BY DEF TypeOK
<1>6. \A s \in DueRows : /\ s \in Item /\ s.rid \in Releases /\ row[s.rid].stage \in Retried
                         /\ s = IF row[s.rid].stage = "no_sdist_wait" THEN ItemOf(s.rid, "wait")
                                ELSE ItemOf(s.rid, "retry")
  BY <1>1, <1>2 DEF Kinds, Retried
<1>7. \A s \in Listed : /\ s \in Item /\ s.rid \in changed
                        /\ row[s.rid].stage \in TakenUp \cup {"none"}
                        /\ s = IF row[s.rid].stage \notin Terminal THEN ItemOf(s.rid, "new")
                               ELSE ItemOf(s.rid, "sdist")
  BY <1>1, <1>3, <1>4, <1>5 DEF Kinds, Terminal, WheelOnly, TakenUp, Retried, Stages
<1>8. \A r \in changed : pypi[r] # "gone" /\ row[r].stage \notin Terminal
                             => ItemOf(r, "new") \in Listed
  BY DEF Listed
<1>9. \A r \in changed : ItemOf(r, "new").rid = r
  BY <1>1, <1>5 DEF Kinds
<1> QED
  BY <1>6, <1>7, <1>8, <1>9

-----------------------------------------------------------------------------
(* A step with a release in hand writes its row alone.                     *)

\* The release in hand, and what the step makes of its row and of the others.
LEMMA HandWrites ==
    ASSUME ScanInv, pc \in Handling, NEW w, Write(w)
    PROVE  /\ job.rid \in Releases /\ Mine \in Row /\ Sound(job.rid, Mine)
           /\ row'[job.rid] = w /\ \A r \in Releases \ {job.rid} : row'[r] = row[r]
           /\ w \in Row => row' \in [Releases -> Row]
<1>1. job.rid \in Releases
  BY DEF ScanInv, TypeOK, Job, HandKnown
<1>2. row \in [Releases -> Row]
  BY DEF ScanInv, TypeOK
<1> QED
  BY <1>1, <1>2 DEF ScanInv, Mine, Write, RowsSound

\* The release stays in hand.
LEMMA HandGoes ==
    ASSUME ScanInv, pc \in Handling, NEW w \in Row, NEW place \in Handling,
           Write(w), Go(place), UNCHANGED Outside, faults' \in 0..MaxUpsets,
           Sound(job.rid, w), w.stage = "ingested" => Mine.stage = "ingested"
    PROVE  /\ TypeOK' /\ TodoKnown' /\ RowsSound' /\ PolledListed'
           /\ IngestedRevisited' /\ UnscannedReported'
           /\ pc' = place /\ job' = job /\ Mine' = w
<1>1. /\ job.rid \in Releases /\ row'[job.rid] = w
      /\ \A r \in Releases \ {job.rid} : row'[r] = row[r]
      /\ row' \in [Releases -> Row]
  BY HandWrites
<1>2. pc' = place /\ job' = job /\ UNCHANGED <<pypi, changed, polled, crashes>>
  BY DEF Go, Outside
<1>3. TypeOK'
  BY <1>1, <1>2 DEF ScanInv, TypeOK, Handling, Places
<1>4. TodoKnown'
  BY <1>1, <1>2 DEF ScanInv, TypeOK, Job, Item, TodoKnown
<1>5. RowsSound'
  BY <1>1 DEF ScanInv, RowsSound
<1>6. PolledListed'
  BY <1>1, <1>2 DEF ScanInv, TypeOK, PolledListed, Listing, InHand, Handling
<1>7. IngestedRevisited'
  BY <1>1, <1>2 DEF ScanInv, IngestedRevisited, InHand
<1>8. UnscannedReported'
  BY <1>1, <1>2 DEF ScanInv, UnscannedReported, InHand, Sound
<1> QED
  BY <1>1, <1>2, <1>3, <1>4, <1>5, <1>6, <1>7, <1>8 DEF Mine

\* The tick turns to the next release, and this one is at a terminal stage.
LEMMA HandDone ==
    ASSUME ScanInv, pc \in Handling, NEW w \in Row, Write(w), Done, UNCHANGED Outside,
           faults' \in 0..MaxUpsets, Sound(job.rid, w), w.stage \in Terminal,
           crashes = 0 => Reported(job.rid, w)
    PROVE  ScanInv'
<1>1. /\ job.rid \in Releases /\ row'[job.rid] = w
      /\ \A r \in Releases \ {job.rid} : row'[r] = row[r]
      /\ row' \in [Releases -> Row]
  BY HandWrites
<1>2. /\ UNCHANGED <<pypi, changed, polled, crashes>>
      /\ pc' = IF job.sweeping THEN "sweep" ELSE "list"
  BY DEF Done, Outside
<1>j. job \in Job
  BY DEF ScanInv, TypeOK
<1>3. /\ job'.rid = 0 /\ job'.todo = job.todo /\ job'.sweeping = job.sweeping
      /\ job' \in Job
  BY <1>j DEF Done, Job, Stages
<1>z. 0 \notin Releases
  BY ReleasesAssumption
<1>4. TypeOK'
  BY <1>1, <1>2, <1>3 DEF ScanInv, TypeOK, Places
<1>5. HandKnown'
  BY <1>2, <1>3 DEF HandKnown, Handling
<1>6. TodoKnown'
  BY <1>1, <1>3, <1>j, <1>z DEF ScanInv, Job, Item, TodoKnown
<1>7. RowsSound'
  BY <1>1 DEF ScanInv, RowsSound
<1>8. PolledListed'
  BY <1>1, <1>2, <1>3 DEF ScanInv, TypeOK, PolledListed, Listing, InHand, Handling
<1>9. IngestedRevisited'
  BY <1>1, <1>2 DEF ScanInv, IngestedRevisited, InHand, Terminal
<1>10. UnscannedReported'
  <2>1. ASSUME NEW r \in Releases
        PROVE  /\ row'[r].stage = "gave_up" => row'[r].tries = Attempts
               /\ crashes = 0 => Reported(r, row'[r])
    <3>1. CASE r = job.rid
      BY <1>1, <3>1 DEF Sound
    <3>2. CASE r # job.rid
      BY <1>1, <3>2 DEF ScanInv, UnscannedReported, InHand, Reported
    <3> QED
      BY <3>1, <3>2
  <2> QED
    BY <1>2, <2>1 DEF UnscannedReported, Reported
<1> QED
  BY <1>4, <1>5, <1>6, <1>7, <1>8, <1>9, <1>10 DEF ScanInv

\* The release in hand: its attempts are used up only if it was given up on.
LEMMA MineFacts ==
    ASSUME ScanInv, pc \in Handling
    PROVE  /\ Mine \in Row /\ Sound(job.rid, Mine)
           /\ Mine.stage \in Stages /\ Mine.tries \in 0..Attempts
           /\ Mine.stage # "gave_up" => Mine.tries < Attempts
<1>1. job.rid \in Releases
  BY DEF ScanInv, TypeOK, Job, HandKnown
<1>2. Mine \in Row /\ Sound(job.rid, Mine)
  BY <1>1 DEF ScanInv, TypeOK, RowsSound, Mine
<1>3. Mine.tries \in 0..Attempts
  BY <1>2, ZenonT(30) DEF Row
<1>4. Mine.stage \in Stages
  BY <1>2 DEF Row
<1>5. Mine.stage # "gave_up" => Mine.tries # Attempts
  BY <1>2, Zenon DEF Sound
<1>6. Mine.stage # "gave_up" => Mine.tries < Attempts
  BY <1>3, <1>5, AttemptsAssumption
<1> QED
  BY <1>2, <1>3, <1>4, <1>6

\* A release that is given another stage than gave_up keeps its attempts below the limit.
LEMMA StagedSound ==
    ASSUME ScanInv, pc \in Handling, Mine.stage # "gave_up",
           NEW stage \in Stages \ {"gave_up"},
           Mine.unreviewed => stage \in Unscanned,
           stage = "no_sdist" => job.rid \in Switched \/ ~Mine.unreviewed
    PROVE  /\ UpdateStage(Mine, stage) \in Row /\ UpdateStage(Mine, stage).stage = stage
           /\ UpdateStage(Mine, stage).unreviewed = Mine.unreviewed
           /\ Sound(job.rid, UpdateStage(Mine, stage))
<1>1. /\ UpdateStage(Mine, stage) \in Row /\ UpdateStage(Mine, stage).stage = stage
      /\ UpdateStage(Mine, stage).unreviewed = Mine.unreviewed
      /\ UpdateStage(Mine, stage).tries = Mine.tries
  <2>1. Mine \in Row
    BY MineFacts
  <2>2. UpdateStage(Mine, stage) \in Row
    BY <2>1, StoreTypes
  <2> QED
    BY <2>1, <2>2, StoreFacts
<1>2. Mine.tries # Attempts
  BY MineFacts, AttemptsAssumption
<1> QED
  BY <1>1, <1>2, Zenon DEF Sound

-----------------------------------------------------------------------------
(* The release in hand, action by action.                                  *)

LEMMA DropSwitchWarningKeeps ==
    ASSUME ScanInv, DropSwitchWarning
    PROVE  ScanInv'
<1> DEFINE w == [Mine EXCEPT !.unreviewed = FALSE]
<1>1. /\ pc = "unwarn" /\ Write(w) /\ Go("map") /\ UNCHANGED Outside /\ faults' = faults
      /\ pc \in Handling
  BY DEF DropSwitchWarning, Handling
<1>2. Mine.stage = "no_sdist" /\ job.was = Mine.stage
  BY <1>1 DEF ScanInv, HandKnown
<1>3. w \in Row /\ w.stage = Mine.stage /\ w.tries = Mine.tries /\ w.unreviewed = FALSE
  <2>1. Mine \in Row
    BY <1>1, MineFacts
  <2>2. w \in Row
    BY <2>1, StoreTypes
  <2> QED
    BY <2>1, <2>2, StoreFacts
<1>4. Sound(job.rid, w)
  BY <1>1, <1>3, MineFacts, Zenon DEF Sound
<1> HIDE DEF w
<1>5. /\ TypeOK' /\ TodoKnown' /\ RowsSound' /\ PolledListed'
      /\ IngestedRevisited' /\ UnscannedReported'
      /\ pc' = "map" /\ job' = job /\ Mine' = w
  BY <1>1, <1>3, <1>4, HandGoes DEF ScanInv, TypeOK, Handling
<1>6. HandKnown'
  BY <1>1, <1>2, <1>3, <1>5 DEF ScanInv, HandKnown, Handling
<1> QED
  BY <1>5, <1>6 DEF ScanInv

\* A step that an upset makes possible stays within the bound.
LEMMA FaultTyped ==
    ASSUME ScanInv, Fault \/ faults' = faults
    PROVE  faults' \in 0..MaxUpsets
  BY BoundsAssumption DEF ScanInv, TypeOK, Fault

LEMMA RefuseKeeps ==
    ASSUME ScanInv, NEW stage \in {"refused_to_fetch", "refused_to_extract"}, Refuse(stage)
    PROVE  ScanInv'
<1> DEFINE w == UpdateStage(Mine, stage)
<1>1. /\ pc = "map" /\ Write(w) /\ Go("verdict") /\ UNCHANGED Outside /\ faults' = faults
      /\ pc \in Handling
  BY DEF Refuse, Handling
<1>2. Mine.stage = job.was /\ job.was \in TakenUp /\ ~Mine.unreviewed
  BY <1>1 DEF ScanInv, HandKnown, TakenUp
<1>3. stage \in Stages \ {"gave_up"} /\ stage \in Unscanned /\ stage # "no_sdist"
      /\ stage # "ingested"
  BY DEF Stages, Terminal, Unscanned
<1>4. w \in Row /\ w.stage = stage /\ Sound(job.rid, w)
  BY <1>1, <1>2, <1>3, StagedSound DEF TakenUp, Retried
<1> HIDE DEF w
<1>5. /\ TypeOK' /\ TodoKnown' /\ RowsSound' /\ PolledListed'
      /\ IngestedRevisited' /\ UnscannedReported'
      /\ pc' = "verdict" /\ job' = job /\ Mine' = w
  BY <1>1, <1>3, <1>4, HandGoes, FaultTyped DEF Handling
<1>6. HandKnown'
  BY <1>1, <1>3, <1>4, <1>5 DEF ScanInv, HandKnown, Handling
<1> QED
  BY <1>5, <1>6 DEF ScanInv

LEMMA RemovedKeeps ==
    ASSUME ScanInv, Removed
    PROVE  ScanInv'
<1>1. /\ pc = "map" /\ Done /\ UNCHANGED Outside /\ pc \in Handling
      /\ faults' \in 0..MaxUpsets
  BY FaultTyped DEF Removed, SeenGone, Handling
<1>2. Mine.stage = job.was /\ job.was \in TakenUp /\ ~Mine.unreviewed
  BY <1>1 DEF ScanInv, HandKnown, TakenUp
<1>3. Mine \in Row /\ Sound(job.rid, Mine) /\ Mine.tries \in 0..Attempts
      /\ Mine.tries < Attempts
  BY <1>1, <1>2, MineFacts DEF TakenUp, Retried
<1>4. CASE Write(UpdateStage(Mine, "removed_before_scan"))
  <2>1. /\ UpdateStage(Mine, "removed_before_scan") \in Row
        /\ UpdateStage(Mine, "removed_before_scan").stage = "removed_before_scan"
        /\ Sound(job.rid, UpdateStage(Mine, "removed_before_scan"))
    BY <1>1, <1>2, StagedSound DEF TakenUp, Retried, Stages, Terminal
  <2> QED
    BY <1>1, <1>4, <2>1, HandDone DEF Reported, Unscanned, Terminal
<1>5. CASE Write(Mine) /\ job.was = "no_sdist_wait"
  BY <1>1, <1>2, <1>3, <1>5, HandDone DEF Reported, Unscanned, Terminal
<1>6. CASE Write(WaitForSdist(Mine))
  <2>1. /\ WaitForSdist(Mine) \in Row
        /\ WaitForSdist(Mine).stage = "no_sdist_wait"
    BY <1>3, StoreTypes, StoreFacts
  <2>2. WaitForSdist(Mine).tries # Attempts /\ ~WaitForSdist(Mine).unreviewed
    BY <1>2, <1>3, StoreFacts
  <2>3. Sound(job.rid, WaitForSdist(Mine))
    BY <2>1, <2>2, Zenon DEF Sound
  <2> QED
    BY <1>1, <1>6, <2>1, <2>3, HandDone DEF Reported, Unscanned, Terminal
<1> QED
  BY <1>4, <1>5, <1>6 DEF Removed

\* A failure counted: given up at the last of the attempts, to be retried before.
LEMMA FailsKeeps ==
    ASSUME ScanInv, Fails
    PROVE  ScanInv'
<1> DEFINE w == NoteFailure(Mine)
<1>1. /\ pc \in {"map", "triaged"} /\ Write(w) /\ UNCHANGED Outside /\ faults' = faults
      /\ pc \in Handling
  BY DEF Fails, Handling
<1>2. Mine.stage # "gave_up"
  BY <1>1 DEF ScanInv, HandKnown, TakenUp, Retried
<1>3. Mine \in Row /\ Sound(job.rid, Mine) /\ Mine.tries \in 0..Attempts
      /\ Mine.tries < Attempts
  BY <1>1, <1>2, MineFacts
<1>4. ~Mine.unreviewed
  <2>1. CASE pc = "map"
    BY <2>1 DEF ScanInv, HandKnown
  <2>2. CASE pc = "triaged"
    <3>1. Mine.stage \notin Unscanned
      BY <2>2 DEF ScanInv, HandKnown, Unscanned
    <3> QED
      BY <1>3, <3>1, Zenon DEF Sound
  <2> QED
    BY <1>1, <2>1, <2>2
<1>5. /\ w.tries = Mine.tries + 1 /\ w.unreviewed = Mine.unreviewed
      /\ w.stage = IF Mine.tries + 1 >= Attempts THEN "gave_up" ELSE "metadata_retry"
  BY <1>3, StoreFacts
<1>6. w \in Row
  BY <1>3, StoreTypes
<1>7. w.stage = "gave_up" <=> w.tries = Attempts
  BY <1>3, <1>5, AttemptsAssumption
<1>8. Sound(job.rid, w)
  BY <1>4, <1>5, <1>7, Zenon DEF Sound
<1>9. w.stage \in {"gave_up", "metadata_retry"} /\ row'[job.rid] = w
  BY <1>1, <1>5, HandWrites
<1> HIDE DEF w
<1>10. CASE w.stage = "gave_up" /\ Go("verdict")
  <2>1. /\ TypeOK' /\ TodoKnown' /\ RowsSound' /\ PolledListed'
        /\ IngestedRevisited' /\ UnscannedReported'
        /\ pc' = "verdict" /\ job' = job /\ Mine' = w
    BY <1>1, <1>6, <1>8, <1>10, HandGoes, FaultTyped DEF Handling
  <2>2. HandKnown'
    BY <1>1, <1>10, <2>1 DEF ScanInv, HandKnown, Handling, Unscanned
  <2> QED
    BY <2>1, <2>2 DEF ScanInv
<1>11. CASE w.stage = "metadata_retry" /\ Done
  BY <1>1, <1>6, <1>8, <1>11, HandDone, FaultTyped DEF Reported, Unscanned, Terminal
<1> QED
  BY <1>9, <1>10, <1>11 DEF Fails

LEMMA SeenWheelsKeeps ==
    ASSUME ScanInv, SeenWheels
    PROVE  ScanInv'
<1> DEFINE w == ClearFailures(Mine)
<1>1. /\ pc = "map" /\ Write(w) /\ Go("nosdist") /\ UNCHANGED Outside
      /\ faults' \in 0..MaxUpsets /\ pc \in Handling
  BY FaultTyped DEF SeenWheels, Handling
<1>2. Mine.stage = job.was /\ job.was \in TakenUp /\ ~Mine.unreviewed
  BY <1>1 DEF ScanInv, HandKnown, TakenUp
<1>3. Mine \in Row /\ Sound(job.rid, Mine)
  BY <1>1, MineFacts
<1>4. w.stage = Mine.stage /\ w.tries = 0 /\ w.unreviewed = Mine.unreviewed
  BY <1>3, StoreFacts
<1>5. w \in Row
  BY <1>3, StoreTypes
<1>6. Mine.stage # "gave_up" /\ w.tries # Attempts
  BY <1>2, <1>4, AttemptsAssumption DEF TakenUp, Retried
<1>7. Sound(job.rid, w)
  BY <1>2, <1>4, <1>6, Zenon DEF Sound
<1> HIDE DEF w
<1>8. /\ TypeOK' /\ TodoKnown' /\ RowsSound' /\ PolledListed'
      /\ IngestedRevisited' /\ UnscannedReported'
      /\ pc' = "nosdist" /\ job' = job /\ Mine' = w
  BY <1>1, <1>4, <1>5, <1>7, HandGoes DEF Handling
<1>9. HandKnown'
  BY <1>1, <1>2, <1>4, <1>8 DEF ScanInv, HandKnown, Handling
<1> QED
  BY <1>8, <1>9 DEF ScanInv

LEMMA AwaitSdistKeeps ==
    ASSUME ScanInv, AwaitSdist
    PROVE  ScanInv'
<1>1. /\ pc = "nosdist" /\ Done /\ UNCHANGED Outside /\ faults' = faults /\ pc \in Handling
      /\ faults' \in 0..MaxUpsets
  BY FaultTyped DEF AwaitSdist, Handling
<1>2. Mine.stage = job.was /\ job.was \in TakenUp /\ ~Mine.unreviewed
  BY <1>1 DEF ScanInv, HandKnown, TakenUp
<1>3. Mine \in Row /\ Sound(job.rid, Mine) /\ Mine.tries \in 0..Attempts
      /\ Mine.tries < Attempts
  BY <1>1, <1>2, MineFacts DEF TakenUp, Retried
<1>4. CASE Write(Mine) /\ job.was = "no_sdist_wait"
  BY <1>1, <1>2, <1>3, <1>4, HandDone DEF Reported, Unscanned, Terminal
<1>5. CASE Write(WaitForSdist(Mine))
  <2>1. /\ WaitForSdist(Mine) \in Row
        /\ WaitForSdist(Mine).stage = "no_sdist_wait"
    BY <1>3, StoreTypes, StoreFacts
  <2>2. WaitForSdist(Mine).tries # Attempts /\ ~WaitForSdist(Mine).unreviewed
    BY <1>2, <1>3, StoreFacts
  <2>3. Sound(job.rid, WaitForSdist(Mine))
    BY <2>1, <2>2, Zenon DEF Sound
  <2> QED
    BY <1>1, <1>5, <2>1, <2>3, HandDone DEF Reported, Unscanned, Terminal
<1> QED
  BY <1>4, <1>5 DEF AwaitSdist

\* A switch is told of next; a package that was always wheel-only is settled.
LEMMA SettleNoSdistKeeps ==
    ASSUME ScanInv, SettleNoSdist
    PROVE  ScanInv'
<1> DEFINE w == UpdateStage(Mine, "no_sdist")
<1>1. /\ pc = "nosdist" /\ Write(w) /\ UNCHANGED Outside /\ faults' = faults
      /\ pc \in Handling /\ faults' \in 0..MaxUpsets
  BY FaultTyped DEF SettleNoSdist, Handling
<1>2. Mine.stage = job.was /\ job.was \in TakenUp /\ ~Mine.unreviewed
  BY <1>1 DEF ScanInv, HandKnown, TakenUp
<1>3. /\ w \in Row /\ w.stage = "no_sdist" /\ w.unreviewed = Mine.unreviewed
      /\ Sound(job.rid, w)
  BY <1>1, <1>2, StagedSound DEF TakenUp, Retried, Stages, Terminal, Unscanned
<1> HIDE DEF w
<1>4. CASE job.rid \in Switched /\ Go("verdict")
  <2>1. /\ TypeOK' /\ TodoKnown' /\ RowsSound' /\ PolledListed'
        /\ IngestedRevisited' /\ UnscannedReported'
        /\ pc' = "verdict" /\ job' = job /\ Mine' = w
    BY <1>1, <1>3, <1>4, HandGoes DEF Handling
  <2>2. HandKnown'
    BY <1>1, <1>3, <1>4, <2>1 DEF ScanInv, HandKnown, Handling, Unscanned
  <2> QED
    BY <2>1, <2>2 DEF ScanInv
<1>5. CASE job.rid \notin Switched /\ Done
  <2>1. w.unreviewed = FALSE
    BY <1>2, <1>3, Zenon DEF Row
  <2>2. Reported(job.rid, w)
    BY <1>3, <1>5, <2>1 DEF Reported
  <2>3. w.stage \in Terminal
    BY <1>3 DEF Terminal
  <2> QED
    BY <1>1, <1>3, <1>5, <2>2, <2>3, HandDone
<1> QED
  BY <1>4, <1>5 DEF SettleNoSdist

LEMMA SkipNewPackageKeeps ==
    ASSUME ScanInv, SkipNewPackage
    PROVE  ScanInv'
<1> DEFINE w == UpdateStage(Mine, "new_package_skipped")
<1>1. /\ pc = "map" /\ Write(w) /\ Done /\ UNCHANGED Outside /\ faults' = faults
      /\ pc \in Handling /\ faults' \in 0..MaxUpsets
  BY FaultTyped DEF SkipNewPackage, Handling
<1>2. Mine.stage = job.was /\ job.was \in TakenUp /\ ~Mine.unreviewed
  BY <1>1 DEF ScanInv, HandKnown, TakenUp
<1>3. w \in Row /\ w.stage = "new_package_skipped" /\ Sound(job.rid, w)
  BY <1>1, <1>2, StagedSound DEF TakenUp, Retried, Stages, Terminal
<1> HIDE DEF w
<1> QED
  BY <1>1, <1>3, HandDone DEF Reported, Unscanned, Terminal

\* The scan of a release goes on from a stage it is not alerted for.
LEMMA ScanGoes ==
    ASSUME ScanInv, pc \in {"map", "diffed", "triaged"}, Mine.stage \notin Unscanned \/ pc = "map",
           NEW stage \in {"diffed", "triaged", "queued"},
           NEW place \in {"diffed", "triaged", "clear"},
           place \in {"diffed", "triaged"} => stage = place,
           place = "clear" => stage \in {"triaged", "queued"},
           Write(UpdateStage(Mine, stage)), Go(place), UNCHANGED <<Outside, faults>>
    PROVE  ScanInv'
<1> DEFINE w == UpdateStage(Mine, stage)
<1>1. pc \in Handling /\ place \in Handling /\ faults' \in 0..MaxUpsets
  BY FaultTyped DEF Handling
<1>2. ~Mine.unreviewed /\ Mine.stage # "gave_up"
  <2>1. Mine.stage \notin Unscanned => ~Mine.unreviewed
    BY <1>1, MineFacts, Zenon DEF Sound
  <2>2. pc = "map" => ~Mine.unreviewed /\ Mine.stage # "gave_up"
    BY DEF ScanInv, HandKnown, TakenUp, Retried
  <2> QED
    BY <2>1, <2>2 DEF Unscanned
<1>3. w \in Row /\ w.stage = stage /\ Sound(job.rid, w)
  BY <1>1, <1>2, StagedSound DEF Stages, Terminal
<1> HIDE DEF w
<1>4. /\ TypeOK' /\ TodoKnown' /\ RowsSound' /\ PolledListed'
      /\ IngestedRevisited' /\ UnscannedReported'
      /\ pc' = place /\ job' = job /\ Mine' = w
  BY <1>1, <1>3, HandGoes DEF w
<1>5. HandKnown'
  BY <1>1, <1>3, <1>4 DEF ScanInv, HandKnown, Handling
<1> QED
  BY <1>4, <1>5 DEF ScanInv

LEMMA DiffKeeps ==
    ASSUME ScanInv, Diff
    PROVE  ScanInv'
  BY ScanGoes DEF Diff

LEMMA TriageKeeps ==
    ASSUME ScanInv, NEW escalate \in BOOLEAN, Triage(escalate)
    PROVE  ScanInv'
<1>1. pc = "diffed" /\ Mine.stage \notin Unscanned
  BY DEF Triage, ScanInv, HandKnown, Unscanned
<1>2. CASE escalate
  BY <1>1, <1>2, ScanGoes DEF Triage
<1>3. CASE ~escalate
  BY <1>1, <1>3, ScanGoes DEF Triage
<1> QED
  BY <1>2, <1>3

LEMMA HandOverKeeps ==
    ASSUME ScanInv, HandOver
    PROVE  ScanInv'
<1>1. pc = "triaged" /\ Mine.stage \notin Unscanned
  BY DEF HandOver, ScanInv, HandKnown, Unscanned
<1> QED
  BY <1>1, ScanGoes DEF HandOver

LEMMA SucceedKeeps ==
    ASSUME ScanInv, Succeed
    PROVE  ScanInv'
<1> DEFINE w == ClearFailures(Mine)
<1>1. /\ pc = "clear" /\ Write(w) /\ Done /\ UNCHANGED Outside /\ faults' = faults
      /\ pc \in Handling /\ faults' \in 0..MaxUpsets
  BY FaultTyped DEF Succeed, Handling
<1>2. Mine.stage \in {"triaged", "queued"}
  BY <1>1 DEF ScanInv, HandKnown
<1>3. Mine \in Row /\ Sound(job.rid, Mine)
  BY <1>1, MineFacts
<1>4. w.stage = Mine.stage /\ w.tries = 0 /\ w.unreviewed = Mine.unreviewed
  BY <1>3, StoreFacts
<1>5. w \in Row
  BY <1>3, StoreTypes
<1>6. Mine.stage # "gave_up" /\ w.tries # Attempts /\ Mine.stage # "no_sdist"
  BY <1>2, <1>4, AttemptsAssumption
<1>7. Sound(job.rid, w)
  BY <1>3, <1>4, <1>6, Zenon DEF Sound
<1> HIDE DEF w
<1> QED
  BY <1>1, <1>2, <1>4, <1>5, <1>7, HandDone DEF Reported, Unscanned, Terminal

LEMMA RecordUnscannedKeeps ==
    ASSUME ScanInv, RecordUnscanned
    PROVE  ScanInv'
<1> DEFINE w == [Mine EXCEPT !.unreviewed = TRUE]
<1>1. /\ pc = "verdict" /\ Write(w) /\ Go("alert") /\ UNCHANGED Outside /\ faults' = faults
      /\ pc \in Handling /\ faults' \in 0..MaxUpsets
  BY FaultTyped DEF RecordUnscanned, Handling
<1>2. Mine.stage \in Unscanned /\ (Mine.stage = "no_sdist" => job.rid \in Switched)
  BY <1>1 DEF ScanInv, HandKnown
<1>3. Mine \in Row /\ Sound(job.rid, Mine)
  BY <1>1, MineFacts
<1>4. w.stage = Mine.stage /\ w.tries = Mine.tries /\ w.unreviewed = TRUE
  BY <1>3, StoreFacts
<1>5. w \in Row
  BY <1>3, StoreTypes
<1>6. Sound(job.rid, w)
  BY <1>2, <1>3, <1>4, Zenon DEF Sound
<1>7. w.stage # "ingested"
  BY <1>2, <1>4 DEF Unscanned
<1> HIDE DEF w
<1>8. /\ TypeOK' /\ TodoKnown' /\ RowsSound' /\ PolledListed'
      /\ IngestedRevisited' /\ UnscannedReported'
      /\ pc' = "alert" /\ job' = job /\ Mine' = w
  BY <1>1, <1>5, <1>6, <1>7, HandGoes DEF Handling
<1>9. HandKnown'
  BY <1>1, <1>2, <1>4, <1>8 DEF ScanInv, HandKnown, Handling
<1> QED
  BY <1>8, <1>9 DEF ScanInv

LEMMA AlertUnscannedKeeps ==
    ASSUME ScanInv, AlertUnscanned
    PROVE  ScanInv'
<1> DEFINE w == [Mine EXCEPT !.sent = @ \cup {Mine.stage}]
<1>1. /\ pc = "alert" /\ Write(w) /\ Done /\ UNCHANGED Outside /\ faults' = faults
      /\ pc \in Handling /\ faults' \in 0..MaxUpsets
  BY FaultTyped DEF AlertUnscanned, Handling
<1>2. /\ Mine.stage \in Unscanned /\ (Mine.stage = "no_sdist" => job.rid \in Switched)
      /\ Mine.unreviewed
  BY <1>1 DEF ScanInv, HandKnown
<1>3. Mine \in Row /\ Sound(job.rid, Mine)
  BY <1>1, MineFacts
<1>4. /\ w.stage = Mine.stage /\ w.tries = Mine.tries /\ w.unreviewed = Mine.unreviewed
      /\ w.stage \in w.sent
  BY <1>3, StoreFacts
<1>5. w \in Row
  BY <1>2, <1>3, StoreTypes
<1>6. Sound(job.rid, w)
  BY <1>3, <1>4, Zenon DEF Sound
<1>7. w.unreviewed = TRUE
  BY <1>2, <1>3, <1>4, Zenon DEF Row
<1>8. w.stage \in Terminal
  BY <1>2, <1>4 DEF Unscanned, Terminal
<1> HIDE DEF w
<1>9. Reported(job.rid, w)
  BY <1>2, <1>4, <1>7 DEF Reported
<1> QED
  BY <1>1, <1>5, <1>6, <1>8, <1>9, HandDone

-----------------------------------------------------------------------------
(* Between two releases.                                                   *)

\* An item is taken up: the row of its release is the one in hand from here on.
LEMMA TakeUpKeeps ==
    ASSUME ScanInv, NEW s \in job.todo, TakeUp(s)
    PROVE  ScanInv'
<1> DEFINE w == RecordRelease(row[s.rid])
<1>z. 0 \notin Releases
  BY ReleasesAssumption
<1>1. /\ pc \in {"sweep", "list"} /\ pc \notin Handling /\ job.rid = 0
      /\ pc = "sweep" <=> job.sweeping
  BY DEF TakeUp, ScanInv, HandKnown, Handling
<1>2. /\ job \in Job /\ s \in Item /\ s.rid \in Releases /\ s.kind \in Kinds
      /\ row \in [Releases -> Row] /\ row[s.rid] \in Row
  BY DEF ScanInv, TypeOK, Job, Item
<1>3. /\ row[s.rid].stage \in IF job.sweeping THEN Retried ELSE TakenUp \cup {"none"}
      /\ \A t \in job.todo \ {s} : t.rid # s.rid
  BY DEF ScanInv, TodoKnown
<1>4. w \in Row
  BY <1>2, StoreTypes
<1>5. /\ w.stage = IF row[s.rid].stage = "none" THEN "ingested" ELSE row[s.rid].stage
      /\ w.tries = row[s.rid].tries /\ w.unreviewed = row[s.rid].unreviewed
  <2>1. CASE row[s.rid].stage = "none"
    BY <1>2, <2>1, StoreFacts DEF RecordRelease
  <2>2. CASE row[s.rid].stage # "none"
    BY <2>2 DEF RecordRelease
  <2> QED
    BY <2>1, <2>2
<1>6. /\ row' \in [Releases -> Row] /\ row'[s.rid] = w
      /\ \A r \in Releases \ {s.rid} : row'[r] = row[r]
  BY <1>2, <1>4 DEF TakeUp
<1> HIDE DEF w
<1>7. w.stage \in IF job.sweeping THEN Retried ELSE TakenUp
  BY <1>3, <1>5 DEF TakenUp, Retried
<1>8. w.stage \in Stages
  BY <1>7 DEF TakenUp, Retried, Stages, Terminal
<1>9. /\ job' \in Job /\ job'.todo = job.todo \ {s} /\ job'.rid = s.rid
      /\ job'.was = w.stage /\ job'.sweeping = job.sweeping
  BY <1>2, <1>6, <1>8 DEF TakeUp, Job
<1>10. /\ pc' = IF w.stage = "no_sdist" THEN "unwarn" ELSE "map"
       /\ pc' \in Handling /\ UNCHANGED <<pypi, changed, polled, crashes, faults>>
  BY <1>6 DEF TakeUp, Outside, Handling
<1>11. Sound(s.rid, w)
  <2>1. Sound(s.rid, row[s.rid])
    BY <1>2 DEF ScanInv, RowsSound
  <2>2. w.stage # "gave_up" /\ row[s.rid].stage # "gave_up"
    BY <1>3, <1>5 DEF TakenUp, Retried
  <2>3. row[s.rid].stage = "none" => ~row[s.rid].unreviewed
    BY <2>1, Zenon DEF Sound, Unscanned
  <2>4. row[s.rid].stage # "none" => w.stage = row[s.rid].stage
    BY <1>5
  <2> QED
    BY <1>5, <2>1, <2>2, <2>3, <2>4, Zenon DEF Sound
<1>12. w.stage # "no_sdist" => ~w.unreviewed
  <2>1. w.stage # "no_sdist" => w.stage \notin Unscanned
    BY <1>7 DEF TakenUp, Retried, Unscanned
  <2> QED
    BY <1>11, <2>1, Zenon DEF Sound
<1>13. Mine' = w
  BY <1>6, <1>9 DEF Mine
<1>14. TypeOK'
  BY <1>6, <1>9, <1>10 DEF ScanInv, TypeOK, Places
<1>15. HandKnown'
  BY <1>z, <1>2, <1>7, <1>9, <1>10, <1>12, <1>13 DEF HandKnown, Handling, TakenUp, Retried
<1>16. TodoKnown'
  BY <1>2, <1>3, <1>6, <1>9 DEF ScanInv, TodoKnown, Job, Item
<1>17. RowsSound'
  BY <1>6, <1>11 DEF ScanInv, RowsSound
<1>18. PolledListed'
  <2>1. Listing' <=> Listing
    BY <1>1, <1>9, <1>10 DEF Listing
  <2>2. ASSUME Listing, NEW r \in polled
        PROVE  \/ row'[r].stage \in Terminal \/ pypi[r] = "gone"
               \/ job'.rid = r \/ \E t \in job'.todo : t.rid = r
    <3>1. r \in Releases
      BY DEF ScanInv, TypeOK
    <3>2. \/ row[r].stage \in Terminal \/ pypi[r] = "gone"
          \/ \E t \in job.todo : t.rid = r
      BY <1>z, <1>1, <2>2, <3>1 DEF ScanInv, PolledListed, InHand
    <3> QED
      BY <1>6, <1>9, <3>1, <3>2
  <2>3. Listing => s.rid \in polled /\ \A t \in job.todo : t.rid \in polled
    BY DEF ScanInv, PolledListed
  <2>4. ~Listing => polled = {}
    BY DEF ScanInv, PolledListed
  <2> QED
    BY <1>9, <1>10, <2>1, <2>2, <2>3, <2>4 DEF PolledListed, InHand
<1>19. IngestedRevisited'
  BY <1>z, <1>1, <1>6, <1>9, <1>10 DEF ScanInv, IngestedRevisited, InHand
<1>20. UnscannedReported'
  <2>1. ASSUME NEW r \in Releases \ {s.rid}
        PROVE  row'[r] = row[r] /\ ~InHand(r) /\ ~InHand(r)'
    BY <1>z, <1>1, <1>6, <1>9, <2>1 DEF InHand
  <2>2. row'[s.rid].stage # "gave_up" /\ InHand(s.rid)'
    BY <1>6, <1>7, <1>9 DEF InHand, TakenUp, Retried
  <2> QED
    BY <1>10, <2>1, <2>2 DEF ScanInv, UnscannedReported
<1> QED
  BY <1>14, <1>15, <1>16, <1>17, <1>18, <1>19, <1>20 DEF ScanInv

\* PyPI changes no row, and brings no project back that it removed.
LEMMA PyPIKeeps ==
    ASSUME ScanInv, PyPI
    PROVE  ScanInv'
<1>1. UNCHANGED <<polled, row, pc, job, crashes>> /\ faults' \in 0..MaxUpsets
      /\ changed \subseteq changed' /\ changed' \subseteq Releases
  BY FaultTyped DEF PyPI, Serve, Touch, ScanInv, TypeOK
<1>2. /\ pypi' \in [Releases -> {"unpublished", "wheels", "sdist", "gone"}]
      /\ \A r \in Releases : pypi[r] = "gone" => pypi'[r] = "gone"
  BY DEF PyPI, Serve, Touch, ScanInv, TypeOK
<1>3. TypeOK'
  BY <1>1, <1>2 DEF ScanInv, TypeOK
<1>4. HandKnown' /\ TodoKnown' /\ RowsSound'
  BY <1>1 DEF ScanInv, HandKnown, Mine, TodoKnown, RowsSound
<1>5. PolledListed'
  BY <1>1, <1>2 DEF ScanInv, TypeOK, PolledListed, Listing, InHand
<1>6. IngestedRevisited'
  BY <1>1, <1>2 DEF ScanInv, TypeOK, IngestedRevisited, InHand
<1>7. UnscannedReported'
  BY <1>1 DEF ScanInv, UnscannedReported, InHand
<1> QED
  BY <1>3, <1>4, <1>5, <1>6, <1>7 DEF ScanInv

\* Time passes for one row: its stage stays.
LEMMA GraceEndsKeeps ==
    ASSUME ScanInv, NEW q \in Releases, GraceEnds(q)
    PROVE  ScanInv'
<1>1. UNCHANGED <<pypi, changed, polled, pc, job, faults, crashes>>
  BY DEF GraceEnds
<1>2. row \in [Releases -> Row] /\ row[q] \in Row
  BY DEF ScanInv, TypeOK
<1>3. [row[q] EXCEPT !.recheck = "past"] \in Row
  BY <1>2, StoreTypes
<1>4. /\ row' \in [Releases -> Row] /\ row'[q] = [row[q] EXCEPT !.recheck = "past"]
      /\ \A r \in Releases \ {q} : row'[r] = row[r]
  BY <1>2, <1>3 DEF GraceEnds
<1>5. \A r \in Releases : /\ row'[r].stage = row[r].stage /\ row'[r].tries = row[r].tries
                          /\ row'[r].unreviewed = row[r].unreviewed
                          /\ row'[r].sent = row[r].sent
  <2>1. /\ row'[q].stage = row[q].stage /\ row'[q].tries = row[q].tries
        /\ row'[q].unreviewed = row[q].unreviewed /\ row'[q].sent = row[q].sent
    BY <1>2, <1>4, StoreFacts
  <2> QED
    BY <1>4, <2>1
<1>6. TypeOK'
  BY <1>1, <1>4 DEF ScanInv, TypeOK
<1>7. job.rid # 0 => job.rid \in Releases
  BY DEF ScanInv, TypeOK, Job
<1>8. HandKnown'
  <2>1. pc \in Handling => Mine'.stage = Mine.stage /\ Mine'.unreviewed = Mine.unreviewed
    BY <1>1, <1>5, <1>7 DEF ScanInv, HandKnown, Mine
  <2> QED
    BY <1>1, <2>1 DEF ScanInv, HandKnown, Handling
<1>9. TodoKnown'
  BY <1>1, <1>5 DEF ScanInv, TypeOK, Job, Item, TodoKnown
<1>10. RowsSound'
  BY <1>5, Zenon DEF ScanInv, RowsSound, Sound
<1>11. PolledListed'
  BY <1>1, <1>5 DEF ScanInv, TypeOK, PolledListed, Listing, InHand
<1>12. IngestedRevisited'
  BY <1>1, <1>5 DEF ScanInv, IngestedRevisited, InHand
<1>13. UnscannedReported'
  BY <1>1, <1>5 DEF ScanInv, UnscannedReported, InHand
<1> QED
  BY <1>6, <1>8, <1>9, <1>10, <1>11, <1>12, <1>13 DEF ScanInv

\* The sweep's rows are read.
LEMMA StartTickKeeps ==
    ASSUME ScanInv, StartTick
    PROVE  ScanInv'
<1>1. /\ pc = "idle" /\ pc' = "sweep" /\ UNCHANGED <<pypi, changed, polled, row, faults, crashes>>
      /\ job'.todo = DueRows /\ job'.rid = 0 /\ job'.kind = "none" /\ job'.was = "none"
      /\ job'.sweeping = TRUE /\ job.rid = 0 /\ polled = {}
  BY DEF StartTick, Rest, ScanInv, HandKnown, Handling, PolledListed, Listing
<1>2. /\ DueRows \in SUBSET Item /\ \A s \in DueRows : row[s.rid].stage \in Retried
      /\ \A s, t \in DueRows : s.rid = t.rid => s = t
  BY ItemFacts DEF ScanInv
<1>3. job' \in Job
  BY <1>2 DEF StartTick, Rest, Job, Kinds, Stages
<1>4. TypeOK'
  BY <1>1, <1>3 DEF ScanInv, TypeOK, Places
<1>5. HandKnown' /\ RowsSound' /\ PolledListed'
  BY <1>1 DEF ScanInv, HandKnown, Handling, RowsSound, PolledListed, Listing
<1>z. 0 \notin Releases
  BY ReleasesAssumption
<1>6. TodoKnown'
  BY <1>1, <1>2, <1>z DEF TodoKnown, Item
<1>7. IngestedRevisited' /\ UnscannedReported'
  BY <1>1 DEF ScanInv, IngestedRevisited, UnscannedReported, InHand
<1> QED
  BY <1>4, <1>5, <1>6, <1>7 DEF ScanInv

\* Nothing is in hand and nothing is to be taken up.
LEMMA RestFacts == Rest \in Job /\ Rest.todo = {} /\ Rest.rid = 0 /\ Rest.sweeping = FALSE
  BY DEF Rest, Job, Kinds, Stages

LEMMA EndSweepKeeps ==
    ASSUME ScanInv, EndSweep
    PROVE  ScanInv'
<1>1. /\ pc = "sweep" /\ pc' = "poll" /\ UNCHANGED <<pypi, changed, polled, row, crashes>>
      /\ faults' \in 0..MaxUpsets /\ job' = Rest /\ job.rid = 0 /\ polled = {}
  BY FaultTyped DEF EndSweep, ScanInv, HandKnown, Handling, PolledListed, Listing
<1>2. TypeOK'
  BY <1>1, RestFacts DEF ScanInv, TypeOK, Places
<1>3. HandKnown' /\ TodoKnown' /\ RowsSound' /\ PolledListed'
  BY <1>1, RestFacts
     DEF ScanInv, HandKnown, Handling, TodoKnown, RowsSound, PolledListed, Listing
<1>4. IngestedRevisited' /\ UnscannedReported'
  BY <1>1, RestFacts DEF ScanInv, IngestedRevisited, UnscannedReported, InHand
<1> QED
  BY <1>2, <1>3, <1>4 DEF ScanInv

\* Everything above the cursor is listed unless it is settled or PyPI serves it no more.
LEMMA PollKeeps ==
    ASSUME ScanInv, Poll
    PROVE  ScanInv'
<1>1. /\ pc = "poll" /\ pc' = "list" /\ UNCHANGED <<pypi, row, faults, crashes>>
      /\ job'.todo = Listed /\ job'.rid = 0 /\ job'.kind = "none" /\ job'.was = "none"
      /\ job'.sweeping = FALSE /\ job.rid = 0 /\ polled = {}
      /\ polled' = changed /\ changed' = {}
  BY DEF Poll, Rest, ScanInv, HandKnown, Handling, PolledListed, Listing
<1>2. /\ Listed \in SUBSET Item
      /\ \A s \in Listed : row[s.rid].stage \in TakenUp \cup {"none"} /\ s.rid \in changed
      /\ \A s, t \in Listed : s.rid = t.rid => s = t
      /\ \A r \in changed : pypi[r] # "gone" /\ row[r].stage \notin Terminal
                                => \E s \in Listed : s.rid = r
  BY ItemFacts DEF ScanInv
<1>3. job' \in Job
  BY <1>2 DEF Poll, Rest, Job, Kinds, Stages
<1>4. TypeOK'
  BY <1>1, <1>3 DEF ScanInv, TypeOK, Places
<1>5. HandKnown' /\ RowsSound'
  BY <1>1 DEF ScanInv, HandKnown, Handling, RowsSound
<1>6. PolledListed'
  BY <1>1, <1>2 DEF PolledListed, Listing
<1>z. 0 \notin Releases
  BY ReleasesAssumption
<1>7. TodoKnown'
  BY <1>1, <1>2, <1>z DEF TodoKnown, Item
<1>8. IngestedRevisited' /\ UnscannedReported'
  BY <1>1 DEF ScanInv, IngestedRevisited, UnscannedReported, InHand
<1> QED
  BY <1>4, <1>5, <1>6, <1>7, <1>8 DEF ScanInv

LEMMA PollFailsKeeps ==
    ASSUME ScanInv, PollFails
    PROVE  ScanInv'
<1>1. /\ pc = "poll" /\ pc' = "idle" /\ UNCHANGED <<pypi, changed, polled, row, job, crashes>>
      /\ faults' \in 0..MaxUpsets
  BY FaultTyped DEF PollFails
<1>2. TypeOK'
  BY <1>1 DEF ScanInv, TypeOK, Places
<1>3. HandKnown' /\ TodoKnown' /\ RowsSound' /\ PolledListed'
  BY <1>1 DEF ScanInv, HandKnown, Handling, TodoKnown, RowsSound, PolledListed, Listing
<1>4. IngestedRevisited' /\ UnscannedReported'
  BY <1>1 DEF ScanInv, IngestedRevisited, UnscannedReported, InHand
<1> QED
  BY <1>2, <1>3, <1>4 DEF ScanInv

\* The cursor passes what was polled: nothing of it is left at a stage that is not settled.
LEMMA EndTickKeeps ==
    ASSUME ScanInv, EndTick
    PROVE  ScanInv'
<1>z. 0 \notin Releases
  BY ReleasesAssumption
<1>1. /\ pc = "list" /\ pc' = "idle" /\ UNCHANGED <<pypi, changed, row, faults, crashes>>
      /\ job' = Rest /\ job.todo = {} /\ job.rid = 0 /\ polled' = {}
  BY DEF EndTick, ScanInv, HandKnown, Handling
<1>2. TypeOK'
  BY <1>1, RestFacts DEF ScanInv, TypeOK, Places
<1>3. HandKnown' /\ TodoKnown' /\ RowsSound' /\ PolledListed'
  BY <1>1, RestFacts
     DEF ScanInv, HandKnown, Handling, TodoKnown, RowsSound, PolledListed, Listing
<1>4. \A r \in polled : row[r].stage \in Terminal \/ pypi[r] = "gone"
  BY <1>z, <1>1 DEF ScanInv, TypeOK, PolledListed, Listing, InHand
<1>5. IngestedRevisited'
  BY <1>z, <1>1, <1>4, RestFacts DEF ScanInv, IngestedRevisited, InHand, Terminal
<1>6. UnscannedReported'
  BY <1>z, <1>1, RestFacts DEF ScanInv, UnscannedReported, InHand
<1> QED
  BY <1>2, <1>3, <1>5, <1>6 DEF ScanInv

\* A kill puts what was polled above the cursor again.
LEMMA KillKeeps ==
    ASSUME ScanInv, Kill
    PROVE  ScanInv'
<1>1. /\ pc' = "idle" /\ UNCHANGED <<pypi, row, faults>> /\ job' = Rest
      /\ crashes' = crashes + 1 /\ changed' = changed \cup polled /\ polled' = {}
      /\ crashes' \in 0..MaxUpsets /\ crashes' # 0
  BY BoundsAssumption DEF Kill, ScanInv, TypeOK
<1>2. TypeOK'
  BY <1>1, RestFacts DEF ScanInv, TypeOK, Places
<1>3. HandKnown' /\ TodoKnown' /\ RowsSound' /\ PolledListed'
  BY <1>1, RestFacts
     DEF ScanInv, HandKnown, Handling, TodoKnown, RowsSound, PolledListed, Listing
<1>4. ASSUME NEW r \in Releases, row[r].stage = "ingested", job.rid = r
      PROVE  r \in polled
  <2>1. pc \in Handling /\ Mine.stage = "ingested"
    BY <1>4, ReleasesAssumption DEF ScanInv, HandKnown, Mine
  <2>2. ~job.sweeping
    BY <2>1 DEF ScanInv, HandKnown, Handling, Retried, Unscanned
  <2> QED
    BY <1>4, <2>1, <2>2, ReleasesAssumption DEF ScanInv, PolledListed, Listing
<1>5. IngestedRevisited'
  BY <1>1, <1>4 DEF ScanInv, IngestedRevisited, InHand
<1>6. UnscannedReported'
  BY <1>1 DEF ScanInv, UnscannedReported
<1> QED
  BY <1>2, <1>3, <1>5, <1>6 DEF ScanInv

-----------------------------------------------------------------------------
(* Theorems.                                                               *)

LEMMA ScanInit ==
    ASSUME Init
    PROVE  ScanInv
<1>1. NewRow \in Row /\ NewRow.stage = "none" /\ NewRow.tries = 0 /\ NewRow.unreviewed = FALSE
  BY AttemptsAssumption DEF NewRow, Row, Stages
<1>2. \A r \in Releases : row[r] = NewRow
  BY DEF Init
<1>3. TypeOK
  BY <1>1, RestFacts, BoundsAssumption DEF Init, TypeOK, Places
<1>4. HandKnown /\ TodoKnown /\ PolledListed
  BY RestFacts DEF Init, HandKnown, Handling, TodoKnown, PolledListed, Listing
<1>5. RowsSound
  <2>1. NewRow.tries # Attempts
    BY <1>1, AttemptsAssumption
  <2> QED
    BY <1>1, <1>2, <2>1 DEF RowsSound, Sound
<1>6. IngestedRevisited /\ UnscannedReported
  BY <1>1, <1>2 DEF IngestedRevisited, UnscannedReported, Unscanned
<1> QED
  BY <1>3, <1>4, <1>5, <1>6 DEF ScanInv

LEMMA ScanNext ==
    ASSUME ScanInv, [Next]_vars
    PROVE  ScanInv'
<1>1. CASE PyPI
  BY <1>1, PyPIKeeps
<1>2. CASE \E r \in Releases : GraceEnds(r)
  BY <1>2, GraceEndsKeeps
<1>3. CASE Kill
  BY <1>3, KillKeeps
<1>4. CASE StartTick
  BY <1>4, StartTickKeeps
<1>5. CASE EndSweep
  BY <1>5, EndSweepKeeps
<1>6. CASE Poll
  BY <1>6, PollKeeps
<1>7. CASE PollFails
  BY <1>7, PollFailsKeeps
<1>8. CASE EndTick
  BY <1>8, EndTickKeeps
<1>9. CASE \E s \in job.todo : TakeUp(s)
  BY <1>9, TakeUpKeeps
<1>10. CASE DropSwitchWarning
  BY <1>10, DropSwitchWarningKeeps
<1>11. CASE \E stage \in {"refused_to_fetch", "refused_to_extract"} : Refuse(stage)
  BY <1>11, RefuseKeeps
<1>12. CASE Removed
  BY <1>12, RemovedKeeps
<1>13. CASE Fails
  BY <1>13, FailsKeeps
<1>14. CASE SeenWheels
  BY <1>14, SeenWheelsKeeps
<1>15. CASE AwaitSdist
  BY <1>15, AwaitSdistKeeps
<1>16. CASE SettleNoSdist
  BY <1>16, SettleNoSdistKeeps
<1>17. CASE SkipNewPackage
  BY <1>17, SkipNewPackageKeeps
<1>18. CASE Diff
  BY <1>18, DiffKeeps
<1>19. CASE \E escalate \in BOOLEAN : Triage(escalate)
  BY <1>19, TriageKeeps
<1>20. CASE HandOver
  BY <1>20, HandOverKeeps
<1>21. CASE Succeed
  BY <1>21, SucceedKeeps
<1>22. CASE RecordUnscanned
  BY <1>22, RecordUnscannedKeeps
<1>23. CASE AlertUnscanned
  BY <1>23, AlertUnscannedKeeps
<1>24. CASE UNCHANGED vars
  <2>1. UNCHANGED <<pypi, changed, polled, row, pc, job, faults, crashes>>
    BY <1>24 DEF vars
  <2>2. TypeOK' /\ HandKnown' /\ TodoKnown' /\ RowsSound'
    BY <2>1 DEF ScanInv, TypeOK, HandKnown, Mine, TodoKnown, RowsSound
  <2>3. PolledListed' /\ IngestedRevisited' /\ UnscannedReported'
    BY <2>1 DEF ScanInv, PolledListed, Listing, InHand, IngestedRevisited, UnscannedReported
  <2> QED
    BY <2>2, <2>3 DEF ScanInv
<1> QED
  BY <1>1, <1>2, <1>3, <1>4, <1>5, <1>6, <1>7, <1>8, <1>9, <1>10, <1>11, <1>12, <1>13, <1>14,
     <1>15, <1>16, <1>17, <1>18, <1>19, <1>20, <1>21, <1>22, <1>23, <1>24
     DEF Next, Tick, Process

LEMMA ScanAlways == Spec => []ScanInv
  BY ScanInit, ScanNext, PTL DEF Spec

\* The rows, the cursor and the tick's local variables keep their types: in particular no
\* release has more failures counted than METADATA_ATTEMPTS.
THEOREM ScanTypeCorrect == Spec => []TypeOK
  BY ScanAlways, PTL DEF ScanInv

\* No release is lost between two polls: one that is left at `ingested`, or at `diffed` if no
\* tick was killed, is in hand or will be listed again as long as PyPI serves it.
THEOREM NoneLost == Spec => []IngestedRevisited
  BY ScanAlways, PTL DEF ScanInv

\* As long as no tick was killed, a release left unscanned has alerted and waits for a person,
\* a package that was always wheel-only is silent, and a release is given up on with exactly
\* METADATA_ATTEMPTS failures (_alert_unscanned, note_metadata_failure).
THEOREM UnscannedKnown == Spec => []UnscannedReported
  BY ScanAlways, PTL DEF ScanInv

-----------------------------------------------------------------------------
(* The first look.                                                         *)

\* What GraceFirst says of a release whose row becomes v.
LookedTwice(r, v) ==
    /\ v.stage = "removed_before_scan"
          => \/ row[r].stage = "removed_before_scan"
             \/ row[r].stage = "no_sdist_wait" /\ row[r].recheck = "past"
    /\ v.stage = "no_sdist" /\ r \in Switched
          => \/ row[r].stage = "no_sdist"
             \/ /\ row[r].stage \in {"no_sdist_wait", "metadata_retry"}
                /\ row[r].recheck = "past"

\* A step with a release in hand concerns that release.
LEMMA HandLooks ==
    ASSUME ScanInv, pc \in Handling, NEW w, Write(w),
           \/ w.stage \notin {"removed_before_scan", "no_sdist"}
           \/ w.stage = Mine.stage \/ LookedTwice(job.rid, w)
    PROVE  \A r \in Releases : LookedTwice(r, row'[r])
<1>1. row'[job.rid] = w /\ \A r \in Releases \ {job.rid} : row'[r] = row[r]
  BY HandWrites
<1>2. LookedTwice(job.rid, w)
  BY DEF LookedTwice, Mine
<1>3. ASSUME NEW r \in Releases, row'[r] = row[r]
      PROVE  LookedTwice(r, row'[r])
  BY <1>3 DEF LookedTwice
<1> QED
  BY <1>1, <1>2, <1>3

LEMMA StepLooks ==
    ASSUME ScanInv, Next
    PROVE  \A r \in Releases : LookedTwice(r, row'[r])
<1>1. ASSUME UNCHANGED row
      PROVE  \A r \in Releases : LookedTwice(r, row'[r])
  BY <1>1 DEF LookedTwice
<1>2. CASE PyPI \/ Kill \/ StartTick \/ EndSweep \/ Poll \/ PollFails \/ EndTick
  <2>1. UNCHANGED row
    BY <1>2 DEF PyPI, Serve, Touch, Kill, StartTick, EndSweep, Poll, PollFails, EndTick
  <2> QED
    BY <1>1, <2>1
<1>3. ASSUME NEW q \in Releases, GraceEnds(q)
      PROVE  \A r \in Releases : LookedTwice(r, row'[r])
  <2>1. row \in [Releases -> Row] /\ row[q] \in Row
    BY DEF ScanInv, TypeOK
  <2>2. row'[q] = [row[q] EXCEPT !.recheck = "past"]
        /\ \A r \in Releases \ {q} : row'[r] = row[r]
    BY <1>3, <2>1 DEF GraceEnds
  <2>3. row'[q].stage = row[q].stage
    BY <2>1, <2>2, StoreFacts
  <2>4. \A r \in Releases : row'[r].stage = row[r].stage
    BY <2>2, <2>3
  <2> QED
    BY <2>4 DEF LookedTwice
<1>4. ASSUME NEW s \in job.todo, TakeUp(s)
      PROVE  \A r \in Releases : LookedTwice(r, row'[r])
  <2>1. row \in [Releases -> Row] /\ s.rid \in Releases
    BY DEF ScanInv, TypeOK, Job, Item
  <2>2. row'[s.rid] = RecordRelease(row[s.rid])
        /\ \A r \in Releases \ {s.rid} : row'[r] = row[r]
    BY <1>4, <2>1 DEF TakeUp
  <2>3. row'[s.rid].stage = row[s.rid].stage \/ row'[s.rid].stage = "ingested"
    BY <2>1, <2>2, StoreFacts DEF RecordRelease
  <2>4. \A r \in Releases : row'[r].stage = row[r].stage \/ row'[r].stage = "ingested"
    BY <2>2, <2>3
  <2> QED
    BY <2>4 DEF LookedTwice
<1>5. pc \in Handling => Mine \in Row
  BY MineFacts
<1>6. ASSUME NEW stage, pc \in Handling, Write(UpdateStage(Mine, stage)),
             stage \notin {"removed_before_scan", "no_sdist"}
      PROVE  \A r \in Releases : LookedTwice(r, row'[r])
  <2>1. UpdateStage(Mine, stage).stage = stage
    BY <1>5, <1>6, StoreFacts
  <2> QED
    BY <1>6, <2>1, HandLooks
<1>7. CASE DropSwitchWarning
  <2>1. pc \in Handling /\ Write([Mine EXCEPT !.unreviewed = FALSE])
    BY <1>7 DEF DropSwitchWarning, Handling
  <2>2. [Mine EXCEPT !.unreviewed = FALSE].stage = Mine.stage
    BY <1>5, <2>1, StoreFacts
  <2> QED
    BY <2>1, <2>2, HandLooks
<1>8. CASE RecordUnscanned
  <2>1. pc \in Handling /\ Write([Mine EXCEPT !.unreviewed = TRUE])
    BY <1>8 DEF RecordUnscanned, Handling
  <2>2. [Mine EXCEPT !.unreviewed = TRUE].stage = Mine.stage
    BY <1>5, <2>1, StoreFacts
  <2> QED
    BY <2>1, <2>2, HandLooks
<1>9. CASE AlertUnscanned
  <2>1. pc \in Handling /\ Write([Mine EXCEPT !.sent = @ \cup {Mine.stage}])
    BY <1>9 DEF AlertUnscanned, Handling
  <2>2. [Mine EXCEPT !.sent = @ \cup {Mine.stage}].stage = Mine.stage
    BY <1>5, <2>1, StoreFacts
  <2> QED
    BY <2>1, <2>2, HandLooks
<1>10. CASE SeenWheels \/ Succeed
  <2>1. pc \in Handling /\ Write(ClearFailures(Mine))
    BY <1>10 DEF SeenWheels, Succeed, Handling
  <2>2. ClearFailures(Mine).stage = Mine.stage
    BY <1>5, <2>1, StoreFacts
  <2> QED
    BY <2>1, <2>2, HandLooks
<1>11. CASE Fails
  <2>1. pc \in Handling /\ Write(NoteFailure(Mine))
    BY <1>11 DEF Fails, Handling
  <2>2. NoteFailure(Mine).stage \notin {"removed_before_scan", "no_sdist"}
    BY <1>5, <2>1, StoreFacts
  <2> QED
    BY <2>1, <2>2, HandLooks
<1>12. ASSUME pc \in Handling, Write(Mine) \/ Write(WaitForSdist(Mine))
       PROVE  \A r \in Releases : LookedTwice(r, row'[r])
  <2>1. WaitForSdist(Mine).stage = "no_sdist_wait"
    BY <1>5, <1>12, StoreFacts
  <2> QED
    BY <1>12, <2>1, HandLooks
<1>13. CASE AwaitSdist
  BY <1>12, <1>13 DEF AwaitSdist, Handling
<1>14. CASE Removed
  <2>1. pc \in Handling /\ pc = "map"
    BY <1>14 DEF Removed, Handling
  <2>2. CASE Due({"no_sdist_wait"}) /\ Write(UpdateStage(Mine, "removed_before_scan"))
    <3>1. Mine.stage = "no_sdist_wait" /\ Mine.recheck = "past"
      BY <2>1, <2>2 DEF Due, ScanInv, HandKnown
    <3>2. UpdateStage(Mine, "removed_before_scan").stage = "removed_before_scan"
      BY <1>5, <2>1, StoreFacts
    <3>3. LookedTwice(job.rid, UpdateStage(Mine, "removed_before_scan"))
      BY <3>1, <3>2 DEF LookedTwice, Mine
    <3> QED
      BY <2>1, <2>2, <3>3, HandLooks
  <2>3. CASE Write(Mine) \/ Write(WaitForSdist(Mine))
    BY <1>12, <2>1, <2>3
  <2> QED
    BY <1>14, <2>2, <2>3 DEF Removed
<1>15. CASE SettleNoSdist
  <2>1. pc \in Handling /\ pc = "nosdist" /\ Write(UpdateStage(Mine, "no_sdist"))
    BY <1>15 DEF SettleNoSdist, Handling
  <2>2. UpdateStage(Mine, "no_sdist").stage = "no_sdist"
    BY <1>5, <2>1, StoreFacts
  <2>3. job.rid \in Switched => Mine.stage \in {"no_sdist_wait", "metadata_retry"}
                                /\ Mine.recheck = "past"
    BY <1>15, <2>1 DEF SettleNoSdist, Due, ScanInv, HandKnown
  <2>4. LookedTwice(job.rid, UpdateStage(Mine, "no_sdist"))
    BY <2>2, <2>3 DEF LookedTwice, Mine
  <2> QED
    BY <2>1, <2>4, HandLooks
<1>16. CASE \/ \E stage \in {"refused_to_fetch", "refused_to_extract"} : Refuse(stage)
            \/ SkipNewPackage \/ Diff \/ HandOver
            \/ \E escalate \in BOOLEAN : Triage(escalate)
  <2>1. pc \in Handling
    BY <1>16 DEF Refuse, SkipNewPackage, Diff, HandOver, Triage, Handling
  <2>2. \E stage \in {"refused_to_fetch", "refused_to_extract", "new_package_skipped",
                      "diffed", "queued", "triaged"} : Write(UpdateStage(Mine, stage))
    BY <1>16 DEF Refuse, SkipNewPackage, Diff, HandOver, Triage
  <2> QED
    BY <1>6, <2>1, <2>2
<1> QED
  BY <1>2, <1>3, <1>4, <1>7, <1>8, <1>9, <1>10, <1>11, <1>13, <1>14, <1>15, <1>16
     DEF Next, Tick, Process

\* No release is called removed, and no switch to wheels is warned about, at the first look: a
\* grace period that the release itself entered has ended before, and a re-check time left over
\* from an earlier wait shortens none (store.wait_for_sdist, record_removed).
THEOREM NothingAtFirstLook == Spec => GraceFirst
<1>1. ASSUME ScanInv, [Next]_vars
      PROVE  [\A r \in Releases :
                 /\ row'[r].stage = "removed_before_scan"
                       => \/ row[r].stage = "removed_before_scan"
                          \/ row[r].stage = "no_sdist_wait" /\ row[r].recheck = "past"
                 /\ row'[r].stage = "no_sdist" /\ r \in Switched
                       => \/ row[r].stage = "no_sdist"
                          \/ /\ row[r].stage \in {"no_sdist_wait", "metadata_retry"}
                             /\ row[r].recheck = "past"]_vars
  <2>1. CASE Next
    BY <1>1, <2>1, StepLooks DEF LookedTwice
  <2>2. CASE UNCHANGED vars
    BY <2>2
  <2> QED
    BY <1>1, <2>1, <2>2
<1> QED
  BY <1>1, ScanAlways, PTL DEF Spec, GraceFirst
=============================================================================
