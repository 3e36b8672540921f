----------------------------- MODULE ReleaseDiff -----------------------------
(***************************************************************************)
(* What a release is compared with, and what of it is carried into the     *)
(* scan (fetcher.py: _pick_predecessor, _switched_from, download,          *)
(* extract_sdist, extract_download; differ.py: build_diff).                *)
(*                                                                         *)
(* A project's history is a function from the versions it lists to their   *)
(* [first, sdist, yanked]: the time of the first file, of the sdist (0: no *)
(* sdist), and whether that one is yanked.  An sdist is [broken, members], *)
(* a broken one ending in an unreadable member.  A member is [path, sort,  *)
(* size, content, lines, surface]: sort is "source", "binary", "foreign",  *)
(* "other" or "skipped" (a directory, a link or an unsafe name); content   *)
(* stands for its bytes and their fingerprint, lines for what _lines reads *)
(* of them: other bytes may read as the same lines (other line ends, bytes *)
(* that are no text), or as none; surface, whether a first release shows   *)
(* it under the surface policy.                                            *)
(***************************************************************************)
EXTENDS Integers, Sequences, FiniteSets, SequencesExt, Functions

CONSTANTS
    MaxMembers, MaxTotalBytes, MaxSourceBytes, MaxMemberBytes, MaxForeignFiles

ASSUME BytesAssumption == {MaxSourceBytes, MaxMemberBytes, MaxForeignFiles} \subseteq Nat

None == 0                       \* no version, or no file
NoLines == 0                    \* of an empty file, or of one that is not there
Sorts == {"source", "binary", "foreign", "other", "skipped"}

-----------------------------------------------------------------------------
(* The baseline: _pick_predecessor, _switched_from.                        *)

\* Of these versions the one whose sdist is the latest, the first listed of several.
Latest(versions, history) ==
    IF versions = {} THEN None
    ELSE CHOOSE v \in versions :
             \A w \in versions : \/ history[w].sdist < history[v].sdist
                                 \/ history[w].sdist = history[v].sdist /\ v <= w

\* Mutation: the newest other release, whenever this one was uploaded.
PickNewest(history, version) ==
    Latest({v \in DOMAIN history \ {version} : history[v].sdist # 0 /\ ~history[v].yanked},
           history)

PickPredecessor(history, version) ==
    Latest({v \in DOMAIN history \ {version} :
               /\ history[v].sdist # 0 /\ ~history[v].yanked
               /\ history[v].sdist < history[version].sdist},
           history)

\* The release just before, if that one had an sdist (the last of several).
SwitchedFrom(history, version) ==
    LET before == {v \in DOMAIN history \ {version} :
                      history[v].first < history[version].first}
        prev == {v \in before : \A w \in before :
                    \/ history[w].first < history[v].first
                    \/ history[w].first = history[v].first /\ w <= v}
    IN  {v \in prev : history[v].sdist # 0}

-----------------------------------------------------------------------------
(* One archive: extract_sdist.                                             *)

IsFile(m) == m.sort # "skipped"

\* Why a member is recorded instead of read, or "none".
Reason(m) ==
    CASE m.sort = "source" /\ m.size > MaxSourceBytes -> "source-too-large"
      [] m.sort \in {"binary", "foreign"} -> m.sort
      [] m.sort = "other" /\ m.size > MaxMemberBytes -> "file-too-large"
      [] OTHER -> "none"

\* files: the source kept, by path, the last of several; bins: the records of what is
\* not read as source, each with its place; ended: "ok", or why the archive was not
\* read to its end.  What was read up to there is not used.
Extract(sdist) ==
    LET all == sdist.members
        kept == {k \in DOMAIN all : all[k].sort = "source" /\ all[k].size <= MaxSourceBytes}
        total == SumFunction([k \in {n \in DOMAIN all : IsFile(all[n])} |-> all[k].size])
    IN  [files |-> [p \in {all[k].path : k \in kept} |->
                       all[CHOOSE k \in kept : /\ all[k].path = p
                                               /\ \A n \in kept : all[n].path = p => n <= k]],
         bins |-> {[path |-> all[k].path, content |-> all[k].content,
                    reason |-> Reason(all[k]), at |-> k] :
                       k \in {n \in DOMAIN all : Reason(all[n]) # "none"}},
         ended |-> IF Len(all) > MaxMembers \/ total > MaxTotalBytes THEN "refused"
                   ELSE IF sdist.broken THEN "broken" ELSE "ok"]

-----------------------------------------------------------------------------
(* What is carried into the scan: download, extract_download, build_diff.  *)

Foreign(b) == b.reason = "foreign"

\* At most MaxForeignFiles foreign-language records; the others all stay.
CapForeign(bins) ==
    {b \in bins : Foreign(b) =>
        Cardinality({c \in bins : Foreign(c) /\ c.at <= b.at}) <= MaxForeignFiles}

Same(b, priorBins) == \E p \in priorBins : p.path = b.path /\ p.content = b.content

\* Mutation: the cap is applied before the unchanged records are dropped.
ChangedAfterCap(bins, priorBins) == {b \in CapForeign(bins) : ~Same(b, priorBins)}

\* Only what this release adds or changes is a signal.
ChangedBins(bins, priorBins) == CapForeign({b \in bins : ~Same(b, priorBins)})

LinesAt(files, p) == IF p \in DOMAIN files THEN files[p].lines ELSE NoLines

\* Mutation: a file that is gone is no change.
ChangedIfThere(new, prior) == {p \in DOMAIN new : LinesAt(new, p) # LinesAt(prior, p)}

\* The paths whose text changed: added, removed or modified, with a hunk to show for it.
ChangedPaths(new, prior) ==
    {p \in DOMAIN new \cup DOMAIN prior :
        /\ ~(p \in DOMAIN new /\ p \in DOMAIN prior /\ new[p].content = prior[p].content)
        /\ LinesAt(new, p) # LinesAt(prior, p)}

\* One scan of the sdist new.  prior.kind: "first" for a first release, under
\* prior.policy; "gone" when the predecessor's sdist could not be downloaded;
\* "sdist" when it was.  priorError: it is compared with nothing, and says so.
ScanOf(sdist, prior) ==
    LET new == Extract(sdist)
        old == Extract(prior)
        compared == prior.kind = "sdist" /\ old.ended = "ok"
        surface == {p \in DOMAIN new.files : new.files[p].surface}
        files == IF prior.kind = "first" /\ prior.policy = "surface"
                 THEN Restrict(new.files, surface) ELSE new.files
    IN  CASE prior.kind = "first" /\ prior.policy = "skip" -> [ended |-> "skipped"]
          [] ~(prior.kind = "first" /\ prior.policy = "skip") /\ new.ended # "ok" ->
                [ended |-> new.ended]
          [] OTHER ->
                [ended |-> "ok",
                 priorError |-> prior.kind # "first" /\ ~compared,
                 changed |-> ChangedPaths(files, IF compared THEN old.files ELSE <<>>),
                 bins |-> ChangedBins(new.bins, IF compared THEN old.bins ELSE {})]

-----------------------------------------------------------------------------
(* What the answers promise.                                               *)

\* after is history as a later scan of version finds it: nothing listed is taken
\* away or changed, and sdists uploaded since then, of new releases or of old ones
\* that had none, are no older than the version's own.
LaterLook(history, after, version) ==
    /\ version \in DOMAIN history /\ DOMAIN history \subseteq DOMAIN after
    /\ after[version] = history[version]
    /\ \A v \in DOMAIN history : history[v].sdist \in Nat
    /\ \A v \in DOMAIN after :
          \/ v \in DOMAIN history /\ after[v] = history[v]
          \/ /\ v \in DOMAIN history => history[v].sdist = 0
             /\ \/ after[v].sdist = 0
                \/ after[v].sdist \in Nat /\ after[v].sdist >= history[version].sdist

\* A release that is scanned again later is compared with the same predecessor.
SameBaseline(history, after, version) ==
    history[version].sdist # 0
        => PickPredecessor(after, version) = PickPredecessor(history, version)

\* Two archives as they are listed: no two files of one have the same path, and the
\* same path and content are the same file.
ArchiveListed(sdist) ==
    LET all == sdist.members
    IN  /\ Len(all) \in Nat /\ DOMAIN all = 1..Len(all)
        /\ \A k \in DOMAIN all : all[k].sort \in Sorts /\ all[k].size \in Nat
        /\ \A k, n \in DOMAIN all :
              IsFile(all[k]) /\ IsFile(all[n]) /\ all[k].path = all[n].path => k = n
SameFiles(sdist, prior) ==
    \A k \in DOMAIN sdist.members, n \in DOMAIN prior.members :
        LET new == sdist.members[k]
            old == prior.members[n]
        IN  IsFile(new) /\ IsFile(old) /\ new.path = old.path /\ new.content = old.content
                => new.sort = old.sort /\ new.size = old.size /\ new.lines = old.lines

\* Source that is read, and of which a comparison with old sees no change: the same
\* lines as before, or none where no file was.
ReadsAsBefore(m, old) ==
    m.sort = "source" /\ m.size <= MaxSourceBytes /\ m.lines = LinesAt(old, m.path)

\* Whatever an update adds or changes is in what is scanned, or the scan is
\* refused or fails: source that reads differently, or is gone, as a changed path,
\* the rest as a record, foreign files up to their cap, which unchanged ones do not
\* use up.  Source whose bytes alone changed is neither.
AllReported(sdist, prior, scan) ==
    LET compared == prior.kind = "sdist" /\ Extract(prior).ended = "ok"
        old == IF compared THEN Extract(prior).files ELSE <<>>
        was == IF compared
               THEN {<<m.path, m.content>> : m \in {n \in ToSet(prior.members) : IsFile(n)}}
               ELSE {}
        fresh == {m \in ToSet(sdist.members) :
                     IsFile(m) /\ <<m.path, m.content>> \notin was}
        recorded == {b.path : b \in scan.bins}
        foreign == {m.path : m \in {n \in fresh : n.sort = "foreign"}}
    IN  scan.ended = "ok" /\ prior.kind # "first" =>
            /\ \A m \in fresh :
                  \/ m.sort = "foreign"
                  \/ /\ m.sort = "other"
                     /\ m.size <= MaxMemberBytes
                  \/ ReadsAsBefore(m, old)
                  \/ m.path \in scan.changed \cup recorded
            /\ \A p \in DOMAIN old :
                  \/ \E m \in ToSet(sdist.members) : IsFile(m) /\ m.path = p
                  \/ old[p].lines = NoLines
                  \/ p \in scan.changed
            /\ Cardinality(foreign \cap recorded) =
                  (IF Cardinality(foreign) <= MaxForeignFiles
                   THEN Cardinality(foreign) ELSE MaxForeignFiles)

=============================================================================
