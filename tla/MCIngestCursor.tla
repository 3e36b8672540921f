---------------------------- MODULE MCIngestCursor ----------------------------
(***************************************************************************)
(* Small instances of the ingest: project p has two versions, q has one.   *)
(***************************************************************************)
EXTENDS IngestCursor

CONSTANTS p, q

MCProjects == {p, q}
MCProjectOf == [v \in Versions |-> IF v = 3 THEN q ELSE p]
=============================================================================
