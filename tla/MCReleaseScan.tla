---------------------------- MODULE MCReleaseScan ----------------------------
(***************************************************************************)
(* Small instances of the scan: release 1 follows a release that shipped an *)
(* sdist, release 2 belongs to a package that never did.                   *)
(***************************************************************************)
EXTENDS ReleaseScan
=============================================================================
