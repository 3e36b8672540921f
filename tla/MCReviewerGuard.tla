--------------------------- MODULE MCReviewerGuard ---------------------------
(***************************************************************************)
(* Small instances of the reviewer guard: the tick alone, or the tick      *)
(* beside `review-pending`, with a handful of timeouts and slow reviews.   *)
(***************************************************************************)
EXTENDS ReviewerGuard
=============================================================================
