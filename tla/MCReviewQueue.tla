---------------------------- MODULE MCReviewQueue ----------------------------
(***************************************************************************)
(* Small instances of the review queue: release 1 needs a small review     *)
(* input, release 2 a large one.  Cap 1 is an endpoint too slow for the    *)
(* large input, cap 2 one that reads both.                                 *)
(***************************************************************************)
EXTENDS ReviewQueue

MCNeedOne == [r \in {1} |-> 1]
MCNeedTwo == [r \in {1, 2} |-> r]

TickCaps == [p \in {"tick"} |-> {1, 2}]
SmallTickLargeManual ==
    [p \in {"tick", "manual"} |-> IF p = "tick" THEN {1} ELSE {2}]
TickCap1 == [p \in {"tick"} |-> {1}]
BothCap1 == [p \in {"tick", "manual"} |-> {1}]
=============================================================================
