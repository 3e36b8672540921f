---------------------------- MODULE ReleaseOutcome ----------------------------
(***************************************************************************)
(* What the review queue promises about an escalated release, without the  *)
(* rows, the commits and the processes.  A release is queued; it may wait  *)
(* for a person and be taken back by a drain any number of times while no  *)
(* model has judged it; one model answer, or none, settles where it ends.  *)
(* Once a model has answered, or the release is closed, nothing moves it.  *)
(***************************************************************************)
CONSTANT Releases

VARIABLES
    place,      \* "unseen", "queue", "person" (`pydiffwatch pending`), "closed"
    answer,     \* what a model concluded, or "none"
    alarmed     \* the releases alerted as malicious

vars == <<place, answer, alarmed>>

Init == /\ place = [r \in Releases |-> "unseen"]
        /\ answer = [r \in Releases |-> "none"]
        /\ alarmed = {}

Move(r, to) == place' = [place EXCEPT ![r] = to]

\* Neither closed nor judged by a model.
Open(r) == place[r] \in {"queue", "person"} /\ answer[r] = "none"

Escalate(r) == place[r] = "unseen" /\ Move(r, "queue")
                 /\ UNCHANGED <<answer, alarmed>>

HandOver(r) == place[r] = "queue" /\ answer[r] = "none" /\ Move(r, "person")
                 /\ UNCHANGED <<answer, alarmed>>

TakeBack(r) == place[r] = "person" /\ answer[r] = "none" /\ Move(r, "queue")
                 /\ UNCHANGED <<answer, alarmed>>

\* The release is gone from PyPI, or the current rules clear it.
Dismiss(r) == Open(r) /\ Move(r, "closed") /\ UNCHANGED <<answer, alarmed>>

Judge(r) ==
    /\ Open(r)
    /\ \E class \in {"benign", "suspicious"} :
          answer' = [answer EXCEPT ![r] = class]
    /\ \/ answer'[r] = "benign" /\ Move(r, "closed")
       \/ Move(r, "person")
    /\ UNCHANGED alarmed

\* The alert about a malicious release goes out before it is closed as such.
Alarm(r) == Open(r) /\ alarmed' = alarmed \cup {r} /\ UNCHANGED <<place, answer>>

Condemn(r) == /\ Open(r) /\ r \in alarmed
              /\ answer' = [answer EXCEPT ![r] = "malicious"]
              /\ Move(r, "closed")
              /\ UNCHANGED alarmed

Next == \E r \in Releases :
    \/ Escalate(r) \/ HandOver(r) \/ TakeBack(r) \/ Dismiss(r)
    \/ Judge(r) \/ Alarm(r) \/ Condemn(r)

Spec == Init /\ [][Next]_vars
=============================================================================
