---------------------------- MODULE RunLifecycle ----------------------------
(***************************************************************************)
(* What the run table promises its callers, with no word of processes,     *)
(* leases, retries or time: every run walks the stages of the program one  *)
(* move at a time, may be given up at any stage, and then rests for ever;  *)
(* a student is worked on by one run at a time.                            *)
(***************************************************************************)
CONSTANTS
    Runs,
    StudentOf,      \* run -> student, or NULL
    Moves,          \* the pairs <<stage, next stage>>
    NULL

VARIABLE stage      \* run -> the stage it has reached

Ended == {"COMPLETE", "FAILED_TERMINAL", "REVIEW_REQUIRED"}

Open(r) == stage[r] \notin Ended \union {"ABSENT"}

Init == stage = [r \in Runs |-> "ABSENT"]

Begin(r) ==
    /\ stage[r] = "ABSENT"
    /\ StudentOf[r] # NULL =>
          \A q \in Runs : Open(q) => StudentOf[q] # StudentOf[r]
    /\ stage' = [stage EXCEPT ![r] = "CREATED"]

Advance(r) ==
    \E move \in Moves :
        /\ stage[r] = move[1]
        /\ stage' = [stage EXCEPT ![r] = move[2]]

GiveUp(r) ==
    /\ Open(r)
    /\ \E end \in {"FAILED_TERMINAL", "REVIEW_REQUIRED"} :
          stage' = [stage EXCEPT ![r] = end]

Next == \E r \in Runs : Begin(r) \/ Advance(r) \/ GiveUp(r)

Spec == Init /\ [][Next]_stage
=============================================================================
