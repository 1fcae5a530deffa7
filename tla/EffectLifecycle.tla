--------------------------- MODULE EffectLifecycle ---------------------------
(***************************************************************************)
(* What the resource ledger promises of one admitted action, with no word  *)
(* of brokers, containers, providers, leases or evidence: its effect is    *)
(* announced and paid for before it happens, and happens once; it is       *)
(* charged because it happened, and given back only while nothing was      *)
(* announced.  ProcessContainers implements it, and so does every model    *)
(* action of ProcessRollout.                                               *)
(***************************************************************************)
VARIABLES
    effect,     \* "none", "announced", "happened"
    hold        \* "held", "committed", "charged", "returned"

Init == effect = "none" /\ hold = "held"

Announce == effect = "none" /\ hold # "returned" /\ effect' = "announced" /\ UNCHANGED hold

CommitHold == hold = "held" /\ hold' = "committed" /\ UNCHANGED effect

Happen == effect = "announced" /\ hold = "committed" /\ effect' = "happened" /\ UNCHANGED hold

Charge == effect = "happened" /\ hold = "committed" /\ hold' = "charged" /\ UNCHANGED effect

Return == effect = "none" /\ hold = "held" /\ hold' = "returned" /\ UNCHANGED effect

Next == Announce \/ CommitHold \/ Happen \/ Charge \/ Return

Spec == Init /\ [][Next]_<<effect, hold>>
=============================================================================
