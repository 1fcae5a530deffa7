--------------------------- MODULE MCProcessWorkers ---------------------------
(***************************************************************************)
(* An instance of ProcessWorkers for TLC: two rollouts, two workers and    *)
(* two brokers that are given the requests of either; and beside it one of *)
(* ProcessContainers: what becomes of an action that was admitted, when it *)
(* is given to two executors.                                              *)
(***************************************************************************)
EXTENDS ProcessWorkers, ProcessContainers, TLC

CONSTANTS r1, r2, w1, w2, b1, b2, q1, q2, x1, x2

EffectsInit == Init /\ ContainerInit

EffectsNext == \/ Next /\ UNCHANGED containerVars
               \/ ContainerNext /\ UNCHANGED vars

EffectsSpec == EffectsInit /\ [][EffectsNext]_<<vars, containerVars>>

\* One side is explored while the other has not begun.
OneSideAtATime == Init \/ ContainerInit

Symmetry == Permutations(Rollouts) \union Permutations(Workers)
            \union Permutations(Brokers) \union Permutations(Requests)

AtWork == {b \in Brokers : flights[b].at = "looked"}

\* Two brokers at work serve one worker: the same request of it, or two claims.
OneWorkerAtATime ==
    \A b, c \in AtWork :
        /\ flights[b].worker = flights[c].worker
        /\ \/ flights[b].request = flights[c].request /\ flights[b].content = flights[c].content
           \/ flights[b].content.kind = "claim" /\ flights[c].content.kind = "claim"

\* A denial changes nothing but what its worker is told: whatever follows it is
\* explored from the state in which the broker was lost instead.
DenialsEnd == \A b \in Brokers : flights[b].at # "denied"

\* Revocation, expiry and a second rollout are explored under the first
\* authorization, and its transitions beside one rollout and workers in force.
OneTrouble ==
    authority.sequence = 0 \/
        /\ \A w \in Workers : registrations[w].status # "revoked" /\ ~registrations[w].expired
        /\ Cardinality({r \in Rollouts : rollouts[r].status # "none"}) <= 1
=============================================================================
