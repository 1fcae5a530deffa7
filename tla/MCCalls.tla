------------------------------ MODULE MCCalls ------------------------------
(***************************************************************************)
(* One call ledger and all who use it: runs and process rollouts, the      *)
(* conversations of the Interaction Lab and the trials of an Atlas run.    *)
(* The composition, and instances of it for TLC.                           *)
(***************************************************************************)
EXTENDS InteractionLab, AtlasTrials, TLC

CONSTANTS q1, q2, q3, q4, c1, c2, s1, k1, k2, a1, a2

\* Two trials, each with one retry, under activations of one and two places.
TwoTrials     == (0..1) \X (0..1)
FirstSucceeds == {<<1, 1>>}
OneThenTwo    == (a1 :> 1) @@ (a2 :> 2)
OneEach       == [c \in Callers |-> IF c = c1 THEN k1 ELSE k2]

\* Two turns of one conversation, a run's request and a process's.
OfAtlas     == [q \in TwoTrials |-> "atlas"]
EachOwner   == (q1 :> "run") @@ (q2 :> "stream") @@ (q3 :> "process") @@ (q4 :> "stream") @@ OfAtlas
AllRequests == {q1, q2, q3, q4} \union TwoTrials
OneTurn     == q2 :> "stream"
InS1        == [q \in Turns |-> s1]

\* A caller is exchanged together with its controller.
Exchanged ==
    {p \in Permutations({c1, c2, k1, k2}) :
        {p[c1], p[c2]} = {c1, c2} /\ (p[c1] = c1 <=> p[k1] = k1) /\ {p[k1], p[k2]} = {k1, k2}}

-----------------------------------------------------------------------------
(* They share nothing but the two tables, and are explored one at a time.  *)

NoTalk   == \A s \in Sessions : consent[s] = "none"
NoOthers == \A q \in Others : status[q] = "none"
NoTrials == /\ ~adaptive /\ admission = "open"
            /\ \A n \in Trials : decision[n] = NULL

OneSideAtATime == NoTalk \/ NoOthers

-----------------------------------------------------------------------------
CallsInit == LabInit /\ AtlasInit

CallsNext ==
    \/ /\ NoTalk /\ NoOthers
       /\ AtlasNext /\ UNCHANGED <<consent, rows, feedback, streams>>
    \/ /\ NoTrials
       /\ LabNext /\ UNCHANGED <<registryVars, controlVars>>

CallsSpec == CallsInit /\ [][CallsNext]_<<labVars, registryVars, controlVars>>
=============================================================================
