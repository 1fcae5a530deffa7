-------------------------- MODULE MCProcessRollout --------------------------
(***************************************************************************)
(* Instances of ProcessRollout for TLC: two rollouts that share a small    *)
(* grant, and one rollout whose model calls may be charged otherwise than  *)
(* reserved.                                                               *)
(***************************************************************************)
EXTENDS ProcessRollout, TLC

CONSTANTS r1, r2, w1, w2

Symmetry == Permutations(Rollouts) \union Permutations(Workers)

\* A rollout alone runs to the bounds of the configuration; two beside each
\* other have two claims and an authority that was transitioned twice.
AloneOrShort ==
    \/ \E r \in Rollouts : \A other \in Rollouts \ {r} : rollouts[other].status = "none"
    \/ claims <= 2 /\ authority.sequence <= 2
=============================================================================
