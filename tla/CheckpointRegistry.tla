------------------------- MODULE CheckpointRegistry -------------------------
(***************************************************************************)
(* The registry of external checkpoints (padawan/checkpoints/registry.py)  *)
(* over the study engine.                                                  *)
(*                                                                         *)
(* A checkpoint is evaluated on the sealed results of complete studies,    *)
(* compared with a baseline, and promoted, rejected, quarantined or revoked *)
(* by decisions that form its history.  Operators run these operations in  *)
(* any order and while studies go on; each is one database transaction.    *)
(*                                                                         *)
(* One sealed suite and one policy: the candidate's success rate must not  *)
(* fall below the baseline's, and no hard gate of either may fail.         *)
(* Digests, verifier records and the replay of decision ids are left out.  *)
(***************************************************************************)
EXTENDS StudyEngine, Sequences

CONSTANT Parent     \* checkpoint -> its parent checkpoint, or NoRow

VARIABLES
    checkpoint,     \* checkpoint -> CheckpointRow.status, "absent" without a row
    evaluation,     \* <<study, checkpoint>> -> its CheckpointEvaluationRow, or NoRow
    comparisons,    \* the CheckpointComparisonRows
    decisions       \* checkpoint -> its CheckpointDecisionRows, in order

registryVars == <<checkpoint, evaluation, comparisons, decisions>>

Statuses == {"absent", "candidate", "evaluating", "promoted",
             "rejected", "quarantined", "revoked"}
Places   == Studies \X Checkpoints
Comparisons == [baseline : Places, candidate : Places, recommended : BOOLEAN]

ASSUME ParentAssumption ==
    /\ Parent \in [Checkpoints -> Checkpoints \union {NoRow}]
    /\ NoRow \notin Checkpoints \union Comparisons

CheckpointInit ==
    /\ checkpoint = [c \in Checkpoints |-> "absent"]
    /\ evaluation = [p \in Places |-> NoRow]
    /\ comparisons = {}
    /\ decisions = [c \in Checkpoints |-> <<>>]

-----------------------------------------------------------------------------
RegisterCheckpoint(c) ==
    /\ checkpoint[c] = "absent"
    /\ Parent[c] # NoRow => checkpoint[Parent[c]] # "absent"
    /\ checkpoint' = [checkpoint EXCEPT ![c] = "candidate"]
    /\ UNCHANGED <<evaluation, comparisons, decisions>>

\* action_matches_transition of CheckpointDecisionRecord.
Sources(to) ==
    CASE to = "evaluating"  -> {"candidate"}
      [] to = "promoted"    -> {"evaluating"}
      [] to = "rejected"    -> {"evaluating"}
      [] to = "revoked"     -> {"promoted"}
      [] to = "quarantined" -> {"candidate", "evaluating", "promoted"}

\* _transition: the status and the decision that explains it change together.
Decide(c, to, comparison) ==
    /\ checkpoint[c] \in Sources(to)
    /\ checkpoint' = [checkpoint EXCEPT ![c] = to]
    /\ decisions' = [decisions EXCEPT ![c] =
          Append(@, [from |-> checkpoint[c], to |-> to, comparison |-> comparison])]
    /\ UNCHANGED <<evaluation, comparisons>>

StartEvaluation(c) == Decide(c, "evaluating", NoRow)
QuarantineCheckpoint(c) == Decide(c, "quarantined", NoRow)
Revoke(c)          == Decide(c, "revoked", NoRow)

\* _validate_metric_evidence: the metric is that of the one sealed result of
\* its study and condition, and the result permits a causal claim.
Evidenced(s, c, solved, total) ==
    /\ study[s] = "complete" /\ result[<<s, c>>] # NoRow
    /\ result[<<s, c>>].causal
    /\ result[<<s, c>>].solved = solved /\ result[<<s, c>>].total = total

\* record_evaluation; passed says whether every hard gate passed.
RecordEvaluation(s, c, passed) ==
    /\ evaluation[<<s, c>>] = NoRow
    /\ checkpoint[c] \in {"evaluating", "promoted"}
    /\ result[<<s, c>>] # NoRow /\ Evidenced(s, c, result[<<s, c>>].solved, result[<<s, c>>].total)
    /\ evaluation' = [evaluation EXCEPT ![<<s, c>>] =
          [solved |-> result[<<s, c>>].solved, total |-> result[<<s, c>>].total, passed |-> passed]]
    /\ UNCHANGED <<checkpoint, comparisons, decisions>>

\* _build_comparison_record.
Recommended(base, cand) ==
    /\ evaluation[base].passed /\ evaluation[cand].passed
    /\ evaluation[cand].solved * evaluation[base].total
          >= evaluation[base].solved * evaluation[cand].total

Supported(p) == Evidenced(p[1], p[2], evaluation[p].solved, evaluation[p].total)

Compare(base, cand) ==
    /\ evaluation[base] # NoRow /\ evaluation[cand] # NoRow
    /\ base[2] # cand[2]
    /\ checkpoint[cand[2]] = "evaluating"
    /\ Supported(base) /\ Supported(cand)
    /\ comparisons' = comparisons \union
          {[baseline |-> base, candidate |-> cand, recommended |-> Recommended(base, cand)]}
    /\ UNCHANGED <<checkpoint, evaluation, decisions>>

\* recompute_comparison.
Recomputed(m) ==
    /\ Supported(m.baseline) /\ Supported(m.candidate)
    /\ m.recommended = Recommended(m.baseline, m.candidate)

Finalize(m, promote) ==
    /\ m \in comparisons
    /\ promote => m.recommended /\ Recomputed(m)
    /\ Decide(m.candidate[2], IF promote THEN "promoted" ELSE "rejected", m)

CheckpointNext ==
    \/ \E c \in Checkpoints : \/ RegisterCheckpoint(c)
                              \/ StartEvaluation(c)
                              \/ QuarantineCheckpoint(c)
                              \/ Revoke(c)
    \/ \E s \in Studies, c \in Checkpoints, passed \in BOOLEAN : RecordEvaluation(s, c, passed)
    \/ \E base, cand \in Places : Compare(base, cand)
    \/ \E m \in comparisons, promote \in BOOLEAN : Finalize(m, promote)

-----------------------------------------------------------------------------
(* Properties.                                                             *)

CheckpointTypeOK ==
    /\ checkpoint \in [Checkpoints -> Statuses]
    /\ evaluation \in [Places -> [solved : Nat, total : Nat, passed : BOOLEAN] \union {NoRow}]
    /\ comparisons \subseteq Comparisons
    /\ decisions \in [Checkpoints -> Seq([from : Statuses, to : Statuses,
                                          comparison : Comparisons \union {NoRow}])]

\* The last decision on c to its present status.
Latest(c) == decisions[c][Len(decisions[c])]

\* What the blocks of p say today, counted again.
Analyzed(p) == BlocksOf[p] # {} /\ \A b \in BlocksOf[p] : outcome[b] \in {"solved", "failed"}
Solved(p)   == Cardinality({b \in BlocksOf[p] : outcome[b] = "solved"})

\* A promoted checkpoint would be promoted again: the comparison its decision
\* cites is about it, and counting the blocks of both sides anew still finds
\* every block analyzed and the candidate not behind its baseline.
PromotionsRecompute ==
    \A c \in Checkpoints : checkpoint[c] = "promoted" =>
        LET m == Latest(c).comparison  base == m.baseline  cand == m.candidate IN
        /\ m # NoRow /\ cand[2] = c /\ base[2] # c
        /\ base[1] \in Comparable /\ cand[1] \in Comparable
        /\ Analyzed(base) /\ Analyzed(cand)
        /\ Solved(cand) * Cardinality(BlocksOf[base]) >= Solved(base) * Cardinality(BlocksOf[cand])

=============================================================================
