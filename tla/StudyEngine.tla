---------------------------- MODULE StudyEngine ----------------------------
(***************************************************************************)
(* Studies over experiment blocks (padawan/studies/engine.py,              *)
(* padawan/experiments/engine.py).                                         *)
(*                                                                         *)
(* A study binds experiments to conditions and checkpoints.  Workers record *)
(* the outcome of a block once; completing the study seals one result per  *)
(* condition and checkpoint from the blocks as they are then.  Each        *)
(* operation is one database transaction.                                  *)
(*                                                                         *)
(* A condition is named by its checkpoint.  Of an outcome the model keeps  *)
(* what the aggregate counts; scores and registered aggregation policies   *)
(* are left out.                                                           *)
(***************************************************************************)
EXTENDS Integers, FiniteSets

CONSTANTS
    Studies,        \* study ids
    Checkpoints,    \* checkpoint ids
    PairedBlocks,         \* block ids of the bound experiments
    BlocksOf,       \* <<study, checkpoint>> -> the blocks bound to it
    Comparable,     \* the studies whose research controls are comparable
    NoRow

ASSUME StudyAssumption ==
    /\ BlocksOf \in [Studies \X Checkpoints -> SUBSET PairedBlocks]
    /\ Comparable \subseteq Studies
    /\ IsFiniteSet(PairedBlocks)

VARIABLES
    study,      \* study -> StudyRow.status, "absent" without a row
    outcome,    \* block -> ExperimentBlockRow.outcomes, "none" until recorded
    result      \* <<study, checkpoint>> -> its StudyResultRow, or NoRow

studyVars == <<study, outcome, result>>

StudyStatuses == {"absent", "planned", "active", "complete", "cancelled", "invalid"}

\* Treatment solved or failed, a side without an outcome, excluded blocks.
Outcomes == {"solved", "failed", "partial", "contaminated", "infrastructure"}

Results == [total : Nat, analyzed : Nat, solved : Nat, causal : BOOLEAN]

StudyInit ==
    /\ study = [s \in Studies |-> "absent"]
    /\ outcome = [b \in PairedBlocks |-> "none"]
    /\ result = [p \in Studies \X Checkpoints |-> NoRow]

-----------------------------------------------------------------------------
Counted(B, O) == Cardinality({b \in B : outcome[b] \in O})

\* Mutated forms of a definition stand before it: the bug each one plants must
\* break the property it is paired with.
AggregateOfTheRest(s, c) ==
    LET B == {b \in BlocksOf[<<s, c>>] : outcome[b] \notin {"contaminated", "infrastructure"}}
        analyzed == Counted(B, {"solved", "failed"}) IN
    [total |-> Cardinality(B), analyzed |-> analyzed, solved |-> Counted(B, {"solved"}),
     causal |-> Cardinality(B) > 0 /\ analyzed = Cardinality(B) /\ s \in Comparable]

\* _aggregate_condition and _condition_is_complete_and_analyzable: a causal
\* claim needs every block analyzed.
Aggregate(s, c) ==
    LET B == BlocksOf[<<s, c>>]
        analyzed == Counted(B, {"solved", "failed"}) IN
    [total |-> Cardinality(B), analyzed |-> analyzed, solved |-> Counted(B, {"solved"}),
     causal |-> Cardinality(B) > 0 /\ analyzed = Cardinality(B) /\ s \in Comparable]

CreateStudy(s, status) ==
    /\ study[s] = "absent"
    /\ study' = [study EXCEPT ![s] = status]
    /\ UNCHANGED <<outcome, result>>

RecordLatest(b, o) ==
    /\ outcome' = [outcome EXCEPT ![b] = o]
    /\ UNCHANGED <<study, result>>

\* record_block: the first outcome stays, a replay must equal it.
RecordBlock(b, o) ==
    /\ outcome[b] = "none"
    /\ outcome' = [outcome EXCEPT ![b] = o]
    /\ UNCHANGED <<study, result>>

NextStudyStatuses(status) ==
    CASE status = "planned" -> {"active", "cancelled", "invalid"}
      [] status = "active"  -> {"complete", "cancelled", "invalid"}
      [] OTHER              -> {}

Unfinished(s) ==
    {b \in UNION {BlocksOf[<<s, c>>] : c \in Checkpoints} : outcome[b] = "none"}

SealPresent(s) ==
    result' = [p \in DOMAIN result |->
                  IF p[1] = s /\ BlocksOf[p] # {} THEN Aggregate(s, p[2]) ELSE result[p]]

\* _seal_results, which completion runs in its own transaction.
SealResults(s) ==
    /\ Unfinished(s) = {}
    /\ result' = [p \in DOMAIN result |->
                     IF p[1] = s /\ BlocksOf[p] # {} THEN Aggregate(s, p[2]) ELSE result[p]]

TransitionStudy(s, to) ==
    /\ to \in NextStudyStatuses(study[s])
    /\ IF to = "complete" THEN SealResults(s) ELSE UNCHANGED result
    /\ study' = [study EXCEPT ![s] = to]
    /\ UNCHANGED outcome

StudyNext ==
    \/ \E s \in Studies, status \in {"planned", "active"} : CreateStudy(s, status)
    \/ \E b \in PairedBlocks, o \in Outcomes : RecordBlock(b, o)
    \/ \E s \in Studies, to \in StudyStatuses : TransitionStudy(s, to)

-----------------------------------------------------------------------------
(* Properties.                                                             *)

StudyTypeOK ==
    /\ study \in [Studies -> StudyStatuses]
    /\ outcome \in [PairedBlocks -> Outcomes \union {"none"}]
    /\ result \in [Studies \X Checkpoints -> Results \union {NoRow}]

\* A complete study's results are still what its blocks say, however late a
\* worker records an outcome, and a study that is not complete has none.
SealedResultsStand ==
    \A s \in Studies, c \in Checkpoints :
        result[<<s, c>>] = IF study[s] = "complete" /\ BlocksOf[<<s, c>>] # {}
                       THEN Aggregate(s, c) ELSE NoRow
=============================================================================
