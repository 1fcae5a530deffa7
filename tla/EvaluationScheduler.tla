------------------------- MODULE EvaluationScheduler -------------------------
(***************************************************************************)
(* Retention and interference trials (padawan/studies/scheduler.py) over   *)
(* the corpus registry and the studies.                                    *)
(*                                                                         *)
(* A due trial is leased together with its one item, under one token and   *)
(* for one time.  The registry knows nothing of trials: it recovers, leases *)
(* and retires items for other owners meanwhile, and a worker may present  *)
(* the token of its trial long after both leases ran out.  Each operation  *)
(* is one database transaction.                                            *)
(*                                                                         *)
(* A trial's definition is immutable, so its study, student, item and      *)
(* source are constants; the items' owner column names the trial.  That an *)
(* item is evaluation-only inventory of the source's competency, and when  *)
(* a trial is due, is left out.                                            *)
(***************************************************************************)
EXTENDS CorpusRegistry, StudyEngine

CONSTANTS
    Trials,         \* trial ids
    StudyOf,        \* trial -> study
    StudentOf,      \* trial -> student
    ItemOf,         \* trial -> item
    SourceOf        \* trial -> its trial type and source episode

ASSUME SchedulerAssumption ==
    /\ StudyOf \in [Trials -> Studies] /\ StudentOf \in [Trials -> Students]
    /\ ItemOf \in [Trials -> Items] /\ DOMAIN SourceOf = Trials
    /\ Trials \subseteq Owners

VARIABLE trial      \* trial -> its EvaluationTrialRow

schedulerVars == <<corpusVars, trial>>

Unleased == [status |-> "absent", token |-> NULL, left |-> 0, outcome |-> "none"]

TrialRows == [status : {"absent", "scheduled", "leased", "complete"},
              token : Tokens \union {NULL}, left : 0..LeaseFor,
              outcome : {"none", "exposed", "infrastructure"}]

SchedulerInit == Init /\ trial = [k \in Trials |-> Unleased]

-----------------------------------------------------------------------------
Scheduled(row) == [row EXCEPT !.status = "scheduled", !.token = NULL, !.left = 0]

\* uq_evaluation_trial_freshness: one trial of a source on a group.
SameProbe(j, k) ==
    /\ StudyOf[j] = StudyOf[k] /\ StudentOf[j] = StudentOf[k] /\ SourceOf[j] = SourceOf[k]
    /\ GroupOf[ItemOf[j]] = GroupOf[ItemOf[k]]

Schedule(k) ==
    /\ trial[k].status = "absent"
    /\ study[StudyOf[k]] = "active"
    /\ status[ItemOf[k]] = "active"
    /\ \A e \in exposures : e.student = StudentOf[k] => GroupOf[e.item] # GroupOf[ItemOf[k]]
    /\ \A j \in Trials : trial[j].status # "absent" => ~SameProbe(j, k)
    /\ trial' = [trial EXCEPT ![k] = Scheduled(@)]
    /\ UNCHANGED corpusVars

\* recover_expired, which opens claim_due: an overdue trial is due again, and
\* its item returns to the inventory if it still carries the trial's token.
Overdue  == {k \in Trials : trial[k].status = "leased" /\ trial[k].left = 0}
Returned == {ItemOf[k] : k \in {o \in Overdue : lease[ItemOf[o]].token = trial[o].token}}

RecoverTrials ==
    /\ Overdue # {}
    /\ trial' = [k \in Trials |-> IF k \in Overdue THEN Scheduled(trial[k]) ELSE trial[k]]
    /\ Drop(Returned, {"leased", "retired"}, "active")
    /\ UNCHANGED <<grant, exposures, contaminated, retiring>>

ClaimableThoughHeld(k) == trial[k].status = "scheduled" \/ k \in Overdue

Claimable(k) ==
    /\ trial[k].status = "scheduled" \/ k \in Overdue
    /\ status[ItemOf[k]] = "active" \/ ItemOf[k] \in Returned

ClaimDue(k, t) ==
    /\ grant[t] = NULL /\ Claimable(k)
    /\ trial' = [j \in Trials |->
          IF j = k THEN [trial[k] EXCEPT !.status = "leased", !.token = t, !.left = LeaseFor]
          ELSE IF j \in Overdue THEN Scheduled(trial[j]) ELSE trial[j]]
    /\ status' = [i \in Items |-> IF i = ItemOf[k] THEN "leased"
                                  ELSE IF i \in Returned THEN "active" ELSE status[i]]
    /\ lease' = [i \in Items |->
          IF i = ItemOf[k] THEN [owner |-> k, token |-> t, left |-> LeaseFor]
          ELSE IF i \in Returned THEN NoLease ELSE lease[i]]
    /\ grant' = [grant EXCEPT ![t] =
          [owner |-> k, student |-> StudentOf[k], items |-> {ItemOf[k]}]]
    /\ UNCHANGED <<exposures, contaminated, retiring>>

\* The outcomes the holder of t may report: an exposure of the trial's item
\* under the trial's name, or an infrastructure failure without one.
Reports(k) ==
    {"infrastructure"} \union
    {o \in {"exposed"} : \E e \in exposures : e.owner = k /\ e.item = ItemOf[k]}

CompleteUnheld(k, t, report) ==
    /\ trial[k].status = "leased" /\ trial[k].token = t
    /\ report \in Reports(k)
    /\ trial' = [trial EXCEPT ![k] =
          [status |-> "complete", token |-> NULL, left |-> 0, outcome |-> report]]
    /\ status' = [status EXCEPT ![ItemOf[k]] = "active"]
    /\ lease' = [lease EXCEPT ![ItemOf[k]] = NoLease]
    /\ UNCHANGED <<grant, exposures, contaminated, retiring>>

\* complete requires the token on the trial and on its item.
Complete(k, t, report) ==
    /\ trial[k].status = "leased" /\ trial[k].token = t
    /\ lease[ItemOf[k]].token = t
    /\ report \in Reports(k)
    /\ trial' = [trial EXCEPT ![k] =
          [status |-> "complete", token |-> NULL, left |-> 0, outcome |-> report]]
    /\ status' = [status EXCEPT ![ItemOf[k]] = "active"]
    /\ lease' = [lease EXCEPT ![ItemOf[k]] = NoLease]
    /\ UNCHANGED <<grant, exposures, contaminated, retiring>>

\* One clock for both leases.
TickBoth ==
    /\ Tick
    /\ trial' = [k \in Trials |-> [trial[k] EXCEPT !.left = IF @ > 0 THEN @ - 1 ELSE 0]]

\* Calls of the registry.  Runs hand their items back; a trial's worker only
\* records exposures and completes.
OfARun(t) == grant[t] # NULL /\ grant[t].owner \notin Trials

RegistryStep ==
    /\ \/ \E S \in SUBSET Items, valid \in BOOLEAN : Register(S, valid)
       \/ Recover
       \/ \E o \in Owners \ Trials, s \in Students, t \in Tokens :
             LeaseItem(o, s, t) \/ LeaseMatchedGroup(o, s, t)
       \/ \E t \in Tokens, i \in Items :
             \/ OfARun(t) /\ (ReleaseLease(t, i) \/ RecordPromptAndReturn(t, i) \/ ReadSiblings(t, i))
             \/ \E answer \in BOOLEAN : RecordExposure(t, i, answer)
       \/ \E i \in Items : Retire(i) \/ Abort(i)
       \/ \E i \in Items, closeFamily \in BOOLEAN : Quarantine(i, closeFamily)
    /\ UNCHANGED trial

SchedulerNext ==
    \/ RegistryStep
    \/ \E k \in Trials : Schedule(k)
    \/ RecoverTrials
    \/ \E k \in Trials, t \in Tokens : ClaimDue(k, t)
    \/ \E k \in Trials, t \in Tokens, report \in {"exposed", "infrastructure"} :
          Complete(k, t, report)
    \/ TickBoth

-----------------------------------------------------------------------------
(* Properties.                                                             *)

SchedulerTypeOK == CorpusTypeOK /\ trial \in [Trials -> TrialRows]

\* "Trial and item leases share an opaque token and recover together": while
\* the lease of a trial runs, so does that of its item, under the same token
\* and for as long, unless the item left the inventory; no recovery, claim or
\* completion of somebody else takes the item away.
TrialsHoldTheirItems ==
    \A k \in Trials : trial[k].status = "leased" /\ trial[k].left > 0 =>
        LET i == ItemOf[k] IN
        \/ lease[i].token = trial[k].token /\ lease[i].left = trial[k].left
        \/ status[i] \in {"retired", "quarantined"}

\* A trial completes once, and its completion touches no lease but the one it
\* was claimed under: an outcome reported late, after another owner was given
\* the item, neither counts nor frees the item.
OutcomesComeFromHolders ==
    [][\A k \in Trials :
          /\ trial[k].status = "complete" => trial'[k] = trial[k]
          /\ trial[k].status # "complete" /\ trial'[k].status = "complete" =>
                \A i \in Items : lease'[i] # lease[i] => lease[i].token = trial[k].token
      ]_schedulerVars
=============================================================================
