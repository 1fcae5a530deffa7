--------------------------- MODULE ProcessLearning ---------------------------
(***************************************************************************)
(* What a finished process rollout may teach (padawan/training/pprl.py,    *)
(* pprl/store.py, governance/amber_store.py).                              *)
(*                                                                         *)
(* Outcomes, eligibility decisions and the lifecycle of the Amber          *)
(* authorizations are appended in any order, by any caller; a compilation  *)
(* reads all of it as of an earlier moment.  One distribution is modelled, *)
(* whose rights permit learning, with its rollouts and forks already       *)
(* started: how a rollout runs is ProcessRollout's.  Outcomes ineligible   *)
(* for learning and decisions that admit no lane have no effect on a row   *)
(* and are left out.                                                       *)
(***************************************************************************)
EXTENDS EvidenceClock, Sequences, FiniteSets

CONSTANTS
    LearningRollouts,
    InstanceOf,         \* rollout -> its project instance
    AuthorizationOf,    \* rollout -> its Amber authorization
    ForkOf,             \* rollout -> the fork it continues
    ReturnOf,           \* rollout -> the scalar return of its outcome
    SplitOf,            \* rollout -> its ProjectSplit
    MinReplicates,      \* minimum_rollouts_per_instance
    MinInstances,       \* minimum_unique_instances
    LaneChoices,        \* bound: the allowed_lanes a decision may carry
    MaxLifecycle        \* bound: events of one authorization

Authorizations == {AuthorizationOf[r] : r \in LearningRollouts}
LearningLanes  == {"trajectory", "fork_preference", "verifiable_replay"}

ASSUME LearningAssumption ==
    /\ IsFiniteSet(LearningRollouts)
    /\ \A f \in {InstanceOf, AuthorizationOf, ForkOf, SplitOf} : DOMAIN f = LearningRollouts
    /\ ReturnOf \in [LearningRollouts -> Int]
    /\ MinReplicates \in Nat \ {0} /\ MinInstances \in Nat \ {0}
    /\ LaneChoices \subseteq (SUBSET LearningLanes) \ {{}}

VARIABLES
    ended,          \* rollout -> its status and the stamp of its last event
    assessed,       \* rollout -> stamp of its outcome
    rulings,        \* the eligible ProcessTrainingEligibilityRows
    lifecycle,      \* authorization -> its AmberAuthorizationEvents since active
    lapsed          \* the authorizations whose expires_at has passed

learningVars == <<ended, assessed, rulings, lifecycle, lapsed>>

LearningInit ==
    /\ ended = [r \in LearningRollouts |-> [status |-> "active", at |-> Never]]
    /\ assessed = [r \in LearningRollouts |-> Never]
    /\ rulings = {}
    /\ lifecycle = [u \in Authorizations |-> <<[to |-> "active", at |-> 0]>>]
    /\ lapsed = {}

CurrentStatus(u) == lifecycle[u][Len(lifecycle[u])].to

TrainingStatuses == {"active", "paused", "release_approved"}
WithdrawnStatuses == {"quarantined", "revoked", "expired"}

-----------------------------------------------------------------------------
\* The end of a rollout.  Its last event was admitted by an active Amber
\* lifecycle, as _validate_rollout_governance asks of each; an abandonment needs
\* none.
EndRollout(r, how) ==
    /\ ended[r].status = "active" /\ now < Never
    /\ how = "complete" => CurrentStatus(AuthorizationOf[r]) = "active" /\ AuthorizationOf[r] \notin lapsed
    /\ ended' = [ended EXCEPT ![r] = [status |-> how, at |-> now]]
    /\ UNCHANGED <<assessed, rulings, lifecycle, lapsed>>

RecordOutcome(r) ==
    /\ ended[r].status # "abandoned" /\ Stamp(assessed, r)
    /\ assessed' = [assessed EXCEPT ![r] = now]
    /\ UNCHANGED <<ended, rulings, lifecycle, lapsed>>

\* record_training_eligibility: the rollout need not have ended yet.
RecordTrainingEligibility(r, lanes) ==
    /\ ended[r].status # "abandoned"
    /\ assessed[r] # Never
    /\ CurrentStatus(AuthorizationOf[r]) \in TrainingStatuses
    /\ rulings' = rulings \union {[rollout |-> r, lanes |-> lanes, at |-> now]}
    /\ UNCHANGED <<ended, assessed, lifecycle, lapsed>>

\* _AMBER_TRANSITIONS, from an active lifecycle on
Successors(status) ==
    CASE status = "active" -> {"paused"} \union WithdrawnStatuses
      [] status = "paused" -> {"active", "release_approved"} \union WithdrawnStatuses
      [] status \in {"quarantined", "release_approved"} -> {"revoked"}
      [] status \in {"revoked", "expired"} -> {}

AmberTransition(u, to) ==
    /\ Len(lifecycle[u]) < MaxLifecycle
    /\ to \in Successors(CurrentStatus(u))
    /\ u \in lapsed => to = "expired"
    /\ lifecycle' = [lifecycle EXCEPT ![u] = Append(@, [to |-> to, at |-> now])]
    /\ UNCHANGED <<ended, assessed, rulings, lapsed>>

Lapse(u) ==
    /\ u \notin lapsed
    /\ lapsed' = lapsed \union {u}
    /\ UNCHANGED <<ended, assessed, rulings, lifecycle>>

LearningNext ==
    \/ \E r \in LearningRollouts, how \in {"complete", "abandoned"} : EndRollout(r, how)
    \/ \E r \in LearningRollouts : RecordOutcome(r)
    \/ \E r \in LearningRollouts, lanes \in LaneChoices : RecordTrainingEligibility(r, lanes)
    \/ \E u \in Authorizations, to \in TrainingStatuses \union WithdrawnStatuses :
          AmberTransition(u, to)
    \/ \E u \in Authorizations : Lapse(u)

-----------------------------------------------------------------------------
(* compile_pprl_snapshot: the rows as of t.                                *)

StatusAt(u, t) == LastOf(AsOf(lifecycle[u], t)).to

\* Neither the lane nor the minima: what _rollout_reasons asks of the rollout.
Teachable(r, t) ==
    /\ ended[r].status = "complete" /\ ended[r].at <= t
    /\ SplitOf[r] # "sealed"
    /\ StatusAt(AuthorizationOf[r], t) \in TrainingStatuses

Admitted(r, lane, t) ==
    \E d \in rulings : d.rollout = r /\ lane \in d.lanes /\ d.at <= t

RolloutsOf(S, i) == {r \in S : InstanceOf[r] = i}

\* The distribution's minima, over the rollouts S.
Replicated(S) ==
    Cardinality({i \in {InstanceOf[r] : r \in S} :
                    Cardinality(RolloutsOf(S, i)) >= MinReplicates}) >= MinInstances

LearningFrom(lane, t) ==
    {r \in LearningRollouts : Teachable(r, t) /\ Admitted(r, lane, t)}

ReplicationReady(t) == Replicated(LearningFrom("trajectory", t))

\* The best and the worst continuation of a fork, if one is better.
ForkPairs(t) ==
    LET candidates == {r \in LearningFrom("trajectory", t) : Admitted(r, "fork_preference", t)}
        siblings == {{r \in candidates : ForkOf[r] = f} : f \in {ForkOf[r] : r \in candidates}}
    IN {BestAndWorst(S, ReturnOf) : S \in {T \in siblings : Uneven(T, ReturnOf)}}

Row(kind, sources) == [kind |-> kind, from |-> sources]

LearningKinds == {"pprl_trajectory", "pprl_verifiable", "pprl_fork_preference"}

\* Nothing is taught before the distribution is replicated.
LearningRows(t) ==
    IF ~ReplicationReady(t) THEN {}
    ELSE {Row("pprl_trajectory", {r}) : r \in LearningFrom("trajectory", t)}
         \union {Row("pprl_verifiable", {r}) : r \in LearningFrom("verifiable_replay", t)}
         \union {Row("pprl_fork_preference", pair) : pair \in ForkPairs(t)}

\* The records the snapshot digest covers.
LearningEvidence(t) ==
    [ended |-> {<<r, ended[r].status>> : r \in {q \in LearningRollouts : ended[q].at <= t}},
     assessed |-> {r \in LearningRollouts : assessed[r] <= t},
     rulings |-> {d \in rulings : d.at <= t},
     lifecycle |-> [u \in Authorizations |-> AsOf(lifecycle[u], t)]]

\* Of the exclusions, those that no later record undoes: rows of a withdrawn
\* lineage.
WithdrawnSources(t) ==
    LearningKinds \X {r \in LearningRollouts : StatusAt(AuthorizationOf[r], t) \in WithdrawnStatuses}
=============================================================================
