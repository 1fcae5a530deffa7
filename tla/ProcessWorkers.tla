---------------------------- MODULE ProcessWorkers ----------------------------
(***************************************************************************)
(* Registered workers of an enrolled process execution                     *)
(* (padawan/pprl/worker_identities.py, worker_broker.py): enrollment,      *)
(* credentials, leased assignments, the broker's requests, and what the    *)
(* trusted executor and the reviewer do to an assignment.                  *)
(*                                                                         *)
(* A worker has its request delivered once or more often, to any broker.   *)
(* A broker reads the clock, looks for a reply on record, waits for the    *)
(* row of the rollout, and does everything else in one transaction: any    *)
(* refusal or exception rolls it back, and the worker is told that it was  *)
(* denied.  A reply on record is judged as of the clock read before the    *)
(* wait, everything else as of one read after it.                          *)
(*                                                                         *)
(* A lease token is the place of its claim in leases, which also stands    *)
(* for the assignment: claim_next makes both in one transaction.  An       *)
(* observation is named by its lease and the authorization sequence, for   *)
(* its id is a digest of these.  Funding and the executor's own steps are  *)
(* those of ProcessRollout; here an action is admitted, started and        *)
(* committed.                                                              *)
(***************************************************************************)
EXTENDS Naturals, Sequences, FiniteSets

CONSTANTS
    Rollouts, Workers, Brokers,
    Requests,           \* request ids
    MaxRegistered,      \* ProcessWorkerScope.maximum_registered_workers
    MaxRecords,         \* ProcessWorkerScope.maximum_request_records
    MaxLeases, MaxDecisions, MaxTransitions,    \* bounds
    NULL

ASSUME WorkersAssumption ==
    /\ {MaxRegistered, MaxRecords, MaxLeases, MaxDecisions, MaxTransitions} \subseteq Nat
    /\ NULL \notin Nat \union Workers \union Requests

VARIABLES
    enrolled,       \* whether the execution has a ProcessWorkerScopeRow
    authority,      \* AmberAuthorizationHeadRow
    registrations,  \* worker -> its head, and whether its credential expired
    rollouts,       \* rollout -> ProcessRolloutRow, status "none" without one
    leases,         \* the claims: ProcessWorkerLeaseAssignmentRow, worker NULL without one
    decisions,      \* AmberAdmissionDecisionRow with its binding
    receipts,       \* ProcessWorkerRequestRow
    flights         \* broker -> the request it is serving and what its instant could see,
                    \*   or whether it denied the last one

vars == <<enrolled, authority, registrations, rollouts, leases, decisions, receipts, flights>>

NoFlight(outcome) ==
    [at |-> outcome, worker |-> NULL, request |-> NULL,
     content |-> [kind |-> NULL, lease |-> NULL, source |-> NULL],
     sequence |-> NULL, shown |-> FALSE]

Init ==
    /\ enrolled = FALSE
    /\ authority = [status |-> "active", sequence |-> 0]
    /\ registrations = [w \in Workers |-> [status |-> "none", expired |-> FALSE]]
    /\ rollouts = [r \in Rollouts |->
            [status |-> "none", sequence |-> 0, lease |-> NULL, live |-> FALSE]]
    /\ leases = << >>
    /\ decisions = << >>
    /\ receipts = {}
    /\ flights = [b \in Brokers |-> NoFlight("idle")]

-----------------------------------------------------------------------------
(* What the transactions read.                                             *)

InForce == authority.status = "active"

\* identify
Identified(w) ==
    registrations[w].status = "active" /\ ~registrations[w].expired /\ InForce

\* require: the lease is the assignment under which its worker may act now.
Current(l) ==
    LET row == rollouts[leases[l].rollout] IN
    /\ Identified(leases[l].worker)
    /\ row.lease = l /\ row.live /\ row.status = "active"
    /\ row.sequence = leases[l].from

Unresolved(r) ==
    {d \in DOMAIN decisions :
        leases[decisions[d].lease].rollout = r /\ decisions[d].phase \in {"reserved", "started"}}

\* claim_next's filter; the kind of caller is matched with the execution.
Claimable(r) ==
    /\ rollouts[r].status = "active" /\ ~rollouts[r].live
    /\ InForce /\ Unresolved(r) = {}

Owner(r) == leases[rollouts[r].lease].worker

HoldsAnother(w, r) ==
    \E o \in Rollouts \ {r} : rollouts[o].live /\ Owner(o) = w

OnRecord(w, q) == {s \in receipts : s.worker = w /\ s.request = q}

\* The reply on record for a flight, if the worker may still be given it:
\* the same content, its assignment current, its observation unchanged.
Repliable(f) ==
    \E s \in OnRecord(f.worker, f.request) :
        /\ s.content = f.content /\ Current(s.lease) /\ s.seen = authority.sequence

\* The observation of lease l under the present authorization is on record.
Shown(l) == \E s \in receipts : s.lease = l /\ s.seen = authority.sequence

\* The authorization or the observation of a flight's reply may bear a stamp
\* later than the instant of the flight: it was committed after that.
Outdated(f) == f.sequence # authority.sequence \/ ~f.shown

(* What they write.                                                        *)

Freed(row, status) == [row EXCEPT !.status = status, !.lease = NULL, !.live = FALSE]

Leased(r, w) ==
    /\ leases' = Append(leases, [worker |-> w, rollout |-> r, from |-> rollouts[r].sequence])
    /\ rollouts' = [rollouts EXCEPT ![r].lease = Len(leases) + 1, ![r].live = TRUE]

-----------------------------------------------------------------------------
(* Operators, reviewers, time.                                             *)

\* enroll, under the lock that create_rollout takes.
Enroll ==
    /\ InForce /\ ~enrolled
    /\ \A r \in Rollouts : rollouts[r].status = "none"
    /\ enrolled' = TRUE
    /\ UNCHANGED <<authority, registrations, rollouts, leases, decisions, receipts, flights>>

CreateRollout(r) ==
    /\ InForce /\ rollouts[r].status = "none"
    /\ rollouts' = [rollouts EXCEPT ![r].status = "active"]
    /\ UNCHANGED <<enrolled, authority, registrations, leases, decisions, receipts, flights>>

\* A credential ends no later than its envelope, whose expiry is therefore
\* left out.
Transition(to) ==
    /\ authority.sequence < MaxTransitions /\ authority.status # "ended"
    /\ to # authority.status
    /\ authority' = [status |-> to, sequence |-> authority.sequence + 1]
    /\ UNCHANGED <<enrolled, registrations, rollouts, leases, decisions, receipts, flights>>

\* issue; a worker id is never used again.
Issue(w) ==
    /\ enrolled /\ InForce /\ registrations[w].status = "none"
    /\ Cardinality({v \in Workers : registrations[v].status = "active"
                                    /\ ~registrations[v].expired}) < MaxRegistered
    /\ registrations' = [registrations EXCEPT ![w].status = "active"]
    /\ UNCHANGED <<enrolled, authority, rollouts, leases, decisions, receipts, flights>>

\* revoke neither asks for an active authority nor touches a lease.
Revoke(w) ==
    /\ registrations[w].status = "active"
    /\ registrations' = [registrations EXCEPT ![w].status = "revoked"]
    /\ UNCHANGED <<enrolled, authority, rollouts, leases, decisions, receipts, flights>>

\* The clock passes the lease_expires_at of r.
LeaseExpires(r) ==
    /\ rollouts[r].live
    /\ rollouts' = [rollouts EXCEPT ![r].live = FALSE]
    /\ UNCHANGED <<enrolled, authority, registrations, leases, decisions, receipts, flights>>

\* The clock passes the expires_at of a registration, after that of its leases.
CredentialExpires(w) ==
    /\ registrations[w].status # "none" /\ ~registrations[w].expired
    /\ \A r \in Rollouts : rollouts[r].live => Owner(r) # w
    /\ registrations' = [registrations EXCEPT ![w].expired = TRUE]
    /\ UNCHANGED <<enrolled, authority, rollouts, leases, decisions, receipts, flights>>

\* ProcessCoordinator, whose claims never meet an enrolled execution.
CoordinatorClaims(r) ==
    /\ ~enrolled /\ Claimable(r) /\ Len(leases) < MaxLeases
    /\ Leased(r, NULL)
    /\ UNCHANGED <<enrolled, authority, registrations, decisions, receipts, flights>>

(* recover: a lease is taken from its worker only if that cannot use it,   *)
(* and the reviewer may retire the worker with it.                         *)
Recover(r, retire, resume) ==
    LET row == rollouts[r]
        pending == Unresolved(r)
        started == {d \in pending : decisions[d].phase = "started"}
        owned == enrolled /\ row.lease # NULL IN
    /\ row.status \in {"active", "paused", "review_required"}
    /\ ~(/\ row.live /\ row.status = "active" /\ InForce
         /\ owned => Identified(Owner(r)))
    /\ decisions' = [d \in DOMAIN decisions |->
            IF d \in pending \ started THEN [decisions[d] EXCEPT !.phase = "released"]
                                       ELSE decisions[d]]
    /\ rollouts' = [rollouts EXCEPT ![r] = Freed(@,
            IF started # {} THEN "review_required"
            ELSE IF InForce /\ (resume \/ row.status = "active") THEN "active" ELSE "paused")]
    /\ registrations' = IF owned /\ retire
                        THEN [registrations EXCEPT ![Owner(r)].status = "revoked"]
                        ELSE registrations
    /\ UNCHANGED <<enrolled, authority, leases, receipts, flights>>

-----------------------------------------------------------------------------
(* ProcessWorkerBroker._request.                                           *)

Contents ==
    [kind : {"claim"}, lease : {NULL}, source : {NULL}]
    \union [kind : {"observe"}, lease : DOMAIN leases, source : {NULL}]
    \union [kind : {"propose"}, lease : DOMAIN leases, source : Requests]

Conclude(b, outcome) == flights' = [flights EXCEPT ![b] = NoFlight(outcome)]

\* A request is delivered, for the first time or again: identify and the first
\* look for a reply.
Receive(b, w, q, content) ==
    LET f == [at |-> "looked", worker |-> w, request |-> q, content |-> content,
              sequence |-> authority.sequence,
              shown |-> OnRecord(w, q) # {} \/ Shown(content.lease)] IN
    /\ flights[b].at # "looked"
    /\ IF Identified(w) THEN flights' = [flights EXCEPT ![b] = f] ELSE Conclude(b, "denied")
    /\ UNCHANGED <<enrolled, authority, registrations, rollouts, leases, decisions, receipts>>

\* The receipt: within the quota, and unique for the worker and its request.
Retain(b, lease, seen, decision) ==
    LET f == flights[b] IN
    /\ OnRecord(f.worker, f.request) = {}
    /\ Cardinality({s \in receipts : s.worker = f.worker}) < MaxRecords
    /\ receipts' = receipts \union
            {[worker |-> f.worker, request |-> f.request, content |-> f.content,
              lease |-> lease, seen |-> seen, decision |-> decision]}
    /\ Conclude(b, "idle")

ClaimBeside(b) ==
    LET f == flights[b] IN
    /\ f.at = "looked" /\ f.content.kind = "claim"
    /\ enrolled /\ Identified(f.worker) /\ Len(leases) < MaxLeases
    /\ \E r \in Rollouts : Claimable(r) /\ Leased(r, f.worker)
    /\ Retain(b, Len(leases) + 1, authority.sequence, NULL)
    /\ UNCHANGED <<enrolled, authority, registrations, decisions>>

\* claim_next with bind_claim, and observe_claim.
Claim(b) ==
    LET f == flights[b] IN
    /\ f.at = "looked" /\ f.content.kind = "claim"
    /\ enrolled /\ Identified(f.worker) /\ Len(leases) < MaxLeases
    /\ \E r \in Rollouts : Claimable(r) /\ ~HoldsAnother(f.worker, r) /\ Leased(r, f.worker)
    /\ Retain(b, Len(leases) + 1, authority.sequence, NULL)
    /\ UNCHANGED <<enrolled, authority, registrations, decisions>>

\* The worker's own assignment, and it is current.
Addressed(f) ==
    /\ f.at = "looked" /\ f.content.kind \in {"observe", "propose"}
    /\ leases[f.content.lease].worker = f.worker /\ Current(f.content.lease)

\* The request was on record, or another broker has committed it while this
\* one waited; for a claim there is no second look.  What was committed since
\* may still have been stamped before.
AnswerAgain(b) ==
    LET f == flights[b] IN
    /\ f.at = "looked" /\ Repliable(f)
    /\ f.content.kind = "claim" => f.shown
    /\ Conclude(b, "idle")
    /\ UNCHANGED <<enrolled, authority, registrations, rollouts, leases, decisions, receipts>>

Observe(b) ==
    LET f == flights[b] IN
    /\ Addressed(f) /\ f.content.kind = "observe"
    /\ Retain(b, f.content.lease, authority.sequence, NULL)
    /\ UNCHANGED <<enrolled, authority, registrations, rollouts, leases, decisions>>

ObservedOnce(f) ==
    \E s \in OnRecord(f.worker, f.content.source) :
        s.content.kind \in {"claim", "observe"} /\ s.lease = f.content.lease

\* The observation that the proposal names was delivered on this assignment,
\* and is what the worker would be shown now.
Observed(f) ==
    \E s \in OnRecord(f.worker, f.content.source) :
        /\ s.content.kind \in {"claim", "observe"}
        /\ s.lease = f.content.lease /\ s.seen = authority.sequence

(* AmberStore.admit with bind_decision.  A denial is retained as well;     *)
(* refused: a reason of the proposal's own.                                *)
Propose(b, refused) ==
    LET f == flights[b]
        admitted == /\ ~refused
                    /\ Unresolved(leases[f.content.lease].rollout) = {} IN
    /\ Addressed(f) /\ f.content.kind = "propose" /\ Observed(f)
    /\ Len(decisions) < MaxDecisions
    /\ decisions' = Append(decisions,
            [lease |-> f.content.lease, authority |-> authority.sequence,
             phase |-> IF admitted THEN "reserved" ELSE "denied"])
    /\ Retain(b, f.content.lease, authority.sequence, Len(decisions) + 1)
    /\ UNCHANGED <<enrolled, authority, registrations, rollouts, leases>>

DenyRetried(b) ==
    /\ flights[b].at = "looked"
    /\ Addressed(flights[b]) => OnRecord(flights[b].worker, flights[b].request) # {}
    /\ Conclude(b, "denied")
    /\ UNCHANGED <<enrolled, authority, registrations, rollouts, leases, decisions, receipts>>

\* A request that cannot be served any more, for no rollout may be there to
\* claim, or its lease would outlast the credential; or a reply on record that
\* may not be given again, or not as of the instant of the flight.
Deny(b) ==
    LET f == flights[b] IN
    /\ f.at = "looked"
    /\ \/ f.content.kind # "claim" /\ ~Addressed(f)
       \/ IF OnRecord(f.worker, f.request) # {} THEN ~Repliable(f) \/ Outdated(f)
          ELSE \/ f.content.kind = "claim"
               \/ Cardinality({s \in receipts : s.worker = f.worker}) >= MaxRecords
               \/ f.content.kind = "propose" /\ ~Observed(f)
    /\ Conclude(b, "denied")
    /\ UNCHANGED <<enrolled, authority, registrations, rollouts, leases, decisions, receipts>>

\* The broker is lost, or its connection.
Drop(b) ==
    /\ flights[b].at = "looked"
    /\ Conclude(b, "idle")
    /\ UNCHANGED <<enrolled, authority, registrations, rollouts, leases, decisions, receipts>>

-----------------------------------------------------------------------------
(* The trusted executor, with the worker's access.                         *)

\* ProcessResourceStore.start
Start(d) ==
    /\ decisions[d].phase = "reserved" /\ Current(decisions[d].lease)
    /\ authority.sequence = decisions[d].authority
    /\ decisions' = [decisions EXCEPT ![d].phase = "started"]
    /\ UNCHANGED <<enrolled, authority, registrations, rollouts, leases, receipts, flights>>

AppendEventUnrequired(d, to) ==
    LET r == leases[decisions[d].lease].rollout IN
    /\ decisions[d].phase = "started" /\ authority.sequence = decisions[d].authority
    /\ rollouts[r].lease = decisions[d].lease /\ rollouts[r].live /\ rollouts[r].status = "active"
    /\ decisions' = [decisions EXCEPT ![d].phase = "committed"]
    /\ rollouts' = [rollouts EXCEPT
            ![r] = [Freed(@, to) EXCEPT !.sequence = rollouts[r].sequence + 1]]
    /\ UNCHANGED <<enrolled, authority, registrations, leases, receipts, flights>>

\* append_event of an enrolled execution
AppendEvent(d, to) ==
    LET r == leases[decisions[d].lease].rollout IN
    /\ decisions[d].phase = "started" /\ authority.sequence = decisions[d].authority
    /\ Current(decisions[d].lease)
    /\ decisions' = [decisions EXCEPT ![d].phase = "committed"]
    /\ rollouts' = [rollouts EXCEPT
            ![r] = [Freed(@, to) EXCEPT !.sequence = rollouts[r].sequence + 1]]
    /\ UNCHANGED <<enrolled, authority, registrations, leases, receipts, flights>>

\* release_claim
Release(l, to) ==
    /\ leases[l].worker # NULL /\ Current(l)
    /\ rollouts' = [rollouts EXCEPT ![leases[l].rollout] = Freed(@, to)]
    /\ UNCHANGED <<enrolled, authority, registrations, leases, decisions, receipts, flights>>

Next ==
    \/ Enroll
    \/ \E to \in {"active", "paused", "ended"} : Transition(to)
    \/ \E w \in Workers : Issue(w) \/ Revoke(w) \/ CredentialExpires(w)
    \/ \E r \in Rollouts :
          \/ CreateRollout(r) \/ LeaseExpires(r) \/ CoordinatorClaims(r)
          \/ \E retire, resume \in BOOLEAN : Recover(r, retire, resume)
    \/ \E b \in Brokers :
          \/ \E w \in Workers, q \in Requests, content \in Contents : Receive(b, w, q, content)
          \/ Claim(b) \/ AnswerAgain(b) \/ Observe(b) \/ Deny(b) \/ Drop(b)
          \/ \E refused \in BOOLEAN : Propose(b, refused)
    \/ \E d \in DOMAIN decisions :
          \/ Start(d)
          \/ \E to \in {"active", "complete"} : AppendEvent(d, to)
    \/ \E l \in DOMAIN leases, to \in {"active", "failed"} : Release(l, to)

Spec == Init /\ [][Next]_vars

-----------------------------------------------------------------------------
(* Properties.                                                             *)

\* In an enrolled execution every lease is the assignment of a registered
\* worker, and no worker holds two at a time, however its requests are
\* delivered (enroll's check for rollouts, bind_claim's for other leases).
LeasesAreAssigned ==
    enrolled => \A r \in Rollouts : rollouts[r].live =>
        /\ Owner(r) \in Workers /\ registrations[Owner(r)].status # "none"
        /\ ~HoldsAnother(Owner(r), r)

\* A decision rests on what its worker was shown: an observation delivered on
\* the same assignment, under the authority that decided it, though Amber was
\* paused and resumed in between (request, observation_request_id).
DecidedAsObserved ==
    \A d \in DOMAIN decisions : \E s \in receipts :
        /\ s.content.kind \in {"claim", "observe"}
        /\ s.lease = decisions[d].lease /\ s.seen = decisions[d].authority

\* A request delivered again is answered again: whatever the other broker does
\* meanwhile, the one that comes second gives the reply on record, though it has
\* the request's own assignment checked first.  It may deny it only if the
\* worker was shown the observation of the reply, or Amber was paused and
\* resumed, after the broker had read its clock.
RetriesAreAnswered ==
    [][\A b \in Brokers :
          flights[b].at = "looked" /\ Repliable(flights[b]) /\ ~Outdated(flights[b])
              => flights'[b].at # "denied"]_vars

\* docs/pprl-assignment-recovery-boundary.md, "an old worker cannot dispatch or
\* commit afterward": whatever was admitted before, no action is started and no
\* state is left but by a worker that is registered at that moment and whose
\* lease no reviewer has taken.
OldWorkersAreFenced ==
    [][\A d \in DOMAIN decisions :
          decisions'[d].phase # decisions[d].phase /\ decisions'[d].phase # "released" =>
              LET l == decisions[d].lease IN
              /\ Identified(leases[l].worker)
              /\ rollouts[leases[l].rollout].lease = l]_vars
=============================================================================
