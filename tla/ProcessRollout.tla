--------------------------- MODULE ProcessRollout ---------------------------
(***************************************************************************)
(* Governed process rollouts (padawan/pprl): the rollout store, the        *)
(* coordinator's loop, model generation, Amber admission and lifecycle,    *)
(* the resource ledger they share, reviewed recovery and abandonment.      *)
(*                                                                         *)
(* All rollouts here run under one authorization and draw on its funding.  *)
(* A worker claims a rollout, has an action admitted (which holds          *)
(* capacity), starts it, performs it outside any transaction, and commits  *)
(* the event; each is a transaction of its own and the worker can fail, be *)
(* lost or be overtaken by reviewers between any two.                      *)
(*                                                                         *)
(* A project state is named by its rollout and its sequence.  Usage is one *)
(* number standing for the refundable dimensions of ProcessResources.      *)
(***************************************************************************)
EXTENDS Integers, Sequences, FiniteSets, Functions

CONSTANTS
    Rollouts, Workers,
    Kinds,              \* kinds of action planners propose: "tool", "model"
    Capacity,           \* ProcessResourceGrant.capacity
    Slots,              \* ProcessResourceGrant.concurrent_reservations
    ConcurrentWorkers,  \* AmberBudgetCaps.concurrent_workers
    Usages,             \* initial usage and increments a request may ask for
    Charges,            \* what a provider may report for one call
    MaxClaims, MaxDecisions, MaxTransitions,    \* bounds
    NULL

ASSUME ProcessAssumption ==
    /\ Kinds \subseteq {"tool", "model"}
    /\ {Capacity, Slots, ConcurrentWorkers, MaxClaims, MaxDecisions, MaxTransitions} \subseteq Nat
    /\ Usages \subseteq Nat /\ Charges \subseteq Nat
    /\ Slots <= ConcurrentWorkers
    /\ IsFiniteSet(Rollouts)
    /\ NULL \notin Nat /\ NULL \notin Rollouts

VARIABLES
    rollouts,   \* rollout -> ProcessRolloutRow, status "none" without one
    claims,     \* lease tokens given so far: the next token is claims + 1
    authority,  \* AmberAuthorizationHeadRow, and whether its envelope expired
    account,    \* the last ProcessResourceEvent of the account
    decisions,  \* admission decisions in the order they were recorded
    workers     \* worker -> what the process running its loop remembers

vars == <<rollouts, claims, authority, account, decisions, workers>>

Terminal == {"complete", "failed", "quarantined", "cancelled"}
AmberStatuses == {"prepared", "authorized", "active", "paused", "quarantined",
                  "release_approved", "revoked", "expired"}

\* _AMBER_TRANSITIONS
NextStatuses(status) ==
    CASE status = "prepared"   -> {"authorized", "revoked", "expired"}
      [] status = "authorized" -> {"active", "revoked", "expired"}
      [] status = "active"     -> {"paused", "quarantined", "revoked", "expired"}
      [] status = "paused"     -> {"active", "quarantined", "release_approved",
                                   "revoked", "expired"}
      [] status \in {"quarantined", "release_approved"} -> {"revoked"}
      [] status \in {"revoked", "expired"} -> {}

IdleWorker ==
    [at |-> "idle", rollout |-> NULL, lease |-> NULL, from |-> NULL, seen |-> NULL,
     decision |-> NULL]

Init ==
    /\ rollouts = [r \in Rollouts |->
            [status |-> "none", paused |-> FALSE, sequence |-> 0, opening |-> 0,
             lease |-> NULL, live |-> FALSE, abandoned |-> {}]]
    /\ claims = 0
    /\ authority = [status |-> "prepared", sequence |-> 0, lapsed |-> FALSE]
    /\ account = [funded |-> FALSE, held |-> 0, charged |-> 0, open |-> 0,
                  stopped |-> FALSE]
    /\ decisions = << >>
    /\ workers = [w \in Workers |-> IdleWorker]

-----------------------------------------------------------------------------
(* What the transactions read.                                             *)

InForce == authority.status = "active" /\ ~authority.lapsed

Abandoned(r) == rollouts[r].abandoned # {}

Admitted(d) == decisions[d].phase # "denied"

UnresolvedUntilCharged(r) ==
    {d \in DOMAIN decisions :
        /\ decisions[d].rollout = r /\ decisions[d].phase \in {"reserved", "started"}
        /\ ~decisions[d].event}

\* unresolved_action_query: admitted, never released, and without an event.
Unresolved(r) ==
    {d \in DOMAIN decisions :
        /\ decisions[d].rollout = r /\ Admitted(d)
        /\ ~decisions[d].event /\ decisions[d].phase # "released"}

Running == Cardinality({d \in DOMAIN decisions : decisions[d].invocation = "running"})

FitsBesideHeld(usage) == account.charged + usage <= Capacity

Fits(usage) == account.held + account.charged + usage <= Capacity

\* The worker's token is still the rollout's; an expired lease keeps its token.
Holds(w) == rollouts[workers[w].rollout].lease = workers[w].lease

\* ProcessObservationStore._context, projected as when the worker observed.
Current(w) ==
    LET row == rollouts[workers[w].rollout] IN
    /\ Holds(w) /\ row.live /\ row.status = "active" /\ ~row.paused
    /\ InForce /\ authority.sequence = workers[w].seen

(* What they write.                                                        *)

Goto(w, at) == workers' = [workers EXCEPT ![w].at = at]

Leave(w) == workers' = [workers EXCEPT ![w] = IdleWorker]

\* The rollout row leaves its lease for the given status.
Freed(row, status, paused) ==
    [row EXCEPT !.status = status, !.paused = paused, !.lease = NULL, !.live = FALSE]

(* ProcessResourceStore._settle, and stop_overflow when what the provider  *)
(* reports exceeds the ledger's integers (charge NULL): the account stops  *)
(* and the hold stays.                                                     *)
Charged(acc, amount, charge) ==
    IF charge = NULL THEN [acc EXCEPT !.stopped = TRUE]
    ELSE [acc EXCEPT !.held = @ - amount, !.charged = @ + charge, !.open = @ - 1,
                     !.stopped = @ \/ charge > amount]

\* ProcessGenerationResources.reconcile: a completed call is charged once.
Settle(d, charge, invocation) ==
    LET dec == decisions[d]  settles == dec.phase = "started" /\ charge # NULL IN
    /\ dec.call = "completed" /\ dec.phase \in {"started", "settled"}
    /\ charge \in IF dec.phase = "started" THEN Charges \union {NULL} ELSE {dec.charged}
    /\ account' = IF dec.phase = "started" THEN Charged(account, dec.amount, charge)
                                           ELSE account
    /\ decisions' = [decisions EXCEPT ![d].invocation = invocation,
                                      ![d].phase = IF settles THEN "settled" ELSE @,
                                      ![d].charged = IF settles THEN charge ELSE @]

-----------------------------------------------------------------------------
(* Operators: authority, funding, rollouts, time.                          *)

Transition(to) ==
    /\ authority.sequence < MaxTransitions
    /\ to \in NextStatuses(authority.status)
    /\ authority.lapsed => to = "expired"
    /\ authority' = [authority EXCEPT !.status = to, !.sequence = @ + 1]
    /\ UNCHANGED <<rollouts, claims, account, decisions, workers>>

\* The clock passes the envelope's expires_at.
Lapse ==
    /\ ~authority.lapsed
    /\ authority' = [authority EXCEPT !.lapsed = TRUE]
    /\ UNCHANGED <<rollouts, claims, account, decisions, workers>>

Fund ==
    /\ authority.status \in {"authorized", "active"} /\ ~authority.lapsed
    /\ ~account.funded
    /\ \A r \in Rollouts : rollouts[r].status = "none"
    /\ account' = [account EXCEPT !.funded = TRUE]
    /\ UNCHANGED <<rollouts, claims, authority, decisions, workers>>

\* create_rollout of a root, with charge_initial.
CreateRollout(r, usage) ==
    /\ rollouts[r].status = "none"
    /\ InForce /\ account.funded /\ ~account.stopped /\ Fits(usage)
    /\ account' = [account EXCEPT !.charged = @ + usage]
    /\ rollouts' = [rollouts EXCEPT ![r].status = "active", ![r].opening = usage]
    /\ UNCHANGED <<claims, authority, decisions, workers>>

\* The clock passes the lease_expires_at of r.
LeaseExpires(r) ==
    /\ rollouts[r].live
    /\ rollouts' = [rollouts EXCEPT ![r].live = FALSE]
    /\ UNCHANGED <<claims, authority, account, decisions, workers>>

-----------------------------------------------------------------------------
(* ProcessCoordinator.run: one action of a rollout, transaction by         *)
(* transaction.                                                            *)

\* claim_next's filter.
Claimable(r) ==
    LET row == rollouts[r] IN
    /\ row.status = "active" /\ ~Abandoned(r) /\ ~row.paused
    /\ InForce
    /\ Unresolved(r) = {}
    /\ row.lease = NULL \/ ~row.live

\* claim_next and observe_claim.
ClaimNext(w, r) ==
    /\ workers[w].at = "idle" /\ claims < MaxClaims
    /\ Claimable(r)
    /\ claims' = claims + 1
    /\ rollouts' = [rollouts EXCEPT ![r].lease = claims + 1, ![r].live = TRUE]
    /\ workers' = [workers EXCEPT ![w] =
            [at |-> "planning", rollout |-> r, lease |-> claims + 1,
             from |-> rollouts[r].sequence, seen |-> authority.sequence,
             decision |-> NULL]]
    /\ UNCHANGED <<authority, account, decisions>>

(* None of the reasons of _action_context_reasons, admission_reasons and   *)
(* the policy that other actors can cause.                                 *)
Admissible(w, usage) ==
    LET x == workers[w]  row == rollouts[x.rollout] IN
    /\ row.status = "active" /\ Holds(w) /\ row.live /\ row.sequence = x.from
    /\ InForce
    /\ ~account.stopped /\ Fits(usage) /\ account.open < Slots
    /\ Unresolved(x.rollout) = {}
    /\ ~\E d \in DOMAIN decisions :
            /\ Admitted(d) /\ decisions[d].rollout = x.rollout
            /\ decisions[d].from = x.from /\ decisions[d].lease = x.lease
    /\ Running < ConcurrentWorkers

(* AmberStore.admit with ProcessResourceStore.reserve.  refusal: a reason  *)
(* of the proposal's own, a triggered stop condition or another policy.    *)
Admit(w, kind, usage, refusal) ==
    LET x == workers[w]
        admitted == refusal = "none" /\ Admissible(w, usage) IN
    /\ x.at = "planning" /\ Len(decisions) < MaxDecisions
    /\ decisions' = Append(decisions,
            [rollout |-> x.rollout, from |-> x.from, lease |-> x.lease,
             authority |-> authority.sequence, kind |-> kind, amount |-> usage, stop |-> refusal = "stop",
             phase |-> IF admitted THEN "reserved" ELSE "denied",
             charged |-> NULL, invocation |-> "none", call |-> "none",
             event |-> FALSE])
    /\ account' = IF admitted THEN [account EXCEPT !.held = @ + usage, !.open = @ + 1]
                              ELSE account
    /\ workers' = [workers EXCEPT ![w].at = "decided", ![w].decision = Len(decisions) + 1]
    /\ UNCHANGED <<rollouts, claims, authority>>

\* bind_decision: the decision belongs to the observation, which still stands.
Binds(w) ==
    /\ workers[w].at = "decided" /\ Current(w)
    /\ decisions[workers[w].decision].authority = workers[w].seen

\* A denied proposal releases the claim, and the loop goes on.
Refuse(w) ==
    LET x == workers[w]  dec == decisions[x.decision] IN
    /\ Binds(w) /\ dec.phase = "denied"
    /\ rollouts' = [rollouts EXCEPT ![x.rollout] =
            Freed(@, IF dec.stop THEN "quarantined" ELSE "review_required", FALSE)]
    /\ Leave(w)
    /\ UNCHANGED <<claims, authority, account, decisions>>

\* ProcessResourceStore.start, in the transaction that binds the admission.
Start(w) ==
    LET d == workers[w].decision IN
    /\ Binds(w) /\ decisions[d].phase = "reserved"
    /\ ~account.stopped
    /\ decisions' = [decisions EXCEPT ![d].phase = "started"]
    /\ Goto(w, "acting")
    /\ UNCHANGED <<rollouts, claims, authority, account>>

-----------------------------------------------------------------------------
(* ProcessGenerationExecutor: the execution of a "model" action.           *)

\* The intent: the invocation row, before any call.
Intend(w) ==
    LET d == workers[w].decision IN
    /\ workers[w].at = "acting" /\ decisions[d].kind = "model"
    /\ Current(w) /\ ~account.stopped
    /\ Running < ConcurrentWorkers
    /\ decisions' = [decisions EXCEPT ![d].invocation = "running"]
    /\ Goto(w, "intended")
    /\ UNCHANGED <<rollouts, claims, authority, account>>

\* before_dispatch, which admits the started phase, and the provider call.
Dispatch(w) ==
    /\ workers[w].at = "intended"
    /\ Current(w) /\ ~account.stopped
    /\ Goto(w, "sent")
    /\ UNCHANGED <<rollouts, claims, authority, account, decisions>>

\* The call ledger retains the provider's answer, whoever holds the lease.
Answer(w) ==
    /\ workers[w].at = "sent"
    /\ decisions' = [decisions EXCEPT ![workers[w].decision].call = "completed"]
    /\ Goto(w, "answered")
    /\ UNCHANGED <<rollouts, claims, authority, account>>

(* Accounting is kept whatever becomes of the output.  It raises if the    *)
(* settlement stopped the account; one that a reviewer made earlier may    *)
(* be older than the stop.                                                 *)
Reconcile(w, charge) ==
    LET d == workers[w].decision  dec == decisions[d] IN
    /\ workers[w].at = "answered"
    /\ Settle(d, charge, dec.invocation)
    /\ \/ account'.stopped /\ Goto(w, "broken")
       \/ /\ ~account'.stopped \/ (dec.phase = "settled" /\ dec.charged <= dec.amount)
          /\ Goto(w, "reconciled")
    /\ UNCHANGED <<rollouts, claims, authority>>

\* The output transaction.
AdmitOutput(w) ==
    /\ workers[w].at = "reconciled"
    /\ Current(w)
    /\ decisions' = [decisions EXCEPT ![workers[w].decision].invocation = "completed"]
    /\ Goto(w, "acted")
    /\ UNCHANGED <<rollouts, claims, authority, account>>

(* _mark_terminal after an error or a cancellation.  A completed call is   *)
(* charged, unless its evidence does not reconcile.  An error goes on to   *)
(* the coordinator's release; a cancellation passes it by.                 *)
MarkTerminal(w, charge) ==
    LET d == workers[w].decision IN
    /\ workers[w].at \in {"intended", "sent", "answered", "broken", "reconciled"}
    /\ \/ Settle(d, charge, "ended")
       \/ /\ charge = NULL
          /\ decisions' = [decisions EXCEPT ![d].invocation = "ended"]
          /\ UNCHANGED account
    /\ Goto(w, "failing") \/ Leave(w)
    /\ UNCHANGED <<rollouts, claims, authority>>

-----------------------------------------------------------------------------
\* The statuses append_event accepts.
EventStatuses == {"active", "paused", "review_required"} \union Terminal

(* append_event.  A tool action has been performed by then and is charged  *)
(* in full with the event; a model action must have been charged before.   *)
AppendEvent(w, to) ==
    LET x == workers[w]  d == x.decision  dec == decisions[d]  row == rollouts[x.rollout] IN
    /\ x.at \in {"acting", "acted"} /\ (x.at = "acted" <=> dec.kind = "model")
    /\ Holds(w) /\ row.live /\ row.status = "active"
    /\ dec.rollout = x.rollout /\ dec.lease = x.lease /\ dec.from = row.sequence
    /\ InForce /\ authority.sequence = dec.authority
    /\ IF dec.phase = "settled" THEN UNCHANGED account
       ELSE /\ dec.phase = "started" /\ dec.invocation = "none"
            /\ account' = Charged(account, dec.amount, dec.amount)
    /\ decisions' = [decisions EXCEPT ![d].event = TRUE, ![d].phase = "settled",
            ![d].charged = IF dec.phase = "settled" THEN @ ELSE dec.amount]
    /\ rollouts' = [rollouts EXCEPT ![x.rollout] =
            [Freed(@, to, to = "paused") EXCEPT !.sequence = row.sequence + 1]]
    /\ Leave(w)
    /\ UNCHANGED <<claims, authority>>

(* An exception or the action's time-out, anywhere: in generation, one     *)
(* that MarkTerminal does not see or that prevents it.                     *)
Raise(w) ==
    /\ workers[w].at \notin {"idle", "failing"}
    /\ Goto(w, "failing")
    /\ UNCHANGED <<rollouts, claims, authority, account, decisions>>

(* The exception's own transaction: release_claim(FAILED) asks for the     *)
(* token and nothing else; without it, it raises in turn.                  *)
ReleaseFailed(w) ==
    LET r == workers[w].rollout IN
    /\ workers[w].at = "failing"
    /\ rollouts' = IF Holds(w) THEN [rollouts EXCEPT ![r] = Freed(@, "failed", FALSE)]
                               ELSE rollouts
    /\ Leave(w)
    /\ UNCHANGED <<claims, authority, account, decisions>>

\* The process is killed or cancelled.
Crash(w) ==
    /\ workers[w].at # "idle"
    /\ Leave(w)
    /\ UNCHANGED <<rollouts, claims, authority, account, decisions>>

-----------------------------------------------------------------------------
(* Reviewers.                                                              *)

ReleaseUnaccounted(d) ==
    /\ decisions[d].phase \in {"reserved", "started"}
    /\ decisions' = [decisions EXCEPT ![d].phase = "released"]
    /\ account' = [account EXCEPT !.held = @ - decisions[d].amount, !.open = @ - 1]
    /\ UNCHANGED <<rollouts, claims, authority, workers>>

\* release_unstarted: the hold of an action that cannot have had an effect.
ReleaseUnstarted(d) ==
    /\ decisions[d].phase = "reserved" /\ decisions[d].invocation = "none"
    /\ decisions' = [decisions EXCEPT ![d].phase = "released"]
    /\ account' = [account EXCEPT !.held = @ - decisions[d].amount, !.open = @ - 1]
    /\ UNCHANGED <<rollouts, claims, authority, workers>>

\* pprl resource reconcile-model.
ReconcileModel(d, charge) ==
    /\ decisions[d].phase = "started"
    /\ Settle(d, charge, decisions[d].invocation)
    /\ UNCHANGED <<rollouts, claims, authority, workers>>

\* recover takes over no lease that a worker may still use.
Recoverable(r) ==
    LET row == rollouts[r] IN
    /\ row.status \in {"active", "paused", "review_required"}
    /\ ~(row.live /\ row.status = "active" /\ ~row.paused /\ InForce)

(* The end of recover: the claim is fenced, whatever was found; stopped is *)
(* the account's state after the assessment.                               *)
Conclude(r, unresolved, resume, stopped) ==
    LET row == rollouts[r]
        ready == /\ InForce /\ ~stopped
                 /\ resume \/ (row.status = "active" /\ ~row.paused)
        status == IF unresolved THEN "review_required"
                  ELSE IF ready THEN "active" ELSE "paused" IN
    /\ rollouts' = [rollouts EXCEPT ![r] = Freed(@, status, status # "active")]
    /\ UNCHANGED <<claims, authority, workers>>

\* Nothing pends.
RecoverClear(r, resume) ==
    /\ Recoverable(r) /\ Unresolved(r) = {}
    /\ Conclude(r, FALSE, resume, account.stopped)
    /\ UNCHANGED <<account, decisions>>

RecoverWithoutEvidence(r, resume) ==
    \E d \in Unresolved(r) :
        /\ Recoverable(r)
        /\ decisions[d].phase \in {"reserved", "started"} /\ decisions[d].invocation = "none"
        /\ decisions' = [decisions EXCEPT ![d].phase = "released"]
        /\ account' = [account EXCEPT !.held = @ - decisions[d].amount, !.open = @ - 1]
        /\ Conclude(r, FALSE, resume, account.stopped)

(* An action pends (there is one: OneOpenAction).  Unstarted, it is        *)
(* released; a retained answer is charged, and neither it nor an unknown   *)
(* effect lets the rollout go on.                                          *)
RecoverUnstarted(r, resume) ==
    \E d \in Unresolved(r) :
        /\ Recoverable(r)
        /\ decisions[d].phase = "reserved" /\ decisions[d].invocation = "none"
        /\ decisions' = [decisions EXCEPT ![d].phase = "released"]
        /\ account' = [account EXCEPT !.held = @ - decisions[d].amount, !.open = @ - 1]
        /\ Conclude(r, FALSE, resume, account.stopped)

RecoverCompleted(r, charge) ==
    \E d \in Unresolved(r) :
        /\ Recoverable(r)
        /\ Settle(d, charge, decisions[d].invocation)
        /\ Conclude(r, TRUE, FALSE, account'.stopped)

RecoverUnknown(r) ==
    \E d \in Unresolved(r) :
        /\ Recoverable(r)
        /\ decisions[d].phase # "reserved" /\ decisions[d].call = "none"
        /\ Conclude(r, TRUE, FALSE, account.stopped)
        /\ UNCHANGED <<account, decisions>>

\* abandon, on the latest recovery; its receipt names what was unresolved.
Abandon(r) ==
    LET row == rollouts[r] IN
    /\ ~Abandoned(r)
    /\ row.status = "review_required" /\ row.paused /\ row.lease = NULL
    /\ Unresolved(r) # {}
    /\ rollouts' = [rollouts EXCEPT ![r].status = "cancelled",
                                    ![r].abandoned = Unresolved(r)]
    /\ UNCHANGED <<claims, authority, account, decisions, workers>>

-----------------------------------------------------------------------------
Refusals == {"none", "stop", "policy"}

WorkerStep(w) ==
    \/ \E r \in Rollouts : ClaimNext(w, r)
    \/ \E kind \in Kinds, usage \in Usages, refusal \in Refusals :
            Admit(w, kind, usage, refusal)
    \/ Refuse(w) \/ Start(w)
    \/ Intend(w) \/ Dispatch(w) \/ Answer(w) \/ AdmitOutput(w)
    \/ \E charge \in Charges \union {NULL} : Reconcile(w, charge) \/ MarkTerminal(w, charge)
    \/ \E to \in EventStatuses : AppendEvent(w, to)
    \/ Raise(w) \/ ReleaseFailed(w) \/ Crash(w)

ReviewerStep ==
    \/ \E d \in DOMAIN decisions :
            \/ ReleaseUnstarted(d)
            \/ \E charge \in Charges \union {NULL} : ReconcileModel(d, charge)
    \/ \E r \in Rollouts :
            \/ \E resume \in BOOLEAN : RecoverClear(r, resume) \/ RecoverUnstarted(r, resume)
            \/ \E charge \in Charges \union {NULL} : RecoverCompleted(r, charge)
            \/ RecoverUnknown(r)
            \/ Abandon(r)

Next ==
    \/ \E to \in AmberStatuses : Transition(to)
    \/ Lapse \/ Fund
    \/ \E r \in Rollouts : LeaseExpires(r) \/ \E usage \in Usages : CreateRollout(r, usage)
    \/ \E w \in Workers : WorkerStep(w)
    \/ ReviewerStep

Spec == Init /\ [][Next]_vars

-----------------------------------------------------------------------------
Phases == {"denied", "reserved", "started", "settled", "released"}

Places == {"idle", "planning", "decided", "acting", "intended", "sent", "answered",
           "broken", "reconciled", "acted", "failing"}

Rollout ==
    [status : {"none"} \union EventStatuses, paused : BOOLEAN, sequence : Nat,
     opening : Nat, lease : {NULL} \union Nat, live : BOOLEAN, abandoned : SUBSET Nat]

Authority == [status : AmberStatuses, sequence : Nat, lapsed : BOOLEAN]

Account == [funded : BOOLEAN, held : Int, charged : Int, open : Int, stopped : BOOLEAN]

Decision ==
    [rollout : Rollouts, from : Nat, lease : Nat, authority : Nat, kind : Kinds,
     amount : Usages, stop : BOOLEAN, phase : Phases,
     charged : {NULL} \union Charges \union Usages,
     invocation : {"none", "running", "completed", "ended"},
     call : {"none", "completed"}, event : BOOLEAN]

\* At work: on a claimed rollout, and past admission on one of the decisions.
Worker ==
    [at : Places \ {"idle"}, rollout : Rollouts, lease : Nat, from : Nat, seen : Nat,
     decision : {NULL} \union Nat]

\* The shape of the rows, the journal's head and the workers' memory.
TypeOK ==
    /\ rollouts \in [Rollouts -> Rollout]
    /\ claims \in Nat
    /\ authority \in Authority
    /\ account \in Account
    /\ decisions \in Seq(Decision)
    /\ workers \in [Workers -> {IdleWorker} \union Worker]

(* The ledger conserves funding over every interleaving of admissions,     *)
(* settlements, releases and initial charges: the balance is what the      *)
(* reservations and rollouts say it is, slots are never oversubscribed,    *)
(* and only a stopped account may exceed its grant (replay and inspect).   *)
FundingConserved ==
    LET In(phases) == {d \in DOMAIN decisions : decisions[d].phase \in phases}
        live == In({"reserved", "started"}) IN
    /\ account.held = SumFunctionOnSet([d \in DOMAIN decisions |-> decisions[d].amount], live)
    /\ account.charged =
          SumFunctionOnSet([r \in Rollouts |-> rollouts[r].opening], Rollouts)
          + SumFunctionOnSet([d \in DOMAIN decisions |-> decisions[d].charged], In({"settled"}))
    /\ account.open = Cardinality(live) /\ account.open <= Slots
    /\ account.stopped \/ Fits(0)

(* No project state has two effects: whatever claims, crashes, expiries    *)
(* and reviewed recoveries happen, at most one action taken from it is     *)
(* ever started (claim_next's and admission_reasons' unresolved filter).   *)
OneEffectPerState ==
    \A d, e \in DOMAIN decisions :
        /\ decisions[d].rollout = decisions[e].rollout
        /\ decisions[d].from = decisions[e].from
        /\ decisions[d].phase \in {"started", "settled"}
        /\ decisions[e].phase \in {"started", "settled"}
        => d = e

(* The committed events of a rollout are one line: one event from every    *)
(* state but the current one (append_event's head checks).                 *)
OneLineOfEvents ==
    \A r \in Rollouts :
        LET events == {d \in DOMAIN decisions : decisions[d].rollout = r /\ decisions[d].event} IN
        /\ {decisions[d].from : d \in events} = 0 .. (rollouts[r].sequence - 1)
        /\ \A d, e \in events : decisions[d].from = decisions[e].from => d = e

(* A rollout has at most one action pending, so recovery has one effect to *)
(* assess and a clear recovery leaves nothing behind.                      *)
OneOpenAction ==
    \A d, e \in DOMAIN decisions :
        /\ decisions[d].rollout = decisions[e].rollout
        /\ \A c \in {d, e} : /\ decisions[c].phase \in {"reserved", "started", "settled"}
                             /\ ~decisions[c].event
        => d = e

(* What an abandonment named as unresolved stays exactly what is           *)
(* unresolved, though late answers still arrive and are charged:           *)
(* read_abandonment compares the two.                                      *)
AbandonmentStaysReadable ==
    \A r \in Rollouts : Abandoned(r) => rollouts[r].abandoned = Unresolved(r)

(* A started effect is never refunded: its hold ends only with the         *)
(* retained answer of its call or with its committed event.                *)
StartedIsNeverRefunded ==
    [][\A d \in DOMAIN decisions :
          decisions[d].phase = "started" /\ decisions'[d].phase # "started" =>
              /\ decisions'[d].phase = "settled"
              /\ decisions'[d].call = "completed" \/ decisions'[d].event]_vars

(* A rollout that ended stays as it ended: no worker that failed late, no  *)
(* recovery and no event touches it again.                                 *)
TerminalIsFinal ==
    [][\A r \in Rollouts :
          rollouts[r].status \in Terminal => rollouts'[r] = rollouts[r]]_vars
=============================================================================
