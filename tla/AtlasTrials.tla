---------------------------- MODULE AtlasTrials ----------------------------
(***************************************************************************)
(* Trials of one Capability Atlas run (padawan/atlas/registry.py), the     *)
(* activation that admits their generations (padawan/atlas/activation.py)  *)
(* and the controllers that run them (padawan/atlas/dispatch.py,           *)
(* padawan/atlas/coding_runner.py) over the external call ledger.          *)
(*                                                                         *)
(* The registry records the allocation of a trial, its requests (the n-th  *)
(* retry is attempt n), one result for each, and snapshots of what came    *)
(* out.  Workers take requests, execute them through ExternalCall under    *)
(* the activation, judge the answer and record the result; several         *)
(* controllers work on one run and each may be lost at any time.           *)
(*                                                                         *)
(* One run of one suite under one condition.  A request is <<n, k>>,       *)
(* attempt k of the n-th allocation.  Items, artifacts, digests, tokens    *)
(* and costs, and the tool turns of a trajectory, are left out.            *)
(***************************************************************************)
EXTENDS ExternalCall, FiniteSets

CONSTANTS
    Planned,        \* planned_request_count: the allocations of the suite
    MaxRetry,       \* max_retry_requests
    MinTrials,      \* StopRule.minimum_trials
    Precise,        \* <<successes, observed>> whose interval is narrow enough
    Activations,    \* activation records
    MaxInFlight,    \* activation -> max_in_flight
    Controllers,    \* dispatching processes
    ControllerOf    \* caller -> its process

Trials        == 0..(Planned - 1)
TrialRequests == {q \in Requests : OwnerOf[q] = "atlas"}

ASSUME TrialAssumption ==
    /\ Planned \in Nat \ {0} /\ MaxRetry \in Nat /\ MinTrials \in Nat
    /\ TrialRequests \subseteq Trials \X Nat
    /\ MaxInFlight \in [Activations -> Nat \ {0}] /\ NULL \notin Activations
    /\ ControllerOf \in [Callers -> Controllers]

VARIABLES
    adaptive,       \* AtlasRunManifest.adaptive
    decision,       \* n -> the requests whose results allocation n discloses,
                    \*      or NULL without an allocation
    requests,       \* the AtlasTrialRequestRows
    outcome,        \* request -> status of its AtlasTrialResultRow, or "none"
    verdict,        \* request -> disposition of its VerifierResultRow, or "none"
    snapshot,       \* the counts of the complete AtlasSnapshotRow, or NULL
    bound,          \* the activation the run is bound to, or NULL
    admission,      \* "open", or "paused" run, or window "over"
    picked,         \* worker -> the request it has looked up, or NULL
    job,            \* worker -> the request it executes and judges, or NULL
    stopping        \* controllers that admit no further work

registryVars == <<adaptive, decision, requests, outcome, verdict, snapshot>>
controlVars  == <<bound, admission, picked, job, stopping>>
atlasVars    == <<vars, registryVars, controlVars>>

Scored   == {"success", "failure"}
Outcomes == Scored \union {"none", "excluded", "infrastructure", "not_run"}
Verdicts == {"none", "verified", "rejected", "infrastructure"}

AtlasInit ==
    /\ Init
    /\ adaptive \in BOOLEAN
    /\ decision = [n \in Trials |-> NULL] /\ requests = {}
    /\ outcome = [q \in TrialRequests |-> "none"] /\ verdict = [q \in TrialRequests |-> "none"]
    /\ snapshot = NULL
    /\ bound = NULL /\ admission = "open"
    /\ picked = [c \in Callers |-> NULL] /\ job = [c \in Callers |-> NULL] /\ stopping = {}

-----------------------------------------------------------------------------
(* The registry.                                                           *)

Allocated   == {n \in Trials : decision[n] # NULL}
Attempts(n) == {q \in requests : q[1] = n}
Latest(n)   == CHOOSE q \in Attempts(n) : \A r \in Attempts(n) : r[2] <= q[2]

\* _terminal_outcomes: the latest attempts of the allocations, by outcome.
Ended(n)  == n \in Allocated /\ Attempts(n) # {} /\ outcome[Latest(n)] # "none"
Ends(O)   == Cardinality({n \in Trials : Ended(n) /\ outcome[Latest(n)] \in O})
Counts    == [successes |-> Ends({"success"}), observed |-> Ends(Scored)]

\* assess_stop_rule, with a maximum infrastructure failure rate of one half.
Closed ==
    LET n == Cardinality(Allocated)  missing == n - Ends(Scored) IN
    \/ n >= Planned
    \/ n >= MinTrials /\ \/ 2 * Ends({"infrastructure"}) > n
                         \/ missing = 0 /\ <<Ends({"success"}), n>> \in Precise

\* record_allocation.  An adaptive decision follows the results of all the
\* decisions before it and discloses them; a fixed one depends on none.
Allocate(n) ==
    /\ decision[n] = NULL
    /\ adaptive => /\ Allocated = 0..(n - 1)
                   /\ \A m \in Allocated : Ended(m)
                   /\ ~Closed
    /\ decision' = [decision EXCEPT ![n] =
                       IF adaptive THEN {Latest(m) : m \in Allocated} ELSE {}]
    /\ UNCHANGED <<vars, controlVars, adaptive, requests, outcome, verdict, snapshot>>

Initial == {q \in requests : q[2] = 0}

\* Mutated forms of a definition stand before it: the bug each one plants must
\* break the property it is paired with.
RetryUnaccounted(q) ==
    LET parent == <<q[1], q[2] - 1>> IN
    /\ parent \in requests
    /\ status[parent] = "failed_retryable"
    /\ Cardinality(requests) < Planned + MaxRetry

\* "A retry cannot hide a missing parent outcome", and only provider failures
\* are retried, within the allowance.
Retriable(q) ==
    LET parent == <<q[1], q[2] - 1>> IN
    /\ parent \in requests
    /\ outcome[parent] = "infrastructure" /\ status[parent] = "failed_retryable"
    /\ Cardinality(requests) < Planned + MaxRetry

\* record_trial_request.
RecordRequest(q) ==
    /\ q \notin requests /\ q[1] \in Allocated
    /\ IF q[2] = 0 THEN Cardinality(Initial) < Planned ELSE Retriable(q)
    /\ requests' = requests \union {q}
    /\ UNCHANGED <<vars, controlVars, adaptive, decision, outcome, verdict, snapshot>>

RecordLostBeforeItEnds(q, o) ==
    /\ q \in requests /\ outcome[q] = "none"
    /\ \/ o = "not_run" /\ status[q] = "none"
       \/ o = "infrastructure" /\ status[q] \in {"pending", "failed_retryable", "failed_terminal"}
    /\ outcome' = [outcome EXCEPT ![q] = o]
    /\ UNCHANGED <<vars, controlVars, adaptive, decision, requests, verdict, snapshot>>

\* record_trial_result for a request that has no answer: the captured failure
\* of its call (a timeout is one), or a reason why there is no call.
RecordLost(q, o) ==
    /\ q \in requests /\ outcome[q] = "none"
    /\ \/ o = "not_run" /\ status[q] = "none"
       \/ o = "infrastructure" /\ status[q] \in {"failed_retryable", "failed_terminal"}
    /\ outcome' = [outcome EXCEPT ![q] = o]
    /\ UNCHANGED <<vars, controlVars, adaptive, decision, requests, verdict, snapshot>>

SnapshotOfAllocated ==
    /\ snapshot = NULL /\ Allocated # {}
    /\ \A n \in Allocated : Ended(n) /\ outcome[Latest(n)] \in Scored
    /\ snapshot' = Counts
    /\ UNCHANGED <<vars, controlVars, adaptive, decision, requests, outcome, verdict>>

\* register_snapshot with complete set: every planned trial, none missing,
\* excluded or lost.
RegisterSnapshot ==
    /\ snapshot = NULL
    /\ \A n \in Trials : Ended(n) /\ outcome[Latest(n)] \in Scored
    /\ snapshot' = Counts
    /\ UNCHANGED <<vars, controlVars, adaptive, decision, requests, outcome, verdict>>

-----------------------------------------------------------------------------
(* The activation.                                                         *)

Occupied == Cardinality({q \in requests : status[q] = "pending"})

AdmittedBesideOthers(q, a, beforeDispatch) ==
    /\ bound \in {NULL, a}
    /\ status[q] # "completed" =>
          /\ admission = "open"
          /\ \A r \in requests : status[r] \in {"none", "pending", "completed"}
          /\ Occupied - (IF status[q] = "pending" THEN 1 ELSE 0) <= MaxInFlight[a]

\* admit_atlas_generation.  One immutable activation per run; a completed call
\* is replayed whatever happened; a call that failed stops the run.
Admitted(q, a, beforeDispatch) ==
    /\ bound \in {NULL, a}
    /\ status[q] # "completed" =>
          /\ admission = "open"
          /\ \A r \in requests : status[r] \in {"none", "pending", "completed"}
          /\ Occupied + (IF beforeDispatch \/ status[q] # "none" THEN 0 ELSE 1)
                <= MaxInFlight[a]

\* The run is paused or resumed, or the window of the activation closes.
Readmit(to) ==
    /\ admission # "over" /\ admission' = to
    /\ UNCHANGED <<vars, registryVars, bound, picked, job, stopping>>

-----------------------------------------------------------------------------
(* The controllers.                                                        *)

\* The worker is done with its job; the controller stops on a failure.
PutDown(c, failed) ==
    /\ job' = [job EXCEPT ![c] = NULL] /\ picked' = [picked EXCEPT ![c] = NULL]
    /\ stopping' = IF failed THEN stopping \union {ControllerOf[c]} ELSE stopping

Free(c) == job[c] = NULL /\ picked[c] = NULL /\ ControllerOf[c] \notin stopping

\* A worker looks a request up in one transaction; if it has a result that is
\* reported, and a result that is no score stops the controller.
Pick(c, q) ==
    /\ Free(c) /\ q \in requests
    /\ IF outcome[q] = "none" THEN picked' = [picked EXCEPT ![c] = q] /\ UNCHANGED <<job, stopping>>
       ELSE outcome[q] \notin Scored /\ PutDown(c, TRUE)
    /\ UNCHANGED <<vars, registryVars, bound, admission>>

\* In the next it is admitted and its intent committed, or its completed call
\* replayed; a refusal, as of an unresolved call, stops the controller.
Start(c, a) ==
    LET q == picked[c] IN
    /\ q # NULL
    /\ IF Admitted(q, a, FALSE) /\ status[q] \in {"none", "completed"}
       THEN /\ admission # "over" /\ Execute(c, q)
            /\ job' = [job EXCEPT ![c] = q] /\ bound' = a
            /\ picked' = [picked EXCEPT ![c] = NULL] /\ UNCHANGED stopping
       ELSE UNCHANGED <<vars, bound>> /\ PutDown(c, TRUE)
    /\ UNCHANGED <<registryVars, admission>>

\* The window of the activation is over: nothing is started, nor reported.
Expire(c) ==
    /\ picked[c] # NULL /\ admission = "over" /\ PutDown(c, TRUE)
    /\ UNCHANGED <<vars, registryVars, bound, admission>>

\* The second admission, then the provider I/O.
DispatchTrial(c) ==
    /\ job[c] # NULL
    /\ IF Admitted(job[c], bound, TRUE)
       THEN Dispatch(c) /\ UNCHANGED <<picked, job, stopping>>
       ELSE Inadmissible(c) /\ PutDown(c, TRUE)
    /\ UNCHANGED <<registryVars, bound, admission>>

Receive(c) ==
    /\ job[c] # NULL
    /\ Answer(c) \/ Store(c)
    /\ UNCHANGED <<registryVars, controlVars>>

LoseCall(c) ==
    /\ job[c] # NULL
    /\ ProviderError(c) \/ Cancel(c) \/ OtherError(c)
    /\ PutDown(c, TRUE)
    /\ UNCHANGED <<registryVars, bound, admission>>

\* The answer is in memory: execute returned.
Judging(c) == job[c] # NULL /\ pc[c] = "idle"

\* The verdict is recorded once, in a transaction of its own.
Judge(c, v) ==
    /\ Judging(c) /\ verdict[job[c]] = "none" /\ v \in Verdicts \ {"none"}
    /\ verdict' = [verdict EXCEPT ![job[c]] = v]
    /\ stopping' = IF v = "infrastructure" THEN stopping \union {ControllerOf[c]} ELSE stopping
    /\ UNCHANGED <<vars, adaptive, decision, requests, outcome, snapshot, bound, admission, picked, job>>

Disposition(v) == CASE v = "verified" -> "success"
                    [] v = "rejected" -> "failure"
                    [] v = "infrastructure" -> "excluded"

\* record_trial_result of an answered request, from the recorded verdict.
RecordOutcome(c) ==
    LET q == job[c] IN
    /\ Judging(c) /\ verdict[q] # "none" /\ outcome[q] = "none"
    /\ outcome' = [outcome EXCEPT ![q] = Disposition(verdict[q])]
    /\ PutDown(c, Disposition(verdict[q]) \notin Scored)
    /\ UNCHANGED <<vars, adaptive, decision, requests, verdict, snapshot, bound, admission>>

\* Judging or recording raises: another worker was first, or the judge failed.
Raise(c) ==
    /\ Judging(c) /\ PutDown(c, TRUE)
    /\ UNCHANGED <<vars, registryVars, bound, admission>>

\* The process of a controller is lost, and started again.
Restart(k) ==
    LET lost == {c \in Callers : ControllerOf[c] = k} IN
    /\ k \in stopping \/ \E c \in lost : job[c] # NULL \/ picked[c] # NULL
    /\ pc'    = [c \in Callers |-> IF c \in lost THEN "idle" ELSE pc[c]]
    /\ req'   = [c \in Callers |-> IF c \in lost THEN NULL ELSE req[c]]
    /\ reply' = [c \in Callers |-> IF c \in lost THEN NULL ELSE reply[c]]
    /\ picked' = [c \in Callers |-> IF c \in lost THEN NULL ELSE picked[c]]
    /\ job'   = [c \in Callers |-> IF c \in lost THEN NULL ELSE job[c]]
    /\ stopping' = stopping \ {k}
    /\ UNCHANGED <<status, response, span, sent, answered, got, registryVars, bound, admission>>

AtlasNext ==
    \/ \E n \in Trials : Allocate(n)
    \/ \E q \in TrialRequests : RecordRequest(q)
    \/ \E q \in TrialRequests, o \in {"infrastructure", "not_run"} : RecordLost(q, o)
    \/ RegisterSnapshot
    \/ \E to \in {"open", "paused", "over"} : Readmit(to)
    \/ \E c \in Callers :
          \/ \E q \in TrialRequests : Pick(c, q)
          \/ \E a \in Activations : Start(c, a)
          \/ Expire(c) \/ DispatchTrial(c) \/ Receive(c) \/ LoseCall(c)
          \/ \E v \in Verdicts : Judge(c, v)
          \/ RecordOutcome(c) \/ Raise(c)
    \/ \E k \in Controllers : Restart(k)

AtlasSpec == AtlasInit /\ [][AtlasNext]_atlasVars

-----------------------------------------------------------------------------
(* Properties.                                                             *)

AtlasTypeOK ==
    /\ TypeOK
    /\ adaptive \in BOOLEAN
    /\ decision \in [Trials -> (SUBSET TrialRequests) \union {NULL}] /\ requests \subseteq TrialRequests
    /\ outcome \in [TrialRequests -> Outcomes] /\ verdict \in [TrialRequests -> Verdicts]
    /\ snapshot \in [successes : Nat, observed : Nat] \union {NULL}
    /\ bound \in Activations \union {NULL} /\ admission \in {"open", "paused", "over"}
    /\ picked \in [Callers -> TrialRequests \union {NULL}]
    /\ job \in [Callers -> TrialRequests \union {NULL}] /\ stopping \subseteq Controllers

\* "Serialize reservations across controllers before any model effect is
\* possible": all controllers together never have more generations under way
\* than the run's one activation reserves, and each under a pending call.
ReservationHolds ==
    LET sending == {c \in Callers : job[c] # NULL /\ pc[c] \in {"io", "answered"}} IN
    /\ sending # {} => bound # NULL /\ Cardinality(sending) <= MaxInFlight[bound]
    /\ \A c \in sending : status[req[c]] = "pending"
    /\ \A c, d \in sending : req[c] = req[d] => c = d

\* A recorded result is still what the ledger and the verifier say, whatever
\* controllers do after it: an answered trial has its completed call and the
\* verdict on it, a lost one has its failed call.
OutcomesFollowTheLedger ==
    \A q \in TrialRequests :
        /\ outcome[q] \in Scored \union {"excluded"} =>
              status[q] = "completed" /\ outcome[q] = Disposition(verdict[q])
        /\ outcome[q] = "infrastructure" => status[q] \in {"failed_retryable", "failed_terminal"}

\* "Verified model outcomes cannot be retried for score inflation": below the
\* latest attempt of a trial are lost ones only, and an adaptive decision
\* discloses one result of every earlier decision, which still is the last
\* word on that trial unless it was lost.
ScoredOutcomesStand ==
    /\ \A q \in requests : q[2] > 0 =>
          /\ <<q[1], q[2] - 1>> \in requests
          /\ outcome[<<q[1], q[2] - 1>>] = "infrastructure"
    /\ adaptive => \A n \in Allocated :
          /\ \A m \in 0..(n - 1) : \E q \in decision[n] : q[1] = m
          /\ \A q \in decision[n] :
                /\ q[1] < n /\ outcome[q] # "none"
                /\ outcome[q] # "infrastructure" => q = Latest(q[1])

\* A complete snapshot stays the truth about the run: no trial, retry or late
\* result changes what it counted.
CompleteSnapshotStands ==
    snapshot # NULL => snapshot = Counts /\ snapshot.observed = Planned

\* "Atlas run exceeds its predeclared retry allowance": the run's envelope,
\* which the campaign's ceilings are checked against, bounds its requests.
RequestsWithinEnvelope == Cardinality(requests) <= Planned + MaxRetry
=============================================================================
