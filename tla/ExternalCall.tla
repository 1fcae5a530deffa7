---------------------------- MODULE ExternalCall ----------------------------
(***************************************************************************)
(* The idempotent generation executor                                      *)
(* (padawan/orchestration/external_calls.py) and the operation span it     *)
(* keeps (padawan/temporal/telemetry.py).                                  *)
(*                                                                         *)
(* A caller commits the intent of a request, performs the provider I/O     *)
(* outside any transaction, and commits what came of it.  Callers are the  *)
(* processes that execute a request id, several at once when a run's lease *)
(* has expired under its first worker; each can be lost between any two    *)
(* transactions.  A provider never gives the same answer twice: the n-th   *)
(* dispatch of a request is answered n.                                    *)
(***************************************************************************)
EXTENDS Integers

CONSTANTS
    Requests,       \* request ids
    Callers,        \* processes that execute them
    OwnerOf,        \* request -> who owns the call: OwnerKinds
    MaxSends,       \* bound: dispatches of one request
    NULL

\* run_id, process_rollout_id, run_id under an Atlas activation, and
\* interaction_trace_id (stream_execute).
OwnerKinds == {"run", "process", "atlas", "stream"}

ASSUME CallAssumption ==
    /\ OwnerOf \in [Requests -> OwnerKinds]
    /\ MaxSends \in Nat /\ NULL \notin Nat /\ NULL \notin Requests

VARIABLES
    status,     \* request -> ExternalCallRow.status, "none" without a row
    response,   \* request -> the answer its response artifact holds, or NULL
    span,       \* request -> OperationSpanRow.status, "none" without a row
    sent,       \* request -> dispatches to the provider
    answered,   \* request -> answers the provider produced
    pc,         \* caller -> "idle", or where it stands in execute
    req,        \* caller -> the request it executes, or NULL
    reply,      \* caller -> the provider's answer in memory, or NULL
    got         \* caller -> request -> the last result execute returned, or NULL

vars == <<status, response, span, sent, answered, pc, req, reply, got>>

Settled == {"SUCCEEDED", "FAILED", "CANCELLED"}

Init ==
    /\ status   = [q \in Requests |-> "none"]
    /\ response = [q \in Requests |-> NULL]
    /\ span     = [q \in Requests |-> "none"]
    /\ sent     = [q \in Requests |-> 0]
    /\ answered = [q \in Requests |-> 0]
    /\ pc    = [c \in Callers |-> "idle"]
    /\ req   = [c \in Callers |-> NULL]
    /\ reply = [c \in Callers |-> NULL]
    /\ got   = [c \in Callers |-> [q \in Requests |-> NULL]]

-----------------------------------------------------------------------------
\* The call of c is over: execute returned or raised, or the process is gone.
Leave(c) ==
    /\ pc' = [pc EXCEPT ![c] = "idle"]
    /\ req' = [req EXCEPT ![c] = NULL]
    /\ reply' = [reply EXCEPT ![c] = NULL]

Enter(c, q) ==
    /\ pc' = [pc EXCEPT ![c] = "ready"]
    /\ req' = [req EXCEPT ![c] = q]
    /\ UNCHANGED reply

Return(c, q, answer) == got' = [got EXCEPT ![c][q] = answer]

(* The intent transaction.                                                 *)

Intend(c, q) ==
    /\ status[q] = "none"
    /\ status' = [status EXCEPT ![q] = "pending"]
    /\ span' = [span EXCEPT ![q] = "RUNNING"]
    /\ Enter(c, q)
    /\ UNCHANGED <<response, sent, answered, got>>

\* "completed": the persisted answer is returned, whoever owns the call.
Replay(c, q) ==
    /\ status[q] = "completed"
    /\ Return(c, q, response[q])
    /\ UNCHANGED <<status, response, span, sent, answered, pc, req, reply>>

\* Mutated forms of a definition stand before it: the bug each one plants must
\* break the property it is paired with.
ResumableByAnyOwner(q) == status[q] \in {"pending", "failed_retryable"}

\* Only the calls of runs are resumed after a failure; a stream resumes one
\* whose outcome was never recorded.  Everything else is refused and changes
\* nothing.
Resumable(q) ==
    \/ OwnerOf[q] = "run" /\ status[q] \in {"pending", "failed_retryable"}
    \/ OwnerOf[q] = "stream" /\ status[q] = "pending"

Redo(c, q) ==
    /\ Resumable(q)
    /\ span' = IF OwnerOf[q] = "run" /\ span[q] = "WAITING"
               THEN [span EXCEPT ![q] = "RUNNING"] ELSE span
    /\ Enter(c, q)
    /\ UNCHANGED <<status, response, sent, answered, got>>

Execute(c, q) == pc[c] = "idle" /\ (Intend(c, q) \/ Replay(c, q) \/ Redo(c, q))

(* Provider I/O.                                                           *)

\* before_dispatch, or the Atlas admission, refuses: the intent stays.
Inadmissible(c) ==
    /\ pc[c] = "ready" /\ OwnerOf[req[c]] \in {"process", "atlas"}
    /\ Leave(c)
    /\ UNCHANGED <<status, response, span, sent, answered, got>>

Dispatch(c) ==
    /\ pc[c] = "ready" /\ sent[req[c]] < MaxSends
    /\ sent' = [sent EXCEPT ![req[c]] = @ + 1]
    /\ pc' = [pc EXCEPT ![c] = "io"]
    /\ reply' = [reply EXCEPT ![c] = sent[req[c]] + 1]
    /\ UNCHANGED <<status, response, span, answered, req, got>>

Answer(c) ==
    /\ pc[c] = "io"
    /\ answered' = [answered EXCEPT ![req[c]] = @ + 1]
    /\ pc' = [pc EXCEPT ![c] = "answered"]
    /\ UNCHANGED <<status, response, span, sent, req, reply, got>>

(* The closing transactions.                                               *)

CloseDeleted(q, callStatus, spanStatus) ==
    IF span[q] \in Settled THEN UNCHANGED <<status, span>>
    ELSE /\ status' = [status EXCEPT ![q] = callStatus]
         /\ span' = [span EXCEPT ![q] = spanStatus]

\* A row that was deleted meanwhile stays deleted.  OperationTelemetry's
\* transition refuses to leave a terminal status; the ValueError takes the
\* whole transaction back.
Close(q, callStatus, spanStatus) ==
    IF status[q] = "none" \/ span[q] \in Settled THEN UNCHANGED <<status, span>>
    ELSE /\ status' = [status EXCEPT ![q] = callStatus]
         /\ span' = [span EXCEPT ![q] = spanStatus]

StoreReturnsItsOwn(c) ==
    LET q == req[c] IN
    /\ pc[c] = "answered"
    /\ IF status[q] = "completed" \/ span[q] \in Settled
       THEN UNCHANGED <<status, response, span>>
       ELSE /\ Close(q, "completed", "SUCCEEDED")
            /\ response' = [response EXCEPT ![q] = reply[c]]
    /\ Return(c, q, reply[c])
    /\ Leave(c)
    /\ UNCHANGED <<sent, answered>>

\* The answer is stored, gives way to the one that is stored already, or is
\* lost with a call that was deleted ("external call intent disappeared").
Store(c) ==
    LET q == req[c] IN
    /\ pc[c] = "answered"
    /\ \/ /\ status[q] = "completed"
          /\ Return(c, q, response[q])
          /\ UNCHANGED <<status, response, span>>
       \/ /\ status[q] \notin {"none", "completed"} /\ span[q] \notin Settled
          /\ Close(q, "completed", "SUCCEEDED")
          /\ response' = [response EXCEPT ![q] = reply[c]]
          /\ Return(c, q, reply[c])
       \/ /\ status[q] # "completed"
          /\ status[q] = "none" \/ span[q] \in Settled
          /\ UNCHANGED <<status, response, span, got>>
    /\ Leave(c)
    /\ UNCHANGED <<sent, answered>>

\* ModelProviderError.  The row is not asked whether it is completed.
ProviderError(c) ==
    LET q == req[c] IN
    /\ pc[c] = "io"
    /\ \E retryable \in BOOLEAN :
          IF retryable /\ OwnerOf[q] # "stream"
          THEN Close(q, "failed_retryable", "WAITING")
          ELSE Close(q, "failed_terminal", "FAILED")
    /\ Leave(c)
    /\ UNCHANGED <<response, sent, answered, got>>

\* The last admission, or before_dispatch, stands inside the same try as the
\* provider I/O; a stream stores its answer inside it too.
Interruptible(c) ==
    \/ pc[c] \in {"ready", "io"}
    \/ pc[c] = "answered" /\ OwnerOf[req[c]] = "stream"

\* CancelledError, and the consumer of a stream that goes away.
Cancel(c) ==
    LET q == req[c] IN
    /\ Interruptible(c)
    /\ IF status[q] = "completed" THEN UNCHANGED <<status, span>>
       ELSE Close(q, "cancelled", "CANCELLED")
    /\ Leave(c)
    /\ UNCHANGED <<response, sent, answered, got>>

\* Any other exception: a stream records a failure, the others leave the
\* intent as it is.
OtherError(c) ==
    LET q == req[c] IN
    /\ Interruptible(c)
    /\ IF OwnerOf[q] # "stream" \/ status[q] = "completed" THEN UNCHANGED <<status, span>>
       ELSE Close(q, "failed_terminal", "FAILED")
    /\ Leave(c)
    /\ UNCHANGED <<response, sent, answered, got>>

\* The process is lost, or cancelled within one of its transactions.
Crash(c) ==
    /\ pc[c] # "idle"
    /\ Leave(c)
    /\ UNCHANGED <<status, response, span, sent, answered, got>>

Next ==
    \E c \in Callers :
        \/ \E q \in Requests : Execute(c, q)
        \/ Inadmissible(c) \/ Dispatch(c) \/ Answer(c) \/ Store(c)
        \/ ProviderError(c) \/ Cancel(c) \/ OtherError(c) \/ Crash(c)

Spec == Init /\ [][Next]_vars

-----------------------------------------------------------------------------
(* Properties.                                                             *)

TypeOK ==
    /\ status \in [Requests -> {"none", "pending", "completed", "failed_retryable",
                                "failed_terminal", "cancelled"}]
    /\ response \in [Requests -> Nat \union {NULL}]
    /\ span \in [Requests -> {"none", "RUNNING", "WAITING"} \union Settled]
    /\ sent \in [Requests -> Nat] /\ answered \in [Requests -> Nat]
    /\ pc \in [Callers -> {"idle", "ready", "io", "answered"}]
    /\ req \in [Callers -> Requests \union {NULL}]
    /\ reply \in [Callers -> Nat \union {NULL}]
    /\ got \in [Callers -> [Requests -> Nat \union {NULL}]]

\* The ledger and the telemetry tell one story: a call is completed when and
\* only when its span succeeded and a response is kept, and a terminal
\* failure, a cancellation and a call still open each have their span.
LedgerMatchesSpan ==
    \A q \in Requests :
        /\ status[q] = "completed" <=> span[q] = "SUCCEEDED"
        /\ status[q] = "completed" <=> response[q] # NULL
        /\ status[q] = "failed_terminal" <=> span[q] = "FAILED"
        /\ status[q] = "cancelled" <=> span[q] = "CANCELLED"
        /\ status[q] = "pending" => span[q] = "RUNNING"
        /\ status[q] = "none" <=> span[q] = "none"

\* Whoever executed a request id, and whenever, was given the one answer that
\* the ledger keeps while it keeps the call, even when several callers generated at once.
OneAnswerPerRequest ==
    \A c \in Callers, q \in Requests :
        status[q] # "none" /\ got[c][q] # NULL => got[c][q] = response[q]

\* A settled call stays as it is: a late answer, error or cancellation of
\* another caller can neither replace the answer nor reopen the call.
SettledIsFinal ==
    [][\A q \in Requests : span[q] \in Settled =>
          /\ span'[q] = span[q] /\ status'[q] = status[q]
          /\ response'[q] = response[q]]_vars

\* "Unresolved effects cannot be automatically retried": a process's or
\* Atlas's request reaches the provider at most once, through crashes,
\* refused admissions and callers that try again.
EffectsHappenOnce ==
    \A q \in Requests : OwnerOf[q] \in {"process", "atlas"} => sent[q] <= 1
=============================================================================
