--------------------------- MODULE InteractionLab ---------------------------
(***************************************************************************)
(* The Interaction Lab (padawan/interaction/store.py and service.py) over  *)
(* the external call ledger.                                               *)
(*                                                                         *)
(* A turn of a conversation is one generation that is streamed to the      *)
(* browser: stream_generation prepares it under the consent of the         *)
(* moment, writes the turn and its trace, executes the call of the trace   *)
(* with stream_execute and seals what came of it.  The browser may go away *)
(* at every yield, the task or the process may be lost, and the session    *)
(* may be deleted, its consent changed and feedback given, at any time.    *)
(*                                                                         *)
(* A caller is a student target: target.lock lets it stream one turn at a  *)
(* time.  A turn, its trace and its request are allocated together and     *)
(* have one id.  Messages, branches, manifests and timing are left out;    *)
(* the artifacts of a trace and of a call live and die with their rows.    *)
(***************************************************************************)
EXTENDS ExternalCall

CONSTANTS
    Sessions,       \* conversations
    SessionOf       \* turn -> its session

Turns   == {q \in Requests : OwnerOf[q] = "stream"}
Others  == {q \in Requests : OwnerOf[q] \in {"run", "process"}}
Classes == {"personal_deletable", "consented_research_evidence"}

ASSUME LabAssumption == SessionOf \in [Turns -> Sessions] /\ NULL \notin Classes

VARIABLES
    consent,    \* session -> class of its current consent event, "none" before
                \*            it is created and "deleted" after
    turn,       \* turn -> InteractionTurnRow.status, "none" without a row
    trace,      \* turn -> InteractionTraceRow.status, "none" without a row
    retention,  \* turn -> InteractionTraceRow.retention_classification, or NULL
    record,     \* turn -> whether its trace holds the record of a sealed turn
    feedback,   \* <<turn, class>> of the InteractionFeedbackRows
    stage,      \* caller -> where it stands in stream_generation, or "idle"
    task,       \* caller -> the turn it streams, or NULL
    held        \* caller -> the consent the turn was prepared under, or NULL

rows    == <<turn, trace, retention, record>>
streams == <<stage, task, held>>
labVars == <<vars, consent, rows, feedback, streams>>

LabInit ==
    /\ Init
    /\ consent = [s \in Sessions |-> "none"]
    /\ turn = [q \in Turns |-> "none"] /\ trace = [q \in Turns |-> "none"]
    /\ retention = [q \in Turns |-> NULL] /\ record = [q \in Turns |-> FALSE]
    /\ feedback = {}
    /\ stage = [c \in Callers |-> "idle"]
    /\ task = [c \in Callers |-> NULL] /\ held = [c \in Callers |-> NULL]

Live(s) == consent[s] \in Classes

-----------------------------------------------------------------------------
(* The session, its consent and its feedback: a transaction each.          *)

CreateSession(s, class) ==
    /\ consent[s] = "none"
    /\ consent' = [consent EXCEPT ![s] = class]
    /\ UNCHANGED <<vars, rows, feedback, streams>>

\* append_consent: "changing the toggle affects future turns".
AppendConsent(s, class) ==
    /\ Live(s)
    /\ consent' = [consent EXCEPT ![s] = class]
    /\ UNCHANGED <<vars, rows, feedback, streams>>

\* append_feedback, under the consent of the moment.
AppendFeedback(q) ==
    /\ turn[q] # "none"
    /\ feedback' = feedback \union {<<q, consent[SessionOf[q]]>>}
    /\ UNCHANGED <<vars, consent, rows, streams>>

\* Mutated forms of a definition stand before it: the bug each one plants must
\* break the property it is paired with.
DeletableByCurrentConsent(q) ==
    trace[q] # "none" /\ consent[SessionOf[q]] = "personal_deletable"

Deletable(q) == trace[q] # "none" /\ retention[q] = "personal_deletable"

\* The turns of a conversation go; of its traces the personal ones, with
\* their calls, spans and references; of its feedback the personal one.
DeleteSession(s) ==
    LET mine == {q \in Turns : SessionOf[q] = s}
        gone == {q \in mine : Deletable(q)}
        Reset(f, Q, none) == [q \in DOMAIN f |-> IF q \in Q THEN none ELSE f[q]]
    IN
    /\ Live(s)
    /\ consent' = [consent EXCEPT ![s] = "deleted"]
    /\ turn' = Reset(turn, mine, "none")
    /\ trace' = Reset(trace, gone, "none") /\ retention' = Reset(retention, gone, NULL)
    /\ record' = Reset(record, gone, FALSE)
    /\ status' = Reset(status, gone, "none") /\ response' = Reset(response, gone, NULL)
    /\ span' = Reset(span, gone, "none")
    /\ feedback' = {f \in feedback : f[1] \in mine => f[2] # "personal_deletable"}
    /\ UNCHANGED <<sent, answered, pc, req, reply, got, streams>>

-----------------------------------------------------------------------------
(* stream_generation.                                                      *)

Reach(c, to) == stage' = [stage EXCEPT ![c] = to] /\ UNCHANGED <<task, held>>

\* The generator is over, or lost, and the lock of the target is released.
Release(c) ==
    /\ stage' = [stage EXCEPT ![c] = "idle"]
    /\ task' = [task EXCEPT ![c] = NULL] /\ held' = [held EXCEPT ![c] = NULL]

\* _prepare_turn: fresh ids, and the consent as it is now.
Prepare(c, q) ==
    /\ stage[c] = "idle" /\ pc[c] = "idle" /\ Live(SessionOf[q])
    /\ turn[q] = "none" /\ trace[q] = "none" /\ \A d \in Callers : task[d] # q
    /\ stage' = [stage EXCEPT ![c] = "prepared"]
    /\ task' = [task EXCEPT ![c] = q]
    /\ held' = [held EXCEPT ![c] = consent[SessionOf[q]]]
    /\ UNCHANGED <<vars, consent, rows, feedback>>

\* The target is not ready, or the session was deleted: nothing is written.
Abandon(c) ==
    /\ stage[c] = "prepared" /\ Release(c)
    /\ UNCHANGED <<vars, consent, rows, feedback>>

\* begin_turn and mark_streaming, then the "start" update.
Begin(c) ==
    LET q == task[c] IN
    /\ stage[c] = "prepared" /\ Live(SessionOf[q])
    /\ turn' = [turn EXCEPT ![q] = "streaming"] /\ trace' = [trace EXCEPT ![q] = "streaming"]
    /\ retention' = [retention EXCEPT ![q] = held[c]]
    /\ Reach(c, "started")
    /\ UNCHANGED <<vars, consent, record, feedback>>

\* The intent of stream_execute.  A call belongs to its trace by a foreign
\* key: the insert fails when the trace was deleted.
Call(c) ==
    LET q == task[c] IN
    /\ stage[c] = "started"
    /\ IF trace[q] # "none" THEN Intend(c, q) /\ Reach(c, "streaming")
       ELSE UNCHANGED vars /\ Reach(c, "failed")
    /\ UNCHANGED <<consent, rows, feedback>>

\* The invocation runs while its consumer waits for it.  An answer that is
\* stored leaves it, and a call that disappeared fails it.
Stream(c) ==
    /\ stage[c] = "streaming"
    /\ \/ (Dispatch(c) \/ Answer(c)) /\ Reach(c, "streaming")
       \/ Store(c) /\ Reach(c, IF status[req[c]] = "none" THEN "failed" ELSE "sealing")
       \/ (ProviderError(c) \/ OtherError(c)) /\ Reach(c, "failed")
       \/ Cancel(c) /\ Reach(c, "cancelled")
    /\ UNCHANGED <<consent, rows, feedback>>

\* The browser goes away at a yield, or the task is cancelled outside the
\* invocation: "start", a delta, the remainder, and "completed".
Disconnect(c) ==
    /\ \/ stage[c] \in {"started", "sealing", "told"}
       \/ stage[c] = "streaming" /\ pc[c] = "io"
    /\ Reach(c, "cancelled")
    /\ UNCHANGED <<vars, consent, rows, feedback>>

\* _seal_completed_trace and complete_turn, then the "completed" update.
Seal(c) ==
    LET q == task[c] IN
    /\ stage[c] = "sealing"
    /\ IF status[q] = "completed" /\ turn[q] = "streaming" /\ trace[q] = "streaming"
       THEN /\ turn' = [turn EXCEPT ![q] = "completed"]
            /\ trace' = [trace EXCEPT ![q] = "completed"]
            /\ record' = [record EXCEPT ![q] = TRUE]
            /\ Reach(c, "told")
            /\ UNCHANGED retention
       ELSE UNCHANGED rows /\ Reach(c, "failed")
    /\ UNCHANGED <<vars, consent, feedback>>

\* An artifact of the trace cannot be written.
SealRaises(c) ==
    /\ stage[c] = "sealing" /\ Reach(c, "failed")
    /\ UNCHANGED <<vars, consent, rows, feedback>>

\* The consumer takes the last update.
Finish(c) ==
    /\ stage[c] = "told" /\ Reach(c, "closing")
    /\ UNCHANGED <<vars, consent, rows, feedback>>

\* _seal_failure and fail_turn, which ask only whether both rows are there.
SealFailure(c) ==
    LET q == task[c] IN
    /\ stage[c] \in {"failed", "cancelled"}
    /\ IF turn[q] # "none" /\ trace[q] # "none"
       THEN /\ turn' = [turn EXCEPT ![q] = stage[c]] /\ trace' = [trace EXCEPT ![q] = stage[c]]
       ELSE UNCHANGED <<turn, trace>>
    /\ Reach(c, "closing")
    /\ UNCHANGED <<vars, consent, retention, record, feedback>>

\* _close_async_iterator: an invocation that still waits is cancelled.
CloseInvocation(c) ==
    /\ stage[c] = "closing" /\ Release(c)
    /\ IF pc[c] = "idle" THEN UNCHANGED vars ELSE Cancel(c)
    /\ UNCHANGED <<consent, rows, feedback>>

\* The task is cancelled while it handles a failure, or the process is lost.
Lose(c) ==
    /\ stage[c] # "idle" /\ Release(c)
    /\ IF pc[c] = "idle" THEN UNCHANGED vars ELSE Crash(c)
    /\ UNCHANGED <<consent, rows, feedback>>

\* The calls of runs and processes, beside the Lab's.
OtherCalls ==
    /\ \E c \in Callers :
          /\ stage[c] = "idle"
          /\ \/ \E q \in Others : Execute(c, q)
             \/ /\ req[c] \in Others
                /\ \/ Inadmissible(c) \/ Dispatch(c) \/ Answer(c) \/ Store(c)
                   \/ ProviderError(c) \/ Cancel(c) \/ OtherError(c) \/ Crash(c)
    /\ UNCHANGED <<consent, rows, feedback, streams>>

LabNext ==
    \/ \E s \in Sessions :
          \/ \E class \in Classes : CreateSession(s, class) \/ AppendConsent(s, class)
          \/ DeleteSession(s)
    \/ \E q \in Turns : AppendFeedback(q)
    \/ \E c \in Callers :
          \/ \E q \in Turns : Prepare(c, q)
          \/ Abandon(c) \/ Begin(c) \/ Call(c) \/ Stream(c) \/ Disconnect(c)
          \/ Seal(c) \/ SealRaises(c) \/ Finish(c) \/ SealFailure(c)
          \/ CloseInvocation(c) \/ Lose(c)
    \/ OtherCalls

LabSpec == LabInit /\ [][LabNext]_labVars

-----------------------------------------------------------------------------
(* Properties.                                                             *)

LabTypeOK ==
    /\ TypeOK
    /\ consent \in [Sessions -> Classes \union {"none", "deleted"}]
    /\ turn \in [Turns -> {"none", "streaming", "completed", "failed", "cancelled"}]
    /\ trace \in [Turns -> {"none", "streaming", "completed", "failed", "cancelled"}]
    /\ retention \in [Turns -> Classes \union {NULL}] /\ record \in [Turns -> BOOLEAN]
    /\ feedback \subseteq Turns \X Classes
    /\ stage \in [Callers -> {"idle", "prepared", "started", "streaming", "sealing", "told",
                              "failed", "cancelled", "closing"}]
    /\ task \in [Callers -> Turns \union {NULL}] /\ held \in [Callers -> Classes \union {NULL}]

\* "It removes personal trace rows, their invocation rows, operation
\* telemetry": nothing personal is left of a deleted conversation, and a turn
\* that was streaming then writes nothing of it back.
DeletionIsComplete ==
    \A q \in Turns : consent[SessionOf[q]] = "deleted" =>
        /\ turn[q] = "none" /\ <<q, "personal_deletable">> \notin feedback
        /\ retention[q] # "personal_deletable"
        /\ trace[q] = "none" => status[q] = "none" /\ span[q] = "none" /\ response[q] = NULL

\* "Consented research traces, consented feedback, and their evidence are
\* retained": a trace keeps the class it was begun under, and what a consented
\* one has, its call and its answer, stays, whatever becomes of the consent
\* and of the conversation.
ConsentedEvidenceStays ==
    [][/\ \A q \in Turns : retention[q] = "consented_research_evidence" =>
             /\ retention'[q] = retention[q] /\ trace'[q] # "none"
             /\ status[q] # "none" => status'[q] # "none"
             /\ response[q] # NULL => response'[q] = response[q]
             /\ record[q] => record'[q]
       /\ \A f \in feedback : f[2] = "consented_research_evidence" => f \in feedback'
      ]_labVars

\* docs/interaction-lab.md: "immutable, attributed turn traces"; complete_turn:
\* "interaction trace is already sealed".
SealedTracesStand == \A q \in Turns : record[q] => trace[q] = "completed"
=============================================================================
