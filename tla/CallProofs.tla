----------------------------- MODULE CallProofs -----------------------------
(***************************************************************************)
(* Proofs about ExternalCall, and about those who use the call ledger: the *)
(* conversations of the Interaction Lab (InteractionLab) and the trials of *)
(* an Atlas run (AtlasTrials), for every set of requests, callers and      *)
(* controllers and any bound on dispatches.                                *)
(***************************************************************************)
EXTENDS ExternalCall, InteractionLab, AtlasTrials, FiniteSetTheorems, TLAPS

-----------------------------------------------------------------------------
(* The ledger by itself.                                                   *)

\* Why effects happen once: a guarded request is dispatched only by the caller that wrote its intent,
\* and no second caller ever enters.
Guarded(q) == OwnerOf[q] \in {"process", "atlas"}

OneSender ==
    /\ \A c \in Callers : req[c] = NULL <=> pc[c] = "idle"
    /\ \A q \in Requests : Guarded(q) =>
          /\ sent[q] \in 0..1
          /\ status[q] = "none" => sent[q] = 0
          /\ \A c \in Callers : req[c] = q =>
                /\ status[q] # "none"
                /\ pc[c] = "ready" => sent[q] = 0
                /\ \A d \in Callers : req[d] = q => d = c

\* Nobody was given an answer to a request before it was made.
Unanswered == \A c \in Callers, q \in Requests : status[q] = "none" => got[c][q] = NULL

\* A caller that dispatched has its answer at hand.
ReplyHeld == \A c \in Callers : pc[c] \in {"io", "answered"} => reply[c] \in Nat

Inv ==
    /\ TypeOK
    /\ LedgerMatchesSpan
    /\ Unanswered
    /\ OneAnswerPerRequest
    /\ OneSender
    /\ ReplyHeld

LEMMA InitInv == Init => Inv
BY CallAssumption
   DEF Init, Inv, TypeOK, LedgerMatchesSpan, Unanswered, OneAnswerPerRequest, OneSender, ReplyHeld, Settled

\* Leaving, entering and the other steps that leave the ledger alone.
LEMMA LeaveFacts ==
    ASSUME Inv, NEW c \in Callers, Leave(c)
    PROVE  /\ pc' \in [Callers -> {"idle", "ready", "io", "answered"}]
           /\ req' \in [Callers -> Requests \union {NULL}]
           /\ reply' \in [Callers -> Nat \union {NULL}]
           /\ \A d \in Callers : /\ req'[d] = IF d = c THEN NULL ELSE req[d]
                                 /\ pc'[d] = IF d = c THEN "idle" ELSE pc[d]
           /\ ReplyHeld'
BY DEF Inv, TypeOK, Leave, ReplyHeld

LEMMA EnterFacts ==
    ASSUME Inv, NEW c \in Callers, NEW q \in Requests, Enter(c, q)
    PROVE  /\ pc' \in [Callers -> {"idle", "ready", "io", "answered"}]
           /\ req' \in [Callers -> Requests \union {NULL}]
           /\ reply' \in [Callers -> Nat \union {NULL}]
           /\ \A d \in Callers : /\ req'[d] = IF d = c THEN q ELSE req[d]
                                 /\ pc'[d] = IF d = c THEN "ready" ELSE pc[d]
           /\ ReplyHeld'
BY DEF Inv, TypeOK, Enter, ReplyHeld

\* A caller that is not idle executes a request that has a row.
LEMMA BusyFacts ==
    ASSUME Inv, NEW c \in Callers, pc[c] # "idle"
    PROVE  req[c] \in Requests
BY DEF Inv, TypeOK, OneSender

LEMMA LeaveInv ==
    ASSUME Inv, NEW c \in Callers, Leave(c),
           UNCHANGED <<status, response, span, sent, answered, got>>
    PROVE  Inv'
<1>1. TypeOK'
    BY LeaveFacts DEF Inv, TypeOK
<1>2. LedgerMatchesSpan' /\ (Unanswered /\ OneAnswerPerRequest)'
    BY DEF Inv, LedgerMatchesSpan, Unanswered, OneAnswerPerRequest
<1>3. OneSender'
    BY CallAssumption, LeaveFacts DEF Inv, OneSender, Guarded
<1> QED BY <1>1, <1>2, <1>3, LeaveFacts DEF Inv

\* Close records an outcome in both tables, or in neither.
LEMMA CloseInv ==
    ASSUME Inv, NEW c \in Callers, NEW q \in Requests, q = req[c],
           NEW callStatus, NEW spanStatus,
           <<callStatus, spanStatus>> \in {<<"failed_retryable", "WAITING">>,
                <<"failed_terminal", "FAILED">>, <<"cancelled", "CANCELLED">>},
           Close(q, callStatus, spanStatus) \/ UNCHANGED <<status, span>>,
           Leave(c), UNCHANGED <<response, sent, answered, got>>
    PROVE  Inv'
<1> USE CallAssumption
<1>0. /\ callStatus \in {"failed_retryable", "failed_terminal", "cancelled"}
      /\ spanStatus \in {"WAITING", "FAILED", "CANCELLED"}
    OBVIOUS
<1>1. /\ status' \in [Requests -> {"none", "pending", "completed", "failed_retryable",
                                   "failed_terminal", "cancelled"}]
      /\ span' \in [Requests -> {"none", "RUNNING", "WAITING"} \union Settled]
      /\ \A x \in Requests : x # q => status'[x] = status[x] /\ span'[x] = span[x]
      /\ \/ status'[q] = status[q] /\ span'[q] = span[q]
         \/ /\ status'[q] = callStatus /\ span'[q] = spanStatus
            /\ status[q] # "none" /\ span[q] \notin Settled
  <2>1. CASE UNCHANGED <<status, span>>
      BY <2>1 DEF Inv, TypeOK
  <2>2. CASE /\ status[q] # "none" /\ span[q] \notin Settled
             /\ status' = [status EXCEPT ![q] = callStatus]
             /\ span' = [span EXCEPT ![q] = spanStatus]
      BY <1>0, <2>2 DEF Inv, TypeOK, Settled
  <2> QED BY <2>1, <2>2 DEF Close
<1>2. TypeOK'
    BY <1>1, LeaveFacts DEF Inv, TypeOK
<1>3. LedgerMatchesSpan'
    BY <1>1 DEF Inv, LedgerMatchesSpan, Settled
<1>4. (Unanswered /\ OneAnswerPerRequest)'
    BY <1>0, <1>1 DEF Inv, Unanswered, OneAnswerPerRequest
<1>5. OneSender'
    BY <1>1, LeaveFacts DEF Inv, OneSender, Guarded
<1> QED BY <1>2, <1>3, <1>4, <1>5, LeaveFacts DEF Inv

LEMMA NextInv == Inv /\ [Next]_vars => Inv'
<1> SUFFICES ASSUME Inv, [Next]_vars PROVE Inv'
    OBVIOUS
<1> USE CallAssumption
<1>1. ASSUME NEW c \in Callers, NEW q \in Requests, pc[c] = "idle", Intend(c, q)
      PROVE  Inv'
  <2>0. Enter(c, q) /\ UNCHANGED <<response, sent, answered, got>>
      BY <1>1 DEF Intend
  <2>1. TypeOK'
      BY <1>1, <2>0, EnterFacts DEF Intend, Inv, TypeOK
  <2>2. LedgerMatchesSpan'
      BY <1>1 DEF Intend, Inv, TypeOK, LedgerMatchesSpan
  <2>3. \A x \in Requests : status'[x] = IF x = q THEN "pending" ELSE status[x]
      BY <1>1 DEF Intend, Inv, TypeOK
  <2>4. (Unanswered /\ OneAnswerPerRequest)'
      BY <1>1, <2>0, <2>3 DEF Intend, Inv, Unanswered, OneAnswerPerRequest
  <2>5. OneSender'
      BY <1>1, <2>0, <2>3, EnterFacts DEF Intend, Inv, OneSender, Guarded
  <2> QED BY <2>0, <2>1, <2>2, <2>4, <2>5, EnterFacts DEF Inv
<1>2. ASSUME NEW c \in Callers, NEW q \in Requests, Replay(c, q)
      PROVE  Inv'
  <2>1. TypeOK'
      BY <1>2 DEF Replay, Return, Inv, TypeOK
  <2>2. LedgerMatchesSpan' /\ OneSender'
      BY <1>2 DEF Replay, Inv, LedgerMatchesSpan, OneSender, Guarded
  <2>3. (Unanswered /\ OneAnswerPerRequest)'
      BY <1>2 DEF Replay, Return, Inv, TypeOK, Unanswered, OneAnswerPerRequest
  <2>4. ReplyHeld'
      BY <1>2 DEF Replay, Inv, ReplyHeld
  <2> QED BY <2>1, <2>2, <2>3, <2>4 DEF Inv
<1>3. ASSUME NEW c \in Callers, NEW q \in Requests, pc[c] = "idle", Redo(c, q)
      PROVE  Inv'
  <2>0. /\ Enter(c, q) /\ UNCHANGED <<status, response, sent, answered, got>>
        /\ ~Guarded(q)
      BY <1>3 DEF Redo, Resumable, Guarded
  <2>1. TypeOK'
      BY <1>3, <2>0, EnterFacts DEF Redo, Inv, TypeOK
  <2>2. LedgerMatchesSpan'
      BY <1>3, <2>0 DEF Redo, Resumable, Inv, TypeOK, LedgerMatchesSpan
  <2>3. (Unanswered /\ OneAnswerPerRequest)'
      BY <2>0 DEF Inv, Unanswered, OneAnswerPerRequest
  <2>4. OneSender'
      BY <2>0, EnterFacts DEF Inv, OneSender, Guarded
  <2> QED BY <2>0, <2>1, <2>2, <2>3, <2>4, EnterFacts DEF Inv
<1>4. ASSUME NEW c \in Callers, Dispatch(c) PROVE Inv'
  <2>1. req[c] \in Requests /\ pc[c] = "ready"
      BY <1>4, BusyFacts DEF Dispatch
  <2>2. /\ sent' = [sent EXCEPT ![req[c]] = @ + 1] /\ pc' = [pc EXCEPT ![c] = "io"]
        /\ reply' = [reply EXCEPT ![c] = sent[req[c]] + 1]
        /\ UNCHANGED <<status, response, span, answered, req, got>>
      BY <1>4 DEF Dispatch
  <2>3. TypeOK'
      BY <2>1, <2>2 DEF Inv, TypeOK
  <2>4. LedgerMatchesSpan' /\ (Unanswered /\ OneAnswerPerRequest)'
      BY <2>2 DEF Inv, LedgerMatchesSpan, Unanswered, OneAnswerPerRequest
  <2>5. OneSender'
    <3>1. \A d \in Callers : pc'[d] = IF d = c THEN "io" ELSE pc[d]
        BY <2>2 DEF Inv, TypeOK
    <3>2. \A x \in Requests : sent'[x] = IF x = req[c] THEN sent[x] + 1 ELSE sent[x]
        BY <2>1, <2>2 DEF Inv, TypeOK
    <3> QED BY <3>1, <3>2, <2>1, <2>2 DEF Inv, OneSender, Guarded
  <2>6. ReplyHeld'
      BY <2>1, <2>2 DEF Inv, TypeOK, ReplyHeld
  <2> QED BY <2>3, <2>4, <2>5, <2>6 DEF Inv
<1>5. ASSUME NEW c \in Callers, Answer(c) PROVE Inv'
  <2>1. req[c] \in Requests
      BY <1>5, BusyFacts DEF Answer
  <2>2. TypeOK'
      BY <1>5, <2>1 DEF Answer, Inv, TypeOK
  <2>3. LedgerMatchesSpan' /\ (Unanswered /\ OneAnswerPerRequest)'
      BY <1>5 DEF Answer, Inv, LedgerMatchesSpan, Unanswered, OneAnswerPerRequest
  <2>4. \A d \in Callers : pc'[d] = IF d = c THEN "answered" ELSE pc[d]
      BY <1>5 DEF Answer, Inv, TypeOK
  <2>5. OneSender'
      BY <1>5, <2>4 DEF Answer, Inv, OneSender, Guarded
  <2>6. ReplyHeld'
      BY <1>5, <2>4 DEF Answer, Inv, ReplyHeld
  <2> QED BY <2>2, <2>3, <2>5, <2>6 DEF Inv
<1>6. ASSUME NEW c \in Callers, Store(c) PROVE Inv'
  <2> DEFINE q == req[c]
  <2>1. q \in Requests /\ Leave(c) /\ UNCHANGED <<sent, answered>>
      BY <1>6, BusyFacts DEF Store
  <2>2. CASE status[q] = "completed" /\ Return(c, q, response[q])
             /\ UNCHANGED <<status, response, span>>
    <3>1. TypeOK'
        BY <2>1, <2>2, LeaveFacts DEF Return, Inv, TypeOK
    <3>2. LedgerMatchesSpan'
        BY <2>2 DEF Inv, LedgerMatchesSpan
    <3>3. (Unanswered /\ OneAnswerPerRequest)'
        BY <2>1, <2>2 DEF Return, Inv, TypeOK, Unanswered, OneAnswerPerRequest
    <3>4. OneSender'
        BY <2>1, <2>2, LeaveFacts DEF Inv, OneSender, Guarded
    <3> QED BY <2>1, <3>1, <3>2, <3>3, <3>4, LeaveFacts DEF Inv
  <2>3. CASE /\ status[q] \notin {"none", "completed"} /\ span[q] \notin Settled
             /\ Close(q, "completed", "SUCCEEDED")
             /\ response' = [response EXCEPT ![q] = reply[c]]
             /\ Return(c, q, reply[c])
    <3>0. /\ status' = [status EXCEPT ![q] = "completed"]
          /\ span' = [span EXCEPT ![q] = "SUCCEEDED"]
        BY <2>3 DEF Close
    <3>5. reply[c] \in Nat
        BY <1>6 DEF Store, Inv, ReplyHeld
    <3>1. TypeOK'
        BY <2>1, <2>3, <3>0, LeaveFacts DEF Return, Inv, TypeOK, Settled
    <3>2. LedgerMatchesSpan'
        BY <2>1, <2>3, <3>0, <3>5 DEF Inv, TypeOK, LedgerMatchesSpan, Settled
    <3>6. \A x \in Requests : status[x] # "none" => status'[x] # "none"
        BY <3>0 DEF Inv, TypeOK
    <3>7. status'[q] # "none" /\ \A x \in Requests : x # q => status'[x] = status[x]
        BY <2>1, <3>0 DEF Inv, TypeOK
    <3>9. \A x \in Requests, d \in Callers :
             got'[d][x] = IF d = c /\ x = q THEN reply[c] ELSE got[d][x]
        BY <2>1, <2>3 DEF Return, Inv, TypeOK
    <3>10. \A x \in Requests : response'[x] = IF x = q THEN reply[c] ELSE response[x]
        BY <2>1, <2>3 DEF Inv, TypeOK
    <3>11. \A d \in Callers : got[d][q] = NULL
        BY <2>1, <2>3 DEF Inv, TypeOK, OneAnswerPerRequest, LedgerMatchesSpan
    <3>3. (Unanswered /\ OneAnswerPerRequest)'
      <4>1. Unanswered'
          BY <3>7, <3>9 DEF Inv, Unanswered
      <4>2. OneAnswerPerRequest'
          BY <3>7, <3>9, <3>10, <3>11 DEF Inv, OneAnswerPerRequest
      <4> QED BY <4>1, <4>2
    <3>8. sent' = sent /\ \A x \in Requests : status'[x] = "none" => sent[x] = 0 \/ ~Guarded(x)
        BY <2>1, <3>7 DEF Inv, OneSender
    <3>4. OneSender'
        BY <2>1, <3>6, <3>8, LeaveFacts DEF Inv, OneSender, Guarded
    <3> QED BY <2>1, <3>1, <3>2, <3>3, <3>4, LeaveFacts DEF Inv
  <2>4. CASE UNCHANGED <<status, response, span, got>>
      BY <2>1, <2>4, LeaveInv
  <2> QED BY <1>6, <2>2, <2>3, <2>4 DEF Store
<1>7. ASSUME NEW c \in Callers, Inadmissible(c) \/ Crash(c) PROVE Inv'
    BY <1>7, LeaveInv DEF Inadmissible, Crash
<1>8. ASSUME NEW c \in Callers, ProviderError(c) \/ Cancel(c) \/ OtherError(c) PROVE Inv'
  <2>1. req[c] \in Requests
      BY <1>8, BusyFacts DEF ProviderError, Cancel, OtherError, Interruptible
  <2> QED BY <1>8, <2>1, CloseInv DEF ProviderError, Cancel, OtherError
<1>9. CASE UNCHANGED vars
    BY <1>9 DEF vars, Inv, TypeOK, LedgerMatchesSpan, Unanswered, OneAnswerPerRequest, OneSender, Guarded,
                ReplyHeld
<1> QED BY <1>1, <1>2, <1>3, <1>4, <1>5, <1>6, <1>7, <1>8, <1>9 DEF Next, Execute

\* Inv holds in every reachable state.
THEOREM Invariance == Spec => []Inv
BY InitInv, NextInv, PTL DEF Spec

\* Ledger rows and operation spans, written in the same transactions, never
\* disagree about a call's outcome.
THEOREM LedgerAndSpanAgree == Spec => []LedgerMatchesSpan
BY Invariance, PTL DEF Inv

\* Replaying a request id returns the stored response to every caller.
THEOREM AnswersAgree == Spec => []OneAnswerPerRequest
BY Invariance, PTL DEF Inv

\* The calls of processes and of Atlas are dispatched at most once.
THEOREM NoRepeatedEffect == Spec => []EffectsHappenOnce
<1>1. Inv => EffectsHappenOnce
    BY DEF Inv, OneSender, Guarded, EffectsHappenOnce
<1> QED BY <1>1, Invariance, PTL

\* No late answer, error or cancellation changes a settled call, although the
\* error path does not look at the row: the span's own rule protects it.
THEOREM SettledStays == Spec => SettledIsFinal
<1>1. ASSUME Inv, [Next]_vars, NEW q \in Requests, span[q] \in Settled
      PROVE  /\ span'[q] = span[q] /\ status'[q] = status[q]
             /\ response'[q] = response[q]
  <2>0. status[q] \notin {"none", "pending"} /\ span[q] \notin {"none", "WAITING", "RUNNING"}
      BY <1>1 DEF Inv, LedgerMatchesSpan, Settled
  <2>1. ASSUME NEW c \in Callers, NEW x \in Requests, Intend(c, x)
        PROVE  x # q /\ span' = [span EXCEPT ![x] = "RUNNING"]
               /\ status' = [status EXCEPT ![x] = "pending"] /\ response' = response
      BY <2>0, <2>1 DEF Intend
  <2>2. ASSUME NEW c \in Callers, NEW x \in Requests, Redo(c, x)
        PROVE  span'[q] = span[q] /\ status' = status /\ response' = response
      BY <2>0, <2>2, <1>1 DEF Redo, Inv, TypeOK
  <2>3. ASSUME NEW c \in Callers, Store(c)
        PROVE  span'[q] = span[q] /\ status'[q] = status[q] /\ response'[q] = response[q]
    <3>1. req[c] \in Requests
        BY <1>1, <2>3, BusyFacts DEF Store
    <3>2. CASE req[c] = q
      <4>1. CASE status[q] = "completed"
          BY <2>3, <3>2, <4>1 DEF Store
      <4>2. CASE status[q] # "completed"
          BY <1>1, <2>3, <3>2, <4>2 DEF Store
      <4> QED BY <4>1, <4>2
    <3>3. CASE req[c] # q
        BY <1>1, <2>3, <3>1, <3>3 DEF Store, Close, Inv, TypeOK
    <3> QED BY <3>2, <3>3
  <2>4. ASSUME NEW c \in Callers, ProviderError(c) \/ Cancel(c) \/ OtherError(c)
        PROVE  span'[q] = span[q] /\ status'[q] = status[q] /\ response' = response
    <3>1. /\ response' = response
          /\ \/ UNCHANGED <<status, span>>
             \/ \E callStatus, spanStatus : Close(req[c], callStatus, spanStatus)
        BY <2>4 DEF ProviderError, Cancel, OtherError
    <3> QED BY <1>1, <3>1 DEF Close, Inv, TypeOK
  <2>5. ASSUME NEW c \in Callers,
               \/ \E x \in Requests : Replay(c, x)
               \/ Inadmissible(c) \/ Dispatch(c) \/ Answer(c) \/ Crash(c)
        PROVE  span' = span /\ status' = status /\ response' = response
      BY <2>5 DEF Replay, Inadmissible, Dispatch, Answer, Crash
  <2>6. CASE UNCHANGED vars
      BY <2>6 DEF vars
  <2>7. ASSUME NEW c \in Callers, NEW x \in Requests, Intend(c, x)
        PROVE  span'[q] = span[q] /\ status'[q] = status[q] /\ response' = response
      BY <1>1, <2>1, <2>7 DEF Inv, TypeOK
  <2> QED BY <1>1, <2>2, <2>3, <2>4, <2>5, <2>6, <2>7 DEF Next, Execute
<1>2. ASSUME Inv, [Next]_vars
      PROVE  \A q \in Requests : span[q] \in Settled =>
                /\ span'[q] = span[q] /\ status'[q] = status[q]
                /\ response'[q] = response[q]
    BY <1>1, <1>2
<1> QED BY <1>2, Invariance, PTL DEF Spec, SettledIsFinal

-----------------------------------------------------------------------------
(* What the Lab relies on in the ledger.  A deletion takes rows away, so   *)
(* the invariant of the ledger alone, by which an answer given is on       *)
(* record, does not hold here.                                             *)

Over(f) == f = [q \in Requests |-> f[q]]

\* Rows appear together, and a stored response belongs to a call that is over.
Tables ==
    /\ Over(status) /\ Over(span) /\ Over(response)
    /\ \A q \in Requests :
          /\ status[q] = "none" => span[q] = "none" /\ response[q] = NULL
          /\ response[q] # NULL => span[q] = "SUCCEEDED"

Kept ==
    \A q \in Requests :
        /\ status[q] # "none" => status'[q] # "none"
        /\ response[q] # NULL => response'[q] = response[q]

NothingNew == \A q \in Requests : status[q] = "none" => status'[q] = "none"

LEMMA IntendKeepsTables ==
    ASSUME Tables, NEW c, NEW q \in Requests, Intend(c, q)
    PROVE  /\ Tables' /\ Kept
           /\ \A x \in Requests : x # q => status'[x] = status[x]
BY DEF Tables, Over, Kept, Intend

LEMMA CloseKeepsTables ==
    ASSUME Tables, NEW q, NEW callStatus \in {"failed_retryable", "failed_terminal", "cancelled"},
           NEW spanStatus, Close(q, callStatus, spanStatus), response' = response
    PROVE  Tables' /\ Kept /\ NothingNew
<1>1. CASE status[q] # "none" /\ span[q] \notin Settled
  <2>1. /\ status' = [status EXCEPT ![q] = callStatus]
        /\ span' = [span EXCEPT ![q] = spanStatus]
      BY <1>1 DEF Close
  <2>2. Over(status)' /\ Over(span)' /\ Over(response)'
      BY <2>1 DEF Tables, Over
  <2>3. ASSUME NEW x \in Requests
        PROVE  /\ status'[x] = IF x = q THEN callStatus ELSE status[x]
               /\ span'[x] = IF x = q THEN spanStatus ELSE span[x]
      BY <2>1 DEF Tables, Over
  <2> QED BY <1>1, <2>2, <2>3 DEF Tables, Kept, NothingNew, Settled
<1>2. CASE ~(status[q] # "none" /\ span[q] \notin Settled)
    BY <1>2 DEF Close, Tables, Over, Kept, NothingNew
<1> QED BY <1>1, <1>2

LEMMA StoreKeepsTables ==
    ASSUME Tables, NEW c, Store(c)
    PROVE  Tables' /\ Kept /\ NothingNew
<1> DEFINE q == req[c]
<1>1. CASE UNCHANGED <<status, response, span>>
    BY <1>1 DEF Tables, Over, Kept, NothingNew
<1>2. CASE /\ status[q] \notin {"none", "completed"} /\ span[q] \notin Settled
           /\ Close(q, "completed", "SUCCEEDED")
           /\ response' = [response EXCEPT ![q] = reply[c]]
  <2>1. /\ status' = [status EXCEPT ![q] = "completed"]
        /\ span' = [span EXCEPT ![q] = "SUCCEEDED"]
        /\ response' = [response EXCEPT ![q] = reply[c]]
      BY <1>2 DEF Close
  <2>2. Over(status)' /\ Over(span)' /\ Over(response)'
      BY <2>1 DEF Tables, Over
  <2>3. ASSUME NEW x \in Requests
        PROVE  /\ status'[x] = IF x = q THEN "completed" ELSE status[x]
               /\ span'[x] = IF x = q THEN "SUCCEEDED" ELSE span[x]
               /\ response'[x] = IF x = q THEN reply[c] ELSE response[x]
      BY <2>1 DEF Tables, Over
  <2> QED BY <1>2, <2>2, <2>3 DEF Tables, Kept, NothingNew, Settled
<1> QED BY <1>1, <1>2 DEF Store

\* Whatever else a caller does, no row appears, and none that is there goes.
LEMMA CallKeepsTables ==
    ASSUME Tables, NEW c,
           \/ Dispatch(c) \/ Answer(c) \/ Store(c) \/ ProviderError(c) \/ Cancel(c)
           \/ OtherError(c) \/ Crash(c) \/ Inadmissible(c)
           \/ \E q \in Requests : Replay(c, q) \/ Redo(c, q)
    PROVE  Tables' /\ Kept /\ NothingNew
<1>1. CASE UNCHANGED <<status, span, response>>
    BY <1>1 DEF Tables, Over, Kept, NothingNew
<1>2. CASE Store(c)
    BY <1>2, StoreKeepsTables
<1>3. ASSUME NEW q \in Requests, Redo(c, q)
      PROVE  Tables' /\ Kept /\ NothingNew
    BY <1>3 DEF Redo, Resumable, Tables, Over, Kept, NothingNew
<1>4. CASE ProviderError(c)
    BY <1>4, CloseKeepsTables DEF ProviderError
<1>5. CASE Cancel(c) \/ OtherError(c)
    BY <1>1, <1>5, CloseKeepsTables DEF Cancel, OtherError
<1> QED
    BY <1>1, <1>2, <1>3, <1>4, <1>5
    DEF Dispatch, Answer, Crash, Inadmissible, Replay

-----------------------------------------------------------------------------
(* Conversations.                                                          *)

RowStatuses == {"none", "streaming", "completed", "failed", "cancelled"}
Stages == {"idle", "prepared", "started", "streaming", "sealing", "told", "failed", "cancelled",
           "closing"}

LabRows ==
    /\ consent \in [Sessions -> Classes \union {"none", "deleted"}]
    /\ turn \in [Turns -> RowStatuses] /\ trace \in [Turns -> RowStatuses]
    /\ retention \in [Turns -> Classes \union {NULL}] /\ record \in [Turns -> BOOLEAN]
    /\ feedback \subseteq Turns \X Classes

\* A turn that is prepared is prepared once, and nothing is written for it yet.
Streaming ==
    /\ stage \in [Callers -> Stages]
    /\ task \in [Callers -> Turns \union {NULL}] /\ held \in [Callers -> Classes \union {NULL}]
    /\ \A c \in Callers : stage[c] # "idle" => task[c] # NULL
    /\ \A c \in Callers : stage[c] = "prepared" => held[c] # NULL /\ trace[task[c]] = "none"
    /\ \A c, d \in Callers : c # d /\ task[c] # NULL => task[c] # task[d]

\* A call belongs to a trace, a class to a trace and a turn to a conversation.
Belong ==
    \A q \in Turns :
        /\ trace[q] = "none" => status[q] = "none" /\ retention[q] = NULL
        /\ turn[q] # "none" => Live(SessionOf[q])

Forgotten ==
    \A q \in Turns : consent[SessionOf[q]] = "deleted" =>
        <<q, "personal_deletable">> \notin feedback /\ retention[q] # "personal_deletable"

LabInv == Tables /\ LabRows /\ Streaming /\ Belong /\ Forgotten

\* What a step may not take from the consented evidence.
EvidenceKept ==
    /\ \A q \in Turns : retention[q] = "consented_research_evidence" =>
          /\ retention'[q] = retention[q] /\ trace'[q] # "none"
          /\ status[q] # "none" => status'[q] # "none"
          /\ response[q] # NULL => response'[q] = response[q]
          /\ record[q] => record'[q]
    /\ \A f \in feedback : f[2] = "consented_research_evidence" => f \in feedback'

LEMMA TurnFacts ==
    ASSUME NEW q \in Turns
    PROVE  q \in Requests /\ SessionOf[q] \in Sessions /\ q # NULL
BY CallAssumption, LabAssumption DEF Turns

LEMMA EvidenceHasATrace ==
    ASSUME LabInv, NEW q \in Turns, retention[q] = "consented_research_evidence"
    PROVE  trace[q] # "none"
BY LabAssumption DEF LabInv, Belong, Classes

\* A step that leaves the rows of the Lab alone, and the calls it has none of.
LEMMA RowsStand ==
    ASSUME LabInv, UNCHANGED <<consent, rows, feedback>>, Tables', Kept, Streaming',
           \A q \in Turns : trace[q] = "none" => status'[q] = "none"
    PROVE  LabInv' /\ EvidenceKept
<1>1. UNCHANGED <<turn, trace, retention, record>>
    BY DEF rows
<1>2. LabRows' /\ Belong' /\ Forgotten'
    BY <1>1 DEF LabInv, LabRows, Belong, Forgotten, Live
<1>3. EvidenceKept
    BY <1>1, TurnFacts, EvidenceHasATrace DEF EvidenceKept, Kept
<1> QED BY <1>2, <1>3 DEF LabInv

LEMMA StreamsStand ==
    ASSUME Streaming, UNCHANGED streams,
           \A c \in Callers : stage[c] = "prepared" => trace'[task[c]] = "none"
    PROVE  Streaming'
BY DEF Streaming, streams

LEMMA ReachKeepsStreaming ==
    ASSUME Streaming, NEW c \in Callers, NEW to \in Stages \ {"idle", "prepared"},
           stage[c] # "idle", Reach(c, to),
           \A d \in Callers : d # c /\ stage[d] = "prepared" => trace'[task[d]] = "none"
    PROVE  Streaming'
BY DEF Streaming, Reach

LEMMA ReleaseKeepsStreaming ==
    ASSUME Streaming, NEW c \in Callers, Release(c), trace' = trace
    PROVE  Streaming'
BY DEF Streaming, Release, Stages

LEMMA CloseReachFacts ==
    ASSUME Streaming, NEW c \in Callers, stage[c] # "idle"
    PROVE  task[c] \in Turns
BY DEF Streaming

LEMMA ConsentKeepsLabInv ==
    ASSUME LabInv, NEW s \in Sessions, NEW class \in Classes,
           CreateSession(s, class) \/ AppendConsent(s, class)
    PROVE  LabInv' /\ EvidenceKept
<1>1. /\ consent' = [consent EXCEPT ![s] = class] /\ consent[s] # "deleted"
      /\ UNCHANGED <<vars, rows, feedback, streams>>
    BY DEF CreateSession, AppendConsent, Live, Classes
<1>2. /\ UNCHANGED <<status, span, response>> /\ UNCHANGED <<turn, trace, retention, record>>
      /\ feedback' = feedback
    BY <1>1 DEF vars, rows
<1>3. Streaming'
    BY <1>1, <1>2, StreamsStand DEF LabInv, Streaming
<1>4. consent' \in [Sessions -> Classes \union {"none", "deleted"}]
    BY <1>1 DEF LabInv, LabRows
<1>5. \A t \in Sessions : /\ consent'[t] = "deleted" => consent[t] = "deleted"
                          /\ Live(t) => Live(t)'
    BY <1>1 DEF LabInv, LabRows, Live, Classes
<1>6. Belong' /\ Forgotten'
    BY <1>2, <1>5, TurnFacts DEF LabInv, Belong, Forgotten
<1>7. Tables' /\ LabRows'
    BY <1>2, <1>4 DEF LabInv, LabRows, Tables, Over
<1>8. EvidenceKept
    BY <1>2, EvidenceHasATrace DEF EvidenceKept
<1> QED BY <1>3, <1>6, <1>7, <1>8 DEF LabInv

LEMMA FeedbackKeepsLabInv ==
    ASSUME LabInv, NEW q \in Turns, AppendFeedback(q)
    PROVE  LabInv' /\ EvidenceKept
<1>1. /\ UNCHANGED <<status, span, response>> /\ UNCHANGED <<turn, trace, retention, record>>
      /\ consent' = consent /\ UNCHANGED streams
    BY DEF AppendFeedback, vars, rows
<1>2. /\ consent[SessionOf[q]] \in Classes /\ consent[SessionOf[q]] # "deleted"
      /\ feedback' = feedback \union {<<q, consent[SessionOf[q]]>>}
    BY DEF AppendFeedback, LabInv, Belong, Live, Classes
<1>3. LabRows' /\ Forgotten'
    BY <1>1, <1>2 DEF LabInv, LabRows, Forgotten
<1>4. Tables' /\ Belong' /\ Streaming'
    BY <1>1, StreamsStand DEF LabInv, Tables, Over, Belong, Live, Streaming
<1>5. EvidenceKept
    BY <1>1, <1>2, EvidenceHasATrace DEF EvidenceKept
<1> QED BY <1>3, <1>4, <1>5 DEF LabInv

LEMMA DeletionKeepsLabInv ==
    ASSUME LabInv, NEW s \in Sessions, DeleteSession(s)
    PROVE  LabInv' /\ EvidenceKept
<1> DEFINE mine == {q \in Turns : SessionOf[q] = s}
           gone == {q \in mine : Deletable(q)}
<1>1. /\ consent[s] \in Classes /\ consent' = [consent EXCEPT ![s] = "deleted"]
      /\ turn' = [q \in DOMAIN turn |-> IF q \in mine THEN "none" ELSE turn[q]]
      /\ trace' = [q \in DOMAIN trace |-> IF q \in gone THEN "none" ELSE trace[q]]
      /\ retention' = [q \in DOMAIN retention |-> IF q \in gone THEN NULL ELSE retention[q]]
      /\ record' = [q \in DOMAIN record |-> IF q \in gone THEN FALSE ELSE record[q]]
    BY Zenon DEF DeleteSession, Live
<1>2. /\ status' = [q \in DOMAIN status |-> IF q \in gone THEN "none" ELSE status[q]]
      /\ response' = [q \in DOMAIN response |-> IF q \in gone THEN NULL ELSE response[q]]
      /\ span' = [q \in DOMAIN span |-> IF q \in gone THEN "none" ELSE span[q]]
    BY Zenon DEF DeleteSession
<1>3. /\ feedback' = {f \in feedback : f[1] \in mine => f[2] # "personal_deletable"}
      /\ UNCHANGED streams
    BY Zenon DEF DeleteSession
<1>4. \A q \in gone : q \in mine /\ trace[q] # "none" /\ retention[q] = "personal_deletable"
    BY DEF Deletable
<1>5. \A q \in mine : q \in Turns /\ (q \notin gone => trace[q] = "none"
                                             \/ retention[q] # "personal_deletable")
    BY DEF Deletable
<1>6. \A q \in Turns : q \in mine <=> SessionOf[q] = s
    OBVIOUS
<1>7. gone \subseteq Turns
    OBVIOUS
<1> HIDE DEF mine, gone
<1>8. \A q \in Requests :
          /\ status'[q] = IF q \in gone THEN "none" ELSE status[q]
          /\ response'[q] = IF q \in gone THEN NULL ELSE response[q]
          /\ span'[q] = IF q \in gone THEN "none" ELSE span[q]
    BY <1>2 DEF LabInv, Tables, Over
<1>9. Tables'
  <2>1. Over(status)' /\ Over(span)' /\ Over(response)'
      BY <1>2 DEF LabInv, Tables, Over
  <2> QED BY <1>8, <2>1 DEF LabInv, Tables
<1>10. \A q \in Turns :
          /\ turn'[q] = IF q \in mine THEN "none" ELSE turn[q]
          /\ trace'[q] = IF q \in gone THEN "none" ELSE trace[q]
          /\ retention'[q] = IF q \in gone THEN NULL ELSE retention[q]
          /\ q \notin gone => record'[q] = record[q]
    BY <1>1 DEF LabInv, LabRows
<1>11. LabRows'
  <2>1. /\ turn' \in [Turns -> RowStatuses] /\ trace' \in [Turns -> RowStatuses]
        /\ retention' \in [Turns -> Classes \union {NULL}]
      BY <1>1 DEF LabInv, LabRows, RowStatuses
  <2>2. record' \in [Turns -> BOOLEAN]
      BY <1>1 DEF LabInv, LabRows
  <2>3. consent' \in [Sessions -> Classes \union {"none", "deleted"}]
      BY <1>1 DEF LabInv, LabRows
  <2>4. feedback' \subseteq Turns \X Classes
      BY <1>3 DEF LabInv, LabRows
  <2> QED BY <2>1, <2>2, <2>3, <2>4 DEF LabRows
<1>12. \A t \in Sessions : consent'[t] = IF t = s THEN "deleted" ELSE consent[t]
    BY <1>1 DEF LabInv, LabRows
<1>13. Streaming'
    BY <1>3, <1>10, StreamsStand DEF LabInv, Streaming
<1>14. Belong'
  <2> SUFFICES ASSUME NEW q \in Turns
               PROVE  /\ trace'[q] = "none" => status'[q] = "none" /\ retention'[q] = NULL
                      /\ turn'[q] # "none" => Live(SessionOf[q])'
      BY DEF Belong
  <2>1. q \in Requests /\ SessionOf[q] \in Sessions
      BY TurnFacts
  <2>2. trace'[q] = "none" => status'[q] = "none" /\ retention'[q] = NULL
      BY <1>8, <1>10, <2>1 DEF LabInv, Belong
  <2>3. turn'[q] # "none" => Live(SessionOf[q])'
      BY <1>6, <1>10, <1>12, <2>1 DEF LabInv, Belong, Live
  <2> QED BY <2>2, <2>3
<1>15. Forgotten'
  <2> SUFFICES ASSUME NEW q \in Turns, consent'[SessionOf[q]] = "deleted"
               PROVE  /\ <<q, "personal_deletable">> \notin feedback'
                      /\ retention'[q] # "personal_deletable"
      BY DEF Forgotten
  <2>1. CASE q \in mine
    <3>1. retention'[q] # "personal_deletable"
        BY <1>5, <1>10, <2>1, LabAssumption DEF LabInv, Belong, Classes
    <3> QED BY <1>3, <2>1, <3>1
  <2>2. CASE q \notin mine
    <3>1. consent[SessionOf[q]] = "deleted"
        BY <1>6, <1>12, <2>2, TurnFacts
    <3>2. retention'[q] = retention[q]
        BY <1>4, <1>10, <2>2
    <3> QED BY <1>3, <3>1, <3>2 DEF LabInv, Forgotten
  <2> QED BY <2>1, <2>2
<1>16. EvidenceKept
  <2>1. ASSUME NEW q \in Turns, retention[q] = "consented_research_evidence"
        PROVE  /\ retention'[q] = retention[q] /\ trace'[q] # "none"
               /\ status[q] # "none" => status'[q] # "none"
               /\ response[q] # NULL => response'[q] = response[q]
               /\ record[q] => record'[q]
    <3>1. q \notin gone
        BY <1>4, <2>1
    <3>2. trace[q] # "none" /\ q \in Requests
        BY <2>1, EvidenceHasATrace, TurnFacts
    <3> QED BY <1>8, <1>10, <3>1, <3>2
  <2> QED BY <1>3, <2>1 DEF EvidenceKept
<1> QED BY <1>9, <1>11, <1>13, <1>14, <1>15, <1>16 DEF LabInv

LEMMA TablesStand ==
    ASSUME LabInv, UNCHANGED vars
    PROVE  Tables' /\ Kept /\ NothingNew
BY DEF LabInv, Tables, Over, Kept, NothingNew, vars

\* The steps that write no row of the Lab.
LEMMA WaitingKeepsLabInv ==
    ASSUME LabInv, NEW c \in Callers,
           \/ \E q \in Turns : Prepare(c, q)
           \/ Abandon(c) \/ Disconnect(c) \/ SealRaises(c) \/ Finish(c)
    PROVE  LabInv' /\ EvidenceKept
<1>1. /\ UNCHANGED <<vars, consent, rows, feedback>> /\ trace' = trace
      /\ \A q \in Turns : trace[q] = "none" => status'[q] = "none"
    BY DEF Prepare, Abandon, Disconnect, SealRaises, Finish, rows, vars, LabInv, Belong
<1>2. ASSUME NEW q \in Turns, Prepare(c, q)
      PROVE  Streaming'
    BY <1>1, <1>2, TurnFacts, LabAssumption
    DEF Prepare, LabInv, Streaming, LabRows, Live, Stages
<1>3. ASSUME Abandon(c)
      PROVE  Streaming'
    BY <1>1, <1>3, ReleaseKeepsStreaming DEF Abandon, LabInv
<1>4. ASSUME Disconnect(c) \/ SealRaises(c) \/ Finish(c)
      PROVE  Streaming'
  <2>1. stage[c] # "idle" /\ \E to \in Stages \ {"idle", "prepared"} : Reach(c, to)
      BY <1>4 DEF Disconnect, SealRaises, Finish, Stages
  <2> QED BY <1>1, <2>1, ReachKeepsStreaming DEF LabInv, Streaming
<1>5. Streaming'
    BY <1>2, <1>3, <1>4
<1> QED BY <1>1, <1>5, TablesStand, RowsStand

LEMMA BeginKeepsLabInv ==
    ASSUME LabInv, NEW c \in Callers, Begin(c)
    PROVE  LabInv' /\ EvidenceKept
<1> DEFINE q == task[c]
<1>1. /\ turn' = [turn EXCEPT ![q] = "streaming"] /\ trace' = [trace EXCEPT ![q] = "streaming"]
      /\ retention' = [retention EXCEPT ![q] = held[c]]
      /\ UNCHANGED <<vars, consent, record, feedback>> /\ Reach(c, "started")
    BY DEF Begin
<1>2. /\ q \in Turns /\ stage[c] = "prepared" /\ Live(SessionOf[q]) /\ trace[q] = "none"
      /\ held[c] \in Classes
    BY DEF Begin, LabInv, Streaming
<1>3. ASSUME NEW d \in Callers, d # c, stage[d] = "prepared"
      PROVE  trace'[task[d]] = "none"
    BY <1>1, <1>2, <1>3 DEF LabInv, Streaming, LabRows
<1>4. Streaming'
    BY <1>1, <1>2, <1>3, ReachKeepsStreaming DEF LabInv, Stages
<1>5. \A x \in Turns : x # q =>
          turn'[x] = turn[x] /\ trace'[x] = trace[x] /\ retention'[x] = retention[x]
    BY <1>1, <1>2 DEF LabInv, LabRows
<1>6. trace'[q] = "streaming" /\ turn'[q] = "streaming" /\ retention'[q] = held[c]
    BY <1>1, <1>2 DEF LabInv, LabRows
<1> HIDE DEF q
<1>7. LabRows'
    BY <1>1, <1>2 DEF LabInv, LabRows, RowStatuses
<1>8. UNCHANGED <<status, span, response>>
    BY <1>1 DEF vars
<1>9. Belong'
    BY <1>1, <1>2, <1>5, <1>6, <1>8 DEF LabInv, Belong, Live
<1>10. Forgotten'
    BY <1>1, <1>2, <1>5 DEF LabInv, Forgotten, Live, Classes
<1>11. EvidenceKept
    BY <1>1, <1>2, <1>5, <1>8, EvidenceHasATrace DEF EvidenceKept
<1> QED BY <1>1, <1>4, <1>7, <1>9, <1>10, <1>11, TablesStand DEF LabInv

\* A turn ends: its trace is sealed, or marked as failed.
LEMMA EndingKeepsLabInv ==
    ASSUME LabInv, NEW c \in Callers, stage[c] \in Stages \ {"idle", "prepared"},
           UNCHANGED <<vars, consent, feedback, retention>>,
           NEW to \in Stages \ {"idle", "prepared"}, Reach(c, to),
           turn[task[c]] # "none", trace[task[c]] # "none",
           NEW end \in RowStatuses \ {"none"},
           turn' = [turn EXCEPT ![task[c]] = end], trace' = [trace EXCEPT ![task[c]] = end],
           record' = record \/ record' = [record EXCEPT ![task[c]] = TRUE]
    PROVE  LabInv' /\ EvidenceKept
<1> DEFINE q == task[c]
<1>1. q \in Turns
    BY DEF LabInv, Streaming
<1>2. \A x \in Turns : /\ turn'[x] = "none" <=> turn[x] = "none"
                       /\ trace'[x] = "none" <=> trace[x] = "none"
    BY <1>1 DEF LabInv, LabRows
<1>3. \A x \in Turns : record[x] => record'[x]
  <2>1. CASE record' = record
      BY <2>1
  <2>2. CASE record' = [record EXCEPT ![q] = TRUE]
      BY <1>1, <2>2 DEF LabInv, LabRows
  <2> QED BY <2>1, <2>2
<1>4. record' \in [Turns -> BOOLEAN]
    BY <1>1 DEF LabInv, LabRows
<1>5. turn' \in [Turns -> RowStatuses] /\ trace' \in [Turns -> RowStatuses]
    BY <1>1 DEF LabInv, LabRows
<1> HIDE DEF q
<1>6. LabRows'
    BY <1>4, <1>5 DEF LabInv, LabRows
<1>7. Streaming'
    BY <1>2, ReachKeepsStreaming DEF LabInv, Streaming
<1>8. UNCHANGED <<status, span, response>>
    BY DEF vars
<1>9. Belong' /\ Forgotten'
    BY <1>2, <1>8 DEF LabInv, Belong, Forgotten, Live
<1>10. EvidenceKept
    BY <1>2, <1>3, <1>8, EvidenceHasATrace DEF EvidenceKept
<1> QED BY <1>6, <1>7, <1>9, <1>10, TablesStand DEF LabInv

LEMMA SealKeepsLabInv ==
    ASSUME LabInv, NEW c \in Callers, Seal(c) \/ SealFailure(c)
    PROVE  LabInv' /\ EvidenceKept
<1>1. stage[c] \in Stages \ {"idle", "prepared"} /\ UNCHANGED <<vars, consent, feedback>>
      /\ retention' = retention
    BY DEF Seal, SealFailure, Stages, rows
<1>2. CASE /\ UNCHANGED <<turn, trace, record>>
           /\ \E to \in Stages \ {"idle", "prepared"} : Reach(c, to)
  <2>1. Streaming'
      BY <1>1, <1>2, ReachKeepsStreaming DEF LabInv, Streaming
  <2>2. \A q \in Turns : trace[q] = "none" => status'[q] = "none"
      BY <1>1 DEF LabInv, Belong, vars
  <2> QED BY <1>1, <1>2, <2>1, <2>2, TablesStand, RowsStand DEF rows
<1>3. CASE /\ turn[task[c]] # "none" /\ trace[task[c]] # "none"
           /\ \E to \in Stages \ {"idle", "prepared"} : Reach(c, to)
           /\ \E end \in RowStatuses \ {"none"} :
                 /\ turn' = [turn EXCEPT ![task[c]] = end]
                 /\ trace' = [trace EXCEPT ![task[c]] = end]
           /\ record' = record \/ record' = [record EXCEPT ![task[c]] = TRUE]
    BY <1>1, <1>3, EndingKeepsLabInv
<1> QED BY <1>2, <1>3 DEF Seal, SealFailure, Stages, RowStatuses, rows

\* The steps of an invocation.
LEMMA InvocationKeepsLabInv ==
    ASSUME LabInv, NEW c \in Callers,
           Call(c) \/ Stream(c) \/ CloseInvocation(c) \/ Lose(c)
    PROVE  LabInv' /\ EvidenceKept
<1>1. UNCHANGED <<consent, rows, feedback>> /\ trace' = trace
    BY DEF Call, Stream, CloseInvocation, Lose, rows
<1>2. Streaming'
  <2>1. \/ Release(c)
        \/ stage[c] # "idle" /\ \E to \in Stages \ {"idle", "prepared"} : Reach(c, to)
      BY Zenon DEF Call, Stream, CloseInvocation, Lose, Stages
  <2> QED BY <1>1, <2>1, ReleaseKeepsStreaming, ReachKeepsStreaming DEF LabInv, Streaming
<1>3. Tables' /\ Kept /\ \A q \in Turns : trace[q] = "none" => status'[q] = "none"
  <2>1. CASE UNCHANGED vars
      BY <2>1, TablesStand, TurnFacts DEF NothingNew, LabInv, Belong
  <2>2. CASE \/ Dispatch(c) \/ Answer(c) \/ Store(c) \/ ProviderError(c) \/ Cancel(c)
             \/ OtherError(c) \/ Crash(c)
      BY <2>2, CallKeepsTables, TurnFacts DEF NothingNew, LabInv, Belong
  <2>3. CASE trace[task[c]] # "none" /\ Intend(c, task[c]) /\ stage[c] = "started"
    <3>1. task[c] \in Turns
        BY <2>3 DEF LabInv, Streaming
    <3> QED BY <2>3, <3>1, IntendKeepsTables, TurnFacts DEF LabInv, Belong
  <2> QED BY <2>1, <2>2, <2>3, Zenon DEF Call, Stream, CloseInvocation, Lose
<1> QED BY <1>1, <1>2, <1>3, RowsStand

LEMMA OthersKeepLabInv ==
    ASSUME LabInv, OtherCalls
    PROVE  LabInv' /\ EvidenceKept
<1>1. UNCHANGED <<consent, rows, feedback, streams>> /\ trace' = trace
    BY DEF OtherCalls, rows
<1>2. Streaming'
    BY <1>1, StreamsStand DEF LabInv, Streaming
<1>3. PICK c \in Callers :
          \/ \E q \in Others : Execute(c, q)
          \/ Inadmissible(c) \/ Dispatch(c) \/ Answer(c) \/ Store(c)
          \/ ProviderError(c) \/ Cancel(c) \/ OtherError(c) \/ Crash(c)
    BY DEF OtherCalls
<1>4. Tables' /\ Kept /\ \A q \in Turns : trace[q] = "none" => status'[q] = "none"
  <2>1. ASSUME NEW q \in Others, Intend(c, q)
        PROVE  Tables' /\ Kept /\ \A x \in Turns : trace[x] = "none" => status'[x] = "none"
    <3>1. q \in Requests /\ q \notin Turns
        BY DEF Others, Turns
    <3> QED BY <2>1, <3>1, IntendKeepsTables, TurnFacts DEF LabInv, Belong
  <2>2. ASSUME \/ \E q \in Requests : Replay(c, q) \/ Redo(c, q)
               \/ Inadmissible(c) \/ Dispatch(c) \/ Answer(c) \/ Store(c)
               \/ ProviderError(c) \/ Cancel(c) \/ OtherError(c) \/ Crash(c)
        PROVE  Tables' /\ Kept /\ \A x \in Turns : trace[x] = "none" => status'[x] = "none"
    <3>1. Tables' /\ Kept /\ NothingNew
        BY <2>2, CallKeepsTables DEF LabInv
    <3> QED BY <3>1, TurnFacts DEF NothingNew, LabInv, Belong
  <2> QED BY <1>3, <2>1, <2>2 DEF Execute, Others
<1> QED BY <1>1, <1>2, <1>4, RowsStand

LEMMA LabNextKeepsLabInv ==
    ASSUME LabInv, [LabNext]_labVars
    PROVE  LabInv' /\ EvidenceKept
<1>1. CASE UNCHANGED labVars
  <2>1. /\ UNCHANGED <<vars, consent, rows, feedback, streams>> /\ trace' = trace
        /\ UNCHANGED status
      BY <1>1 DEF labVars, rows, vars
  <2>2. Streaming'
      BY <2>1, StreamsStand DEF LabInv, Streaming
  <2> QED BY <2>1, <2>2, TablesStand, RowsStand DEF LabInv, Belong
<1>2. CASE LabNext
    BY <1>2, ConsentKeepsLabInv, DeletionKeepsLabInv, FeedbackKeepsLabInv, WaitingKeepsLabInv,
       BeginKeepsLabInv, SealKeepsLabInv, InvocationKeepsLabInv, OthersKeepLabInv
    DEF LabNext
<1> QED BY <1>1, <1>2

LEMMA LabInitInv == LabInit => LabInv
<1> SUFFICES ASSUME LabInit
             PROVE  LabInv
    OBVIOUS
<1>1. Tables
    BY DEF LabInit, Init, Tables, Over
<1>2. LabRows
    BY DEF LabInit, LabRows, RowStatuses
<1>3. Streaming /\ Belong /\ Forgotten
    BY TurnFacts, LabAssumption DEF LabInit, Init, Streaming, Belong, Forgotten, Stages
<1> QED BY <1>1, <1>2, <1>3 DEF LabInv

\* The inductive invariant of the Lab: a call belongs to a trace that is there.
THEOREM LabInvariance == LabSpec => []LabInv
BY LabInitInv, LabNextKeepsLabInv, PTL DEF LabSpec

\* Nothing personal of a deleted conversation is left, and the turn that was
\* streaming writes nothing of it back (delete_session, stream_generation).
THEOREM DeletionComplete == LabSpec => []DeletionIsComplete
<1>1. LabInv => DeletionIsComplete
  <2> SUFFICES ASSUME LabInv, NEW q \in Turns, consent[SessionOf[q]] = "deleted"
               PROVE  /\ turn[q] = "none" /\ <<q, "personal_deletable">> \notin feedback
                      /\ retention[q] # "personal_deletable"
                      /\ trace[q] = "none" =>
                            status[q] = "none" /\ span[q] = "none" /\ response[q] = NULL
      BY DEF DeletionIsComplete
  <2>1. turn[q] = "none"
      BY DEF LabInv, Belong, Live, Classes
  <2>2. trace[q] = "none" => status[q] = "none" /\ span[q] = "none" /\ response[q] = NULL
      BY TurnFacts DEF LabInv, Belong, Tables
  <2> QED BY <2>1, <2>2 DEF LabInv, Forgotten
<1> QED BY <1>1, LabInvariance, PTL

\* What was consented to as research evidence stays, with its call and its
\* answer, whatever becomes of the consent and of the conversation.
THEOREM EvidenceStays == LabSpec => ConsentedEvidenceStays
<1>1. LabInv /\ [LabNext]_labVars => [EvidenceKept]_labVars
    BY LabNextKeepsLabInv
<1> QED BY <1>1, LabInvariance, PTL DEF LabSpec, ConsentedEvidenceStays, EvidenceKept

-----------------------------------------------------------------------------
(* Atlas trials: the controllers and the ledger.                           *)

InFlight == {q \in requests : status[q] = "pending"}

\* A worker executes the request it took under a call that is pending, and
\* judges it once the call is completed.
Working ==
    /\ \A c \in Callers : pc[c] # "idle" => job[c] # NULL /\ req[c] = job[c]
    /\ \A c \in Callers : job[c] # NULL =>
          /\ job[c] \in requests /\ bound # NULL /\ picked[c] = NULL
          /\ status[job[c]] = IF pc[c] = "idle" THEN "completed" ELSE "pending"
    /\ \A c \in Callers : picked[c] # NULL => picked[c] \in requests
    /\ \A q \in TrialRequests : status[q] # "none" => q \in requests /\ bound # NULL

Reserved ==
    /\ IsFiniteSet(requests)
    /\ bound # NULL => Cardinality(InFlight) <= MaxInFlight[bound]

ControlTyped ==
    /\ requests \subseteq TrialRequests
    /\ bound \in Activations \union {NULL} /\ admission \in {"open", "paused", "over"}
    /\ picked \in [Callers -> TrialRequests \union {NULL}]
    /\ job \in [Callers -> TrialRequests \union {NULL}] /\ stopping \subseteq Controllers

ControlInv == Inv /\ ControlTyped /\ Working /\ Reserved

\* A call that is over stays as it ended.
Lasting ==
    \A q \in TrialRequests : status[q] \in {"completed", "failed_retryable", "failed_terminal"}
        => status'[q] = status[q]

LEMMA TrialFacts ==
    ASSUME NEW q \in TrialRequests
    PROVE  /\ q \in Requests /\ q # NULL /\ OwnerOf[q] = "atlas" /\ Guarded(q)
           /\ q[1] \in Trials /\ q[2] \in Nat /\ q = <<q[1], q[2]>>
<1>1. q \in Trials \X Nat
    BY TrialAssumption
<1> QED BY <1>1, CallAssumption DEF TrialRequests, Guarded

LEMMA RestartInv ==
    ASSUME Inv, NEW k \in Controllers, Restart(k)
    PROVE  Inv'
<1> DEFINE lost == {c \in Callers : ControllerOf[c] = k}
<1>1. /\ pc' = [c \in Callers |-> IF c \in lost THEN "idle" ELSE pc[c]]
      /\ req' = [c \in Callers |-> IF c \in lost THEN NULL ELSE req[c]]
      /\ reply' = [c \in Callers |-> IF c \in lost THEN NULL ELSE reply[c]]
      /\ UNCHANGED <<status, response, span, sent, answered, got>>
    BY Zenon DEF Restart
<1> HIDE DEF lost
<1>2. TypeOK'
    BY <1>1 DEF Inv, TypeOK
<1>3. LedgerMatchesSpan' /\ (Unanswered /\ OneAnswerPerRequest)'
    BY <1>1 DEF Inv, LedgerMatchesSpan, Unanswered, OneAnswerPerRequest
<1>4. OneSender'
    BY <1>1, CallAssumption DEF Inv, OneSender, Guarded
<1>5. ReplyHeld'
    BY <1>1 DEF Inv, ReplyHeld
<1> QED BY <1>2, <1>3, <1>4, <1>5 DEF Inv

LEMMA BusyWork ==
    ASSUME ControlInv, NEW c \in Callers, pc[c] # "idle"
    PROVE  /\ job[c] = req[c] /\ job[c] \in requests /\ job[c] \in TrialRequests
           /\ status[job[c]] = "pending" /\ span[job[c]] = "RUNNING"
           /\ \A d \in Callers : d # c => job[d] # job[c]
<1>1. /\ job[c] = req[c] /\ job[c] \in requests /\ job[c] \in TrialRequests
      /\ status[job[c]] = "pending"
    BY DEF ControlInv, Working, ControlTyped
<1>2. span[job[c]] = "RUNNING"
    BY <1>1, TrialFacts DEF ControlInv, Inv, LedgerMatchesSpan
<1>3. ASSUME NEW d \in Callers, d # c, job[d] = job[c]
      PROVE  FALSE
  <2>1. job[d] # NULL /\ Guarded(job[c]) /\ job[c] \in Requests
      BY <1>1, <1>3, TrialFacts
  <2>2. pc[d] # "idle"
      BY <1>1, <1>3, <2>1 DEF ControlInv, Working
  <2>3. req[d] = req[c]
      BY <1>1, <1>3, <2>2 DEF ControlInv, Working
  <2> QED BY <1>1, <1>3, <2>1, <2>3 DEF ControlInv, Inv, OneSender
<1> QED BY <1>1, <1>2, <1>3

LEMMA FlightsShrink ==
    ASSUME Reserved, requests' = requests, bound' = bound,
           \A q \in requests : status'[q] = "pending" => status[q] = "pending",
           bound # NULL => MaxInFlight[bound] \in Nat
    PROVE  Reserved'
<1>1. InFlight' \subseteq InFlight /\ IsFiniteSet(InFlight)
    BY FS_Subset DEF InFlight, Reserved
<1>2. Cardinality(InFlight') <= Cardinality(InFlight) /\ Cardinality(InFlight') \in Nat
      /\ Cardinality(InFlight) \in Nat
    BY <1>1, FS_Subset, FS_CardinalityType
<1> QED BY <1>2 DEF Reserved

LEMMA BoundFacts ==
    ASSUME ControlInv, bound # NULL
    PROVE  bound \in Activations /\ MaxInFlight[bound] \in Nat
BY TrialAssumption DEF ControlInv, ControlTyped

LEMMA PutDownFacts ==
    ASSUME ControlInv, NEW c \in Callers, NEW failed, PutDown(c, failed)
    PROVE  /\ job' \in [Callers -> TrialRequests \union {NULL}]
           /\ picked' \in [Callers -> TrialRequests \union {NULL}]
           /\ stopping' \subseteq Controllers
           /\ job'[c] = NULL /\ picked'[c] = NULL
           /\ \A d \in Callers : d # c => job'[d] = job[d] /\ picked'[d] = picked[d]
<1>1. ControllerOf[c] \in Controllers
    BY TrialAssumption
<1>2. stopping' \subseteq Controllers
    BY <1>1 DEF PutDown, ControlInv, ControlTyped
<1> QED BY <1>2 DEF PutDown, ControlInv, ControlTyped

\* The call of c ends: it is judged next, or nobody's any more.
LEMMA CallOver ==
    ASSUME ControlInv, Inv', NEW c \in Callers, pc[c] # "idle", Leave(c),
           UNCHANGED <<requests, bound, admission>>,
           \A x \in Requests : x # job[c] => status'[x] = status[x],
           status'[job[c]] # "none",
           \/ PutDown(c, TRUE)
           \/ UNCHANGED <<picked, job, stopping>> /\ status'[job[c]] = "completed"
    PROVE  ControlInv' /\ Lasting
<1>1. /\ \A d \in Callers : pc'[d] = IF d = c THEN "idle" ELSE pc[d]
      /\ \A d \in Callers : req'[d] = IF d = c THEN NULL ELSE req[d]
    BY LeaveFacts DEF ControlInv
<1>2. /\ job[c] \in TrialRequests /\ job[c] \in requests /\ status[job[c]] = "pending"
      /\ \A d \in Callers : d # c => job[d] # job[c]
    BY BusyWork
<1>3. ControlTyped'
    BY PutDownFacts DEF ControlInv, ControlTyped
<1>4. \A d \in Callers : d # c => job'[d] = job[d] /\ picked'[d] = picked[d]
    BY PutDownFacts
<1>5. /\ job'[c] = NULL \/ (job'[c] = job[c] /\ status'[job[c]] = "completed")
      /\ picked'[c] = NULL
  <2>1. job[c] # NULL
      BY <1>2, TrialFacts
  <2> QED BY <2>1, PutDownFacts DEF ControlInv, Working
<1>6. ASSUME NEW d \in Callers, job'[d] # NULL
      PROVE  /\ job'[d] \in requests /\ bound # NULL /\ picked'[d] = NULL
             /\ status'[job'[d]] = IF pc'[d] = "idle" THEN "completed" ELSE "pending"
  <2>1. CASE d = c
      BY <1>1, <1>2, <1>5, <1>6, <2>1 DEF ControlInv, Working
  <2>2. CASE d # c
    <3>1. /\ job[d] # NULL /\ job[d] \in requests /\ bound # NULL /\ picked[d] = NULL
          /\ status[job[d]] = IF pc[d] = "idle" THEN "completed" ELSE "pending"
        BY <1>4, <1>6, <2>2 DEF ControlInv, Working
    <3>2. status'[job[d]] = status[job[d]]
      <4>1. job[d] \in Requests
          BY <3>1, TrialFacts DEF ControlInv, ControlTyped
      <4> QED BY <1>2, <2>2, <4>1
    <3> QED BY <1>1, <1>4, <2>2, <3>1, <3>2
  <2> QED BY <2>1, <2>2
<1>7. ASSUME NEW d \in Callers, pc'[d] # "idle"
      PROVE  job'[d] # NULL /\ req'[d] = job'[d]
    BY <1>1, <1>4, <1>7 DEF ControlInv, Working
<1>8. ASSUME NEW q \in TrialRequests, status'[q] # "none"
      PROVE  q \in requests /\ bound # NULL
    BY <1>2, <1>8, TrialFacts DEF ControlInv, Working
<1>9. \A d \in Callers : picked'[d] # NULL => picked'[d] \in requests
    BY <1>4, <1>5 DEF ControlInv, Working
<1>10. Working'
    BY <1>6, <1>7, <1>8, <1>9 DEF Working
<1>11. Reserved'
  <2>1. \A q \in requests : status'[q] = "pending" => status[q] = "pending"
      BY <1>2, TrialFacts DEF ControlInv, ControlTyped
  <2> QED BY <2>1, FlightsShrink, BoundFacts DEF ControlInv
<1>12. Lasting
    BY <1>2, TrialFacts DEF Lasting
<1> QED BY <1>3, <1>10, <1>11, <1>12 DEF ControlInv

\* Nothing happens to the ledger, and c is not within a call.
LEMMA LedgerStands ==
    ASSUME ControlInv, UNCHANGED vars
    PROVE  Inv' /\ Lasting /\ UNCHANGED <<status, pc, req>>
BY NextInv DEF ControlInv, Lasting, vars

LEMMA JobLeft ==
    ASSUME ControlInv, NEW c \in Callers, pc[c] = "idle", PutDown(c, TRUE) \/ PutDown(c, FALSE),
           UNCHANGED <<vars, requests, bound, admission>>
    PROVE  ControlInv' /\ Lasting
<1>1. Inv' /\ Lasting /\ UNCHANGED <<status, pc, req>>
    BY LedgerStands
<1>2. ControlTyped'
    BY PutDownFacts DEF ControlInv, ControlTyped
<1>3. /\ \A d \in Callers : d # c => job'[d] = job[d] /\ picked'[d] = picked[d]
      /\ job'[c] = NULL /\ picked'[c] = NULL
    BY PutDownFacts
<1>4. Working'
    BY <1>1, <1>3 DEF ControlInv, Working
<1>5. Reserved'
    BY <1>1, FlightsShrink, BoundFacts DEF ControlInv
<1> QED BY <1>1, <1>2, <1>4, <1>5 DEF ControlInv

\* A step of the registry that adds no request, or of the operator.
LEMMA ControlStands ==
    ASSUME ControlInv, UNCHANGED <<vars, requests, bound, picked, job>>,
           admission' \in {"open", "paused", "over"}, stopping' \subseteq Controllers
    PROVE  ControlInv' /\ Lasting
<1>1. Inv' /\ Lasting /\ UNCHANGED <<status, pc, req>>
    BY LedgerStands
<1>2. ControlTyped' /\ Working'
    BY <1>1 DEF ControlInv, ControlTyped, Working
<1>3. Reserved'
    BY <1>1, FlightsShrink, BoundFacts DEF ControlInv
<1> QED BY <1>1, <1>2, <1>3 DEF ControlInv

LEMMA RequestKeepsControl ==
    ASSUME ControlInv, NEW q \in TrialRequests, RecordRequest(q)
    PROVE  ControlInv' /\ Lasting
<1>1. /\ requests' = requests \union {q} /\ q \notin requests
      /\ UNCHANGED <<vars, bound, admission, picked, job, stopping>>
    BY DEF RecordRequest, controlVars
<1>2. Inv' /\ Lasting /\ UNCHANGED <<status, pc, req>>
    BY <1>1, LedgerStands
<1>3. ControlTyped' /\ Working'
    BY <1>1, <1>2 DEF ControlInv, ControlTyped, Working
<1>4. Reserved'
  <2>1. IsFiniteSet(requests')
      BY <1>1, FS_AddElement DEF ControlInv, Reserved
  <2>2. InFlight' = InFlight
      BY <1>1, <1>2 DEF ControlInv, Working, InFlight
  <2> QED BY <1>1, <2>1, <2>2 DEF ControlInv, Reserved
<1> QED BY <1>2, <1>3, <1>4 DEF ControlInv

LEMMA PickKeepsControl ==
    ASSUME ControlInv, NEW c \in Callers, NEW q \in TrialRequests, Pick(c, q)
    PROVE  ControlInv' /\ Lasting
<1>1. /\ q \in requests /\ job[c] = NULL /\ UNCHANGED <<vars, requests, bound, admission>>
    BY DEF Pick, Free, registryVars
<1>2. pc[c] = "idle"
    BY <1>1 DEF ControlInv, Working
<1>3. CASE PutDown(c, TRUE)
    BY <1>1, <1>2, <1>3, JobLeft
<1>4. CASE picked' = [picked EXCEPT ![c] = q] /\ UNCHANGED <<job, stopping>>
  <2>1. Inv' /\ Lasting /\ UNCHANGED <<status, pc, req>>
      BY <1>1, LedgerStands
  <2>2. ControlTyped'
      BY <1>1, <1>4 DEF ControlInv, ControlTyped
  <2>3. \A d \in Callers : picked'[d] = IF d = c THEN q ELSE picked[d]
      BY <1>4 DEF ControlInv, ControlTyped
  <2>4. Working'
      BY <1>1, <1>4, <2>1, <2>3 DEF ControlInv, Working
  <2>5. Reserved'
      BY <1>1, <2>1, FlightsShrink, BoundFacts DEF ControlInv
  <2> QED BY <2>1, <2>2, <2>4, <2>5 DEF ControlInv
<1> QED BY <1>3, <1>4 DEF Pick

\* The intent is written under the reservation, or a completed call replayed.
LEMMA StartKeepsControl ==
    ASSUME ControlInv, NEW c \in Callers, NEW a \in Activations, Start(c, a)
    PROVE  ControlInv' /\ Lasting
<1> DEFINE q == picked[c]
<1>1. /\ q \in requests /\ q \in TrialRequests /\ q # NULL
      /\ UNCHANGED <<requests, admission>>
    BY DEF Start, registryVars, ControlInv, Working, ControlTyped
<1>2. job[c] = NULL /\ pc[c] = "idle"
    BY <1>1 DEF ControlInv, Working
<1>3. CASE UNCHANGED <<vars, bound>> /\ PutDown(c, TRUE)
    BY <1>1, <1>2, <1>3, JobLeft
<1>4. CASE /\ Admitted(q, a, FALSE) /\ status[q] \in {"none", "completed"} /\ Execute(c, q)
           /\ job' = [job EXCEPT ![c] = q] /\ bound' = a
           /\ picked' = [picked EXCEPT ![c] = NULL] /\ UNCHANGED stopping
  <2>1. q \in Requests /\ OwnerOf[q] = "atlas"
      BY <1>1, TrialFacts
  <2>2. \/ status[q] = "none" /\ Intend(c, q)
        \/ status[q] = "completed" /\ Replay(c, q)
      BY <1>4, <2>1 DEF Execute, Redo, Resumable, Intend, Replay
  <2>3. Inv'
      BY <1>2, <2>1, <2>2, NextInv DEF ControlInv, Next, Execute
  <2>4. bound \in {NULL, a} /\ a # NULL
      BY <1>4, TrialAssumption DEF Admitted
  <2>5. ControlTyped'
      BY <1>1, <1>4 DEF ControlInv, ControlTyped
  <2>6. \A d \in Callers : /\ job'[d] = IF d = c THEN q ELSE job[d]
                           /\ picked'[d] = IF d = c THEN NULL ELSE picked[d]
      BY <1>4 DEF ControlInv, ControlTyped
  <2>7. CASE status[q] = "none" /\ Intend(c, q)
    <3>1. /\ status' = [status EXCEPT ![q] = "pending"] /\ Enter(c, q)
        BY <2>7 DEF Intend
    <3>2. \A x \in Requests : status'[x] = IF x = q THEN "pending" ELSE status[x]
        BY <3>1 DEF ControlInv, Inv, TypeOK
    <3>3. \A d \in Callers : /\ req'[d] = IF d = c THEN q ELSE req[d]
                             /\ pc'[d] = IF d = c THEN "ready" ELSE pc[d]
        BY <2>1, <3>1, EnterFacts DEF ControlInv
    <3> HIDE DEF q
    <3>4. ASSUME NEW d \in Callers, job'[d] # NULL
          PROVE  /\ job'[d] \in requests /\ bound' # NULL /\ picked'[d] = NULL
                 /\ status'[job'[d]] = IF pc'[d] = "idle" THEN "completed" ELSE "pending"
      <4>1. CASE d = c
          BY <1>1, <1>4, <2>1, <2>4, <2>6, <3>2, <3>3, <4>1
      <4>2. CASE d # c
        <5>1. /\ job[d] # NULL /\ job[d] \in requests /\ picked[d] = NULL
              /\ status[job[d]] = IF pc[d] = "idle" THEN "completed" ELSE "pending"
            BY <2>6, <3>4, <4>2 DEF ControlInv, Working
        <5>2. job[d] \in Requests /\ job[d] # q
            BY <2>7, <5>1, TrialFacts DEF ControlInv, ControlTyped
        <5> QED BY <1>4, <2>4, <2>6, <3>2, <3>3, <4>2, <5>1, <5>2
      <4> QED BY <4>1, <4>2
    <3>5. \A d \in Callers : pc'[d] # "idle" => job'[d] # NULL /\ req'[d] = job'[d]
        BY <1>1, <2>6, <3>3 DEF ControlInv, Working
    <3>6. \A d \in Callers : picked'[d] # NULL => picked'[d] \in requests
        BY <2>6 DEF ControlInv, Working
    <3>7. \A x \in TrialRequests : status'[x] # "none" => x \in requests /\ bound' # NULL
        BY <1>1, <1>4, <2>4, <3>2, TrialFacts DEF ControlInv, Working
    <3>8. Working'
        BY <1>1, <3>4, <3>5, <3>6, <3>7 DEF Working
    <3>9. Reserved'
      <4>1. InFlight' = InFlight \union {q} /\ q \notin InFlight
          BY <1>1, <2>7, <3>2, TrialFacts DEF InFlight, ControlInv, ControlTyped
      <4>2. IsFiniteSet(InFlight)
          BY FS_Subset DEF InFlight, ControlInv, Reserved
      <4>3. Cardinality(InFlight') = Cardinality(InFlight) + 1
          BY <4>1, <4>2, FS_AddElement
      <4>4. Cardinality(InFlight) + 1 <= MaxInFlight[a]
          BY <1>4, <2>7 DEF Admitted, Occupied, InFlight
      <4> QED BY <1>1, <1>4, <4>3, <4>4 DEF ControlInv, Reserved
    <3>10. Lasting
        BY <2>7, <3>2, TrialFacts DEF Lasting
    <3> QED BY <2>3, <2>5, <3>8, <3>9, <3>10 DEF ControlInv
  <2>8. CASE status[q] = "completed" /\ Replay(c, q)
    <3>1. UNCHANGED <<status, pc, req>>
        BY <2>8 DEF Replay
    <3>2. bound' = bound /\ bound # NULL
        BY <1>1, <1>4, <2>4, <2>8 DEF ControlInv, Working
    <3> HIDE DEF q
    <3>3. Working'
        BY <1>1, <1>2, <2>6, <2>8, <3>1, <3>2 DEF ControlInv, Working
    <3>4. Reserved'
        BY <1>1, <3>1, <3>2, FlightsShrink, BoundFacts DEF ControlInv
    <3>5. Lasting
        BY <3>1 DEF Lasting
    <3> QED BY <2>3, <2>5, <3>3, <3>4, <3>5 DEF ControlInv
  <2> QED BY <2>2, <2>7, <2>8
<1> QED BY <1>3, <1>4 DEF Start

\* A call under way goes on, its row unchanged.
LEMMA CallGoesOn ==
    ASSUME ControlInv, Inv', NEW c \in Callers, pc[c] # "idle",
           NEW to \in {"io", "answered"}, pc' = [pc EXCEPT ![c] = to],
           UNCHANGED <<status, req, requests, bound, admission, picked, job, stopping>>
    PROVE  ControlInv' /\ Lasting
<1>1. \A d \in Callers : pc'[d] = "idle" <=> pc[d] = "idle"
    BY DEF ControlInv, Inv, TypeOK
<1>2. ControlTyped' /\ Working'
    BY <1>1 DEF ControlInv, ControlTyped, Working
<1>3. Reserved' /\ Lasting
    BY FlightsShrink, BoundFacts DEF ControlInv, Lasting
<1> QED BY <1>2, <1>3 DEF ControlInv

LEMMA DispatchKeepsControl ==
    ASSUME ControlInv, NEW c \in Callers, DispatchTrial(c)
    PROVE  ControlInv' /\ Lasting
<1>1. UNCHANGED <<requests, bound, admission>>
    BY DEF DispatchTrial, registryVars
<1>2. CASE Dispatch(c) /\ UNCHANGED <<picked, job, stopping>>
  <2>1. Inv'
      BY <1>2, NextInv DEF ControlInv, Next
  <2>2. pc[c] # "idle" /\ pc' = [pc EXCEPT ![c] = "io"] /\ UNCHANGED <<status, req>>
      BY <1>2 DEF Dispatch
  <2> QED BY <1>1, <1>2, <2>1, <2>2, CallGoesOn
<1>3. CASE Inadmissible(c) /\ PutDown(c, TRUE)
  <2>1. Inv'
      BY <1>3, NextInv DEF ControlInv, Next
  <2>2. pc[c] # "idle" /\ Leave(c) /\ status' = status
      BY <1>3 DEF Inadmissible
  <2>3. status'[job[c]] # "none"
      BY <2>2, BusyWork
  <2> QED BY <1>1, <1>3, <2>1, <2>2, <2>3, CallOver
<1> QED BY <1>2, <1>3 DEF DispatchTrial

LEMMA ReceiveKeepsControl ==
    ASSUME ControlInv, NEW c \in Callers, Receive(c)
    PROVE  ControlInv' /\ Lasting
<1>1. UNCHANGED <<requests, bound, admission, picked, job, stopping>>
    BY DEF Receive, registryVars, controlVars
<1>2. CASE Answer(c)
  <2>1. Inv'
      BY <1>2, NextInv DEF ControlInv, Next
  <2>2. pc[c] # "idle" /\ pc' = [pc EXCEPT ![c] = "answered"] /\ UNCHANGED <<status, req>>
      BY <1>2 DEF Answer
  <2> QED BY <1>1, <2>1, <2>2, CallGoesOn
<1>3. CASE Store(c)
  <2>1. Inv'
      BY <1>3, NextInv DEF ControlInv, Next
  <2>2. pc[c] # "idle" /\ Leave(c)
      BY <1>3 DEF Store
  <2>3. /\ job[c] = req[c] /\ job[c] \in TrialRequests /\ status[job[c]] = "pending"
        /\ span[job[c]] = "RUNNING"
      BY <2>2, BusyWork
  <2>4. status' = [status EXCEPT ![job[c]] = "completed"]
      BY <1>3, <2>3 DEF Store, Close, Settled
  <2>5. \A x \in Requests : status'[x] = IF x = job[c] THEN "completed" ELSE status[x]
      BY <2>4 DEF ControlInv, Inv, TypeOK
  <2> QED BY <1>1, <2>1, <2>2, <2>3, <2>5, TrialFacts, CallOver
<1> QED BY <1>2, <1>3 DEF Receive

LEMMA LosingKeepsControl ==
    ASSUME ControlInv, NEW c \in Callers, LoseCall(c)
    PROVE  ControlInv' /\ Lasting
<1>1. UNCHANGED <<requests, bound, admission>> /\ PutDown(c, TRUE)
    BY DEF LoseCall, registryVars
<1>2. Inv'
    BY NextInv DEF LoseCall, ControlInv, Next
<1>3. pc[c] # "idle" /\ Leave(c)
    BY DEF LoseCall, ProviderError, Cancel, OtherError, Interruptible
<1>4. /\ job[c] = req[c] /\ job[c] \in TrialRequests /\ status[job[c]] = "pending"
    BY <1>3, BusyWork
<1>5. \/ status' = status
      \/ \E to \in {"failed_retryable", "failed_terminal", "cancelled"} :
             status' = [status EXCEPT ![job[c]] = to]
    BY <1>4 DEF LoseCall, ProviderError, Cancel, OtherError, Close
<1>6. /\ \A x \in Requests : x # job[c] => status'[x] = status[x]
      /\ status'[job[c]] # "none"
    BY <1>4, <1>5, TrialFacts DEF ControlInv, Inv, TypeOK
<1> QED BY <1>1, <1>2, <1>3, <1>6, CallOver

LEMMA RestartKeepsControl ==
    ASSUME ControlInv, NEW k \in Controllers, Restart(k)
    PROVE  ControlInv' /\ Lasting
<1> DEFINE lost == {c \in Callers : ControllerOf[c] = k}
<1>1. /\ pc' = [c \in Callers |-> IF c \in lost THEN "idle" ELSE pc[c]]
      /\ req' = [c \in Callers |-> IF c \in lost THEN NULL ELSE req[c]]
      /\ picked' = [c \in Callers |-> IF c \in lost THEN NULL ELSE picked[c]]
      /\ job' = [c \in Callers |-> IF c \in lost THEN NULL ELSE job[c]]
      /\ stopping' = stopping \ {k}
      /\ UNCHANGED <<status, registryVars, bound, admission>>
    BY Zenon DEF Restart
<1> HIDE DEF lost
<1>2. requests' = requests
    BY <1>1 DEF registryVars
<1>3. ControlTyped' /\ Working'
    BY <1>1, <1>2 DEF ControlInv, ControlTyped, Working
<1>4. Reserved' /\ Lasting
    BY <1>1, <1>2, FlightsShrink, BoundFacts DEF ControlInv, Lasting
<1> QED BY <1>3, <1>4, RestartInv DEF ControlInv

LEMMA JudgingFacts ==
    ASSUME ControlInv, NEW c \in Callers, Judging(c)
    PROVE  /\ pc[c] = "idle" /\ job[c] \in TrialRequests /\ job[c] \in requests
           /\ status[job[c]] = "completed"
BY DEF Judging, ControlInv, Working, ControlTyped

LEMMA AtlasKeepsControl ==
    ASSUME ControlInv, [AtlasNext]_atlasVars
    PROVE  ControlInv' /\ Lasting
<1>1. stopping \subseteq Controllers /\ admission \in {"open", "paused", "over"}
    BY DEF ControlInv, ControlTyped
<1>2. CASE UNCHANGED <<vars, requests, controlVars>>
    BY <1>1, <1>2, ControlStands DEF controlVars
<1>3. ASSUME NEW to \in {"open", "paused", "over"}, Readmit(to)
      PROVE  ControlInv' /\ Lasting
    BY <1>1, <1>3, ControlStands DEF Readmit, registryVars
<1>4. ASSUME NEW c \in Callers, Expire(c)
      PROVE  ControlInv' /\ Lasting
  <2>1. pc[c] = "idle"
      BY <1>4 DEF Expire, ControlInv, Working
  <2> QED BY <1>4, <2>1, JobLeft DEF Expire, registryVars
<1>5. ASSUME NEW c \in Callers, RecordOutcome(c) \/ Raise(c)
      PROVE  ControlInv' /\ Lasting
  <2>1. /\ pc[c] = "idle" /\ UNCHANGED <<vars, requests, bound, admission>>
        /\ \E failed \in BOOLEAN : PutDown(c, failed)
      BY <1>5 DEF RecordOutcome, Raise, Judging, registryVars
  <2>2. PutDown(c, TRUE) \/ PutDown(c, FALSE)
      BY <2>1 DEF PutDown
  <2> QED BY <2>1, <2>2, JobLeft
<1>6. ASSUME NEW c \in Callers, NEW v \in Verdicts, Judge(c, v)
      PROVE  ControlInv' /\ Lasting
  <2>1. stopping' \subseteq Controllers
      BY <1>1, <1>6, TrialAssumption DEF Judge
  <2> QED BY <1>1, <1>6, <2>1, ControlStands DEF Judge
<1>7. CASE AtlasNext
  <2>1. ASSUME \/ \E n \in Trials : Allocate(n)
               \/ \E q \in TrialRequests, o \in {"infrastructure", "not_run"} : RecordLost(q, o)
               \/ RegisterSnapshot
        PROVE  ControlInv' /\ Lasting
      BY <1>2, <2>1 DEF Allocate, RecordLost, RegisterSnapshot
  <2> QED
      BY <1>3, <1>4, <1>5, <1>6, <1>7, <2>1, RequestKeepsControl, PickKeepsControl,
         StartKeepsControl, DispatchKeepsControl, ReceiveKeepsControl, LosingKeepsControl,
         RestartKeepsControl
      DEF AtlasNext
<1>8. CASE UNCHANGED atlasVars
    BY <1>2, <1>8 DEF atlasVars, registryVars
<1> QED BY <1>7, <1>8

-----------------------------------------------------------------------------
(* Atlas trials: the registry.                                             *)

\* The attempts of a trial are numbered without gaps, and all but the last
\* are lost.
Chained ==
    /\ \A q \in requests, j \in Nat : j <= q[2] => <<q[1], j>> \in requests
    /\ \A q \in requests, j \in Nat : j < q[2] => outcome[<<q[1], j>>] = "infrastructure"
    /\ \A n \in Trials : Attempts(n) # {} =>
          \E q \in Attempts(n) : \A r \in Attempts(n) : r[2] <= q[2]

Disclosed ==
    adaptive => \A n \in Allocated :
        /\ \A m \in 0..(n - 1) : \E q \in decision[n] : q[1] = m
        /\ \A q \in decision[n] : q \in requests /\ q[1] < n /\ outcome[q] # "none"

Judged ==
    \A q \in TrialRequests :
        /\ outcome[q] # "none" => q \in requests
        /\ outcome[q] \in Scored \union {"excluded"} =>
              /\ status[q] = "completed" /\ verdict[q] # "none"
              /\ outcome[q] = Disposition(verdict[q])
        /\ outcome[q] = "infrastructure" => status[q] \in {"failed_retryable", "failed_terminal"}

Counted ==
    snapshot # NULL =>
        /\ snapshot = Counts /\ snapshot.observed = Planned
        /\ \A n \in Trials : Ended(n) /\ outcome[Latest(n)] \in Scored

RegistryTyped ==
    /\ adaptive \in BOOLEAN
    /\ decision \in [Trials -> (SUBSET TrialRequests) \union {NULL}]
    /\ outcome \in [TrialRequests -> Outcomes] /\ verdict \in [TrialRequests -> Verdicts]
    /\ snapshot \in [successes : Nat, observed : Nat] \union {NULL}

RegistryInv == RegistryTyped /\ Chained /\ Disclosed /\ Judged /\ Counted

LEMMA LatestFacts ==
    ASSUME Chained, NEW n \in Trials, Attempts(n) # {}
    PROVE  /\ Latest(n) \in requests /\ Latest(n)[1] = n
           /\ \A r \in Attempts(n) : r[2] <= Latest(n)[2]
<1>1. \E q \in Attempts(n) : \A r \in Attempts(n) : r[2] <= q[2]
    BY DEF Chained
<1>2. Latest(n) \in Attempts(n) /\ \A r \in Attempts(n) : r[2] <= Latest(n)[2]
    BY <1>1 DEF Latest
<1> QED BY <1>2 DEF Attempts

\* A request that was not lost is the last attempt of its trial.
LEMMA LastWord ==
    ASSUME Chained, ControlTyped, NEW q \in requests, outcome[q] # "infrastructure"
    PROVE  q = Latest(q[1])
<1>1. q \in TrialRequests /\ q[1] \in Trials /\ q[2] \in Nat /\ q = <<q[1], q[2]>>
    BY TrialFacts DEF ControlTyped
<1> DEFINE last == Latest(q[1])
<1>2. q \in Attempts(q[1])
    BY DEF Attempts
<1>3. last \in requests /\ last[1] = q[1] /\ q[2] <= last[2]
    BY <1>1, <1>2, LatestFacts
<1> HIDE DEF last
<1>4. last[2] \in Nat /\ last = <<last[1], last[2]>>
    BY <1>3, TrialFacts DEF ControlTyped
<1>5. ~(q[2] < last[2])
    BY <1>1, <1>3 DEF Chained
<1>6. q[2] = last[2]
    BY <1>1, <1>3, <1>4, <1>5
<1>7. q = last
    BY <1>1, <1>3, <1>4, <1>6
<1> QED BY <1>7 DEF last

\* A new request is the first of its trial or follows a last one that is lost.
LEMMA NewAttempt ==
    ASSUME Chained, ControlTyped, NEW q \in TrialRequests, RecordRequest(q)
    PROVE  \/ Attempts(q[1]) = {} /\ q[2] = 0
           \/ /\ Attempts(q[1]) # {} /\ q[2] = Latest(q[1])[2] + 1
              /\ outcome[Latest(q[1])] = "infrastructure"
<1>1. q[1] \in Trials /\ q[2] \in Nat /\ q = <<q[1], q[2]>> /\ q \notin requests
    BY TrialFacts DEF RecordRequest
<1>2. ASSUME NEW r \in Attempts(q[1])
      PROVE  r[2] < q[2] /\ r[2] \in Nat /\ r = <<q[1], r[2]>>
  <2>1. r \in requests /\ r[1] = q[1] /\ r[2] \in Nat /\ r = <<r[1], r[2]>>
      BY TrialFacts DEF Attempts, ControlTyped
  <2>2. ~(q[2] <= r[2])
      BY <1>1, <2>1 DEF Chained
  <2> QED BY <1>1, <2>1, <2>2
<1>3. CASE q[2] = 0
    BY <1>2, <1>3
<1>4. CASE q[2] # 0
  <2> DEFINE parent == <<q[1], q[2] - 1>>
             last == Latest(q[1])
  <2>1. parent \in requests /\ outcome[parent] = "infrastructure"
      BY <1>4 DEF RecordRequest, Retriable
  <2>2. parent \in Attempts(q[1]) /\ parent[2] = q[2] - 1
      BY <2>1 DEF Attempts
  <2>3. last \in requests /\ last[1] = q[1] /\ q[2] - 1 <= last[2]
      BY <1>1, <2>2, LatestFacts
  <2>4. last \in Attempts(q[1])
      BY <2>3 DEF Attempts
  <2> HIDE DEF last
  <2>5. last[2] < q[2] /\ last[2] \in Nat /\ last = <<q[1], last[2]>>
      BY <1>2, <2>4
  <2>6. last[2] = q[2] - 1
      BY <1>1, <2>3, <2>5
  <2>7. last = parent /\ q[2] = last[2] + 1
      BY <1>1, <2>5, <2>6
  <2> QED BY <2>1, <2>2, <2>7 DEF last
<1> QED BY <1>3, <1>4

LEMMA RequestKeepsChain ==
    ASSUME Chained, ControlTyped, NEW q \in TrialRequests, RecordRequest(q)
    PROVE  Chained'
<1>1. requests' = requests \union {q} /\ outcome' = outcome
    BY DEF RecordRequest
<1>2. q[1] \in Trials /\ q[2] \in Nat /\ q = <<q[1], q[2]>> /\ q \notin requests
    BY TrialFacts DEF RecordRequest
<1>3. q[2] # 0 => /\ <<q[1], q[2] - 1>> \in requests
                  /\ outcome[<<q[1], q[2] - 1>>] = "infrastructure"
    BY DEF RecordRequest, Retriable
<1>4. ASSUME NEW j \in Nat, j < q[2]
      PROVE  <<q[1], j>> \in requests /\ outcome[<<q[1], j>>] = "infrastructure"
  <2> DEFINE parent == <<q[1], q[2] - 1>>
  <2>1. parent \in requests /\ outcome[parent] = "infrastructure"
      BY <1>2, <1>3, <1>4
  <2>2. parent[1] = q[1] /\ parent[2] = q[2] - 1
      OBVIOUS
  <2>3. j <= q[2] - 1 /\ (j = q[2] - 1 \/ j < q[2] - 1)
      BY <1>2, <1>4
  <2> QED BY <2>1, <2>2, <2>3 DEF Chained
<1>5. /\ \A r \in requests', j \in Nat : j <= r[2] => <<r[1], j>> \in requests'
      /\ \A r \in requests', j \in Nat :
             j < r[2] => outcome'[<<r[1], j>>] = "infrastructure"
  <2>1. ASSUME NEW r \in requests, NEW j \in Nat
        PROVE  /\ j <= r[2] => <<r[1], j>> \in requests'
               /\ j < r[2] => outcome'[<<r[1], j>>] = "infrastructure"
      BY <1>1 DEF Chained
  <2>2. ASSUME NEW j \in Nat
        PROVE  /\ j <= q[2] => <<q[1], j>> \in requests'
               /\ j < q[2] => outcome'[<<q[1], j>>] = "infrastructure"
    <3>1. j <= q[2] => j < q[2] \/ j = q[2]
        BY <1>2
    <3> QED BY <1>1, <1>2, <1>4, <3>1
  <2> QED BY <1>1, <2>1, <2>2
<1>6. ASSUME NEW n \in Trials, Attempts(n)' # {}
      PROVE  \E r \in Attempts(n)' : \A t \in Attempts(n)' : t[2] <= r[2]
  <2>1. CASE n = q[1]
    <3>1. Attempts(n)' = Attempts(n) \union {q}
        BY <1>1, <2>1 DEF Attempts
    <3>2. \A t \in Attempts(n) : t[2] <= q[2]
      <4>1. \A t \in Attempts(n) : t[2] \in Nat
          BY TrialFacts DEF Attempts, ControlTyped
      <4>2. Attempts(n) # {} => /\ q[2] = Latest(n)[2] + 1 /\ Latest(n)[2] \in Nat
                               /\ \A t \in Attempts(n) : t[2] <= Latest(n)[2]
          BY <2>1, NewAttempt, LatestFacts, TrialFacts DEF ControlTyped
      <4> QED BY <4>1, <4>2
    <3> QED BY <1>2, <3>1, <3>2
  <2>2. CASE n # q[1]
    <3>1. Attempts(n)' = Attempts(n)
        BY <1>1, <2>2 DEF Attempts
    <3> QED BY <1>6, <3>1 DEF Chained
  <2> QED BY <2>1, <2>2
<1> QED BY <1>5, <1>6 DEF Chained

LEMMA CountFacts ==
    ASSUME NEW O
    PROVE  /\ Ends(O) \in Nat
           /\ (\A n \in Trials : Ended(n) /\ outcome[Latest(n)] \in O) => Ends(O) = Planned
<1> DEFINE those == {n \in Trials : Ended(n) /\ outcome[Latest(n)] \in O}
<1>1. IsFiniteSet(Trials) /\ Cardinality(Trials) = Planned
    BY TrialAssumption, FS_Interval DEF Trials
<1>2. those \subseteq Trials /\ Ends(O) = Cardinality(those)
    BY DEF Ends
<1>3. (\A n \in Trials : Ended(n) /\ outcome[Latest(n)] \in O) => those = Trials
    OBVIOUS
<1> HIDE DEF those
<1>4. IsFiniteSet(those)
    BY <1>1, <1>2, FS_Subset
<1> QED BY <1>1, <1>2, <1>3, <1>4, FS_CardinalityType

\* What a snapshot counted is counted again.
LEMMA CountedStays ==
    ASSUME Chained, ControlTyped, Counted, snapshot' = snapshot,
           snapshot # NULL => /\ decision' = decision /\ requests' = requests
                              /\ \A q \in TrialRequests :
                                    outcome[q] # "none" => outcome'[q] = outcome[q]
    PROVE  Counted'
<1> SUFFICES ASSUME snapshot # NULL
             PROVE  Counted'
    BY DEF Counted
<1>1. ASSUME NEW n \in Trials
      PROVE  /\ Ended(n) /\ outcome[Latest(n)] \in Scored
             /\ Ended(n)' /\ (outcome[Latest(n)])' = outcome[Latest(n)]
  <2>1. Ended(n) /\ outcome[Latest(n)] \in Scored
      BY DEF Counted
  <2>2. Attempts(n)' = Attempts(n) /\ Allocated' = Allocated
      BY DEF Attempts, Allocated
  <2>3. Latest(n)' = Latest(n)
      BY <2>2 DEF Latest
  <2>4. Latest(n) \in TrialRequests
      BY <2>1, LatestFacts DEF Ended, ControlTyped
  <2>5. outcome'[Latest(n)] = outcome[Latest(n)]
      BY <2>1, <2>4 DEF Scored
  <2>6. Ended(n)'
      BY <2>1, <2>2, <2>3, <2>5 DEF Ended
  <2> QED BY <2>1, <2>3, <2>5, <2>6
<1>2. ASSUME NEW O
      PROVE  Ends(O)' = Ends(O)
  <2>1. {n \in Trials : Ended(n) /\ outcome[Latest(n)] \in O}'
            = {n \in Trials : Ended(n) /\ outcome[Latest(n)] \in O}
      BY <1>1
  <2> QED BY <2>1 DEF Ends
<1>3. Counts' = Counts
    BY <1>2 DEF Counts
<1> QED BY <1>1, <1>3 DEF Counted

\* The registry is left alone, whatever becomes of the calls.
LEMMA RegistryStands ==
    ASSUME RegistryInv, ControlTyped, Lasting,
           UNCHANGED <<adaptive, decision, requests, outcome, snapshot>>,
           verdict' \in [TrialRequests -> Verdicts],
           \A q \in TrialRequests : verdict[q] # "none" => verdict'[q] = verdict[q]
    PROVE  RegistryInv'
<1>1. RegistryTyped'
    BY DEF RegistryInv, RegistryTyped
<1>2. Chained'
    BY DEF RegistryInv, Chained, Attempts
<1>3. Disclosed'
    BY DEF RegistryInv, Disclosed, Allocated
<1>4. Judged'
    BY DEF RegistryInv, Judged, Lasting
<1>5. Counted'
    BY CountedStays DEF RegistryInv
<1> QED BY <1>1, <1>2, <1>3, <1>4, <1>5 DEF RegistryInv

\* A result is recorded, once.
LEMMA ResultKeepsRegistry ==
    ASSUME RegistryInv, ControlTyped, Lasting,
           NEW q \in requests, outcome[q] = "none", NEW o \in Outcomes \ {"none"},
           outcome' = [outcome EXCEPT ![q] = o],
           UNCHANGED <<adaptive, decision, requests, verdict, snapshot>>,
           o \in Scored \union {"excluded"} =>
               /\ status[q] = "completed" /\ verdict[q] # "none" /\ o = Disposition(verdict[q]),
           o = "infrastructure" => status[q] \in {"failed_retryable", "failed_terminal"}
    PROVE  RegistryInv'
<1>1. q \in TrialRequests
    BY DEF ControlTyped
<1>2. \A x \in TrialRequests : outcome'[x] = IF x = q THEN o ELSE outcome[x]
    BY DEF RegistryInv, RegistryTyped
<1>3. RegistryTyped'
    BY <1>1 DEF RegistryInv, RegistryTyped
<1>4. Chained'
  <2>1. \A r \in requests, j \in Nat :
            j < r[2] => outcome'[<<r[1], j>>] = "infrastructure"
    <3>1. ASSUME NEW r \in requests, NEW j \in Nat, j < r[2]
          PROVE  outcome'[<<r[1], j>>] = "infrastructure"
      <4>1. r \in TrialRequests /\ r[2] \in Nat
          BY TrialFacts DEF ControlTyped
      <4>2. <<r[1], j>> \in requests /\ outcome[<<r[1], j>>] = "infrastructure"
          BY <3>1, <4>1 DEF RegistryInv, Chained
      <4> QED BY <1>2, <4>2 DEF ControlTyped
    <3> QED BY <3>1
  <2> QED BY <2>1 DEF RegistryInv, Chained, Attempts
<1>5. Disclosed'
    BY <1>2 DEF RegistryInv, Disclosed, Allocated, ControlTyped
<1>6. Judged'
  <2> SUFFICES ASSUME NEW x \in TrialRequests
               PROVE  /\ outcome'[x] # "none" => x \in requests
                      /\ outcome'[x] \in Scored \union {"excluded"} =>
                            /\ status'[x] = "completed" /\ verdict[x] # "none"
                            /\ outcome'[x] = Disposition(verdict[x])
                      /\ outcome'[x] = "infrastructure" =>
                            status'[x] \in {"failed_retryable", "failed_terminal"}
      BY DEF Judged
  <2>1. CASE x = q
      BY <1>1, <1>2, <2>1 DEF Lasting
  <2>2. CASE x # q
      BY <1>2, <2>2 DEF RegistryInv, Judged, Lasting
  <2> QED BY <2>1, <2>2
<1>7. Counted'
    BY <1>1, <1>2, CountedStays DEF RegistryInv
<1> QED BY <1>3, <1>4, <1>5, <1>6, <1>7 DEF RegistryInv

LEMMA RequestKeepsRegistry ==
    ASSUME RegistryInv, ControlTyped, Lasting, NEW q \in TrialRequests, RecordRequest(q)
    PROVE  RegistryInv'
<1>1. /\ requests' = requests \union {q} /\ q[1] \in Trials
      /\ UNCHANGED <<adaptive, decision, outcome, verdict, snapshot>>
    BY TrialFacts DEF RecordRequest
<1>2. snapshot = NULL
  <2> SUFFICES ASSUME snapshot # NULL
               PROVE  FALSE
      OBVIOUS
  <2>1. Ended(q[1]) /\ outcome[Latest(q[1])] \in Scored
      BY <1>1 DEF RegistryInv, Counted
  <2> QED BY <2>1, NewAttempt DEF RegistryInv, Ended, Scored
<1>3. RegistryTyped' /\ Disclosed' /\ Counted'
    BY <1>1, <1>2 DEF RegistryInv, RegistryTyped, Disclosed, Allocated, Counted
<1>4. Judged'
    BY <1>1 DEF RegistryInv, Judged, Lasting
<1> QED BY <1>3, <1>4, RequestKeepsChain DEF RegistryInv

LEMMA AllocationKeepsRegistry ==
    ASSUME RegistryInv, ControlTyped, Lasting, NEW n \in Trials, Allocate(n)
    PROVE  RegistryInv'
<1> DEFINE before == IF adaptive THEN {Latest(m) : m \in Allocated} ELSE {}
<1>1. /\ decision[n] = NULL /\ decision' = [decision EXCEPT ![n] = before]
      /\ UNCHANGED <<adaptive, requests, outcome, verdict, snapshot>>
    BY DEF Allocate
<1>2. adaptive => Allocated = 0..(n - 1) /\ \A m \in Allocated : Ended(m)
    BY DEF Allocate
<1>3. ASSUME adaptive, NEW m \in Allocated
      PROVE  /\ Latest(m) \in requests /\ Latest(m)[1] = m /\ outcome[Latest(m)] # "none"
             /\ m < n
  <2>1. m \in Trials /\ Ended(m) /\ m \in 0..(n - 1)
      BY <1>2, <1>3 DEF Allocated
  <2>2. n \in Nat
      BY TrialAssumption DEF Trials
  <2> QED BY <2>1, <2>2, LatestFacts DEF Ended, RegistryInv
<1>4. before \in SUBSET TrialRequests
    BY <1>3 DEF ControlTyped
<1>5. adaptive => /\ \A m \in 0..(n - 1) : \E q \in before : q[1] = m
                  /\ \A q \in before : q \in requests /\ q[1] < n /\ outcome[q] # "none"
    BY <1>2, <1>3
<1> HIDE DEF before
<1>6. RegistryTyped'
    BY <1>1, <1>4 DEF RegistryInv, RegistryTyped
<1>7. \A m \in Trials : decision'[m] = IF m = n THEN before ELSE decision[m]
    BY <1>1 DEF RegistryInv, RegistryTyped
<1>8. Disclosed'
  <2> SUFFICES ASSUME adaptive, NEW k \in Trials, decision'[k] # NULL
               PROVE  /\ \A m \in 0..(k - 1) : \E q \in decision'[k] : q[1] = m
                      /\ \A q \in decision'[k] :
                            q \in requests /\ q[1] < k /\ outcome[q] # "none"
      BY <1>1 DEF Disclosed, Allocated
  <2>1. CASE k = n
      BY <1>5, <1>7, <2>1
  <2>2. CASE k # n
    <3>1. decision'[k] = decision[k]
        BY <1>7, <2>2
    <3> QED BY <3>1 DEF RegistryInv, Disclosed, Allocated
  <2> QED BY <2>1, <2>2
<1>9. Chained' /\ Judged'
    BY <1>1 DEF RegistryInv, Chained, Attempts, Judged, Lasting
<1>10. Counted'
  <2>1. snapshot = NULL
      BY <1>1 DEF RegistryInv, Counted, Ended, Allocated
  <2> QED BY <1>1, <2>1 DEF Counted
<1> QED BY <1>6, <1>8, <1>9, <1>10 DEF RegistryInv

LEMMA SnapshotKeepsRegistry ==
    ASSUME RegistryInv, ControlTyped, Lasting, RegisterSnapshot
    PROVE  RegistryInv'
<1>1. /\ snapshot' = Counts /\ \A n \in Trials : Ended(n) /\ outcome[Latest(n)] \in Scored
      /\ UNCHANGED <<adaptive, decision, requests, outcome, verdict>>
    BY DEF RegisterSnapshot
<1>2. Counts \in [successes : Nat, observed : Nat] /\ Counts.observed = Planned
    BY <1>1, CountFacts DEF Counts
<1>3. RegistryTyped'
    BY <1>1, <1>2 DEF RegistryInv, RegistryTyped
<1>4. Chained' /\ Judged' /\ Disclosed'
    BY <1>1 DEF RegistryInv, Chained, Attempts, Judged, Lasting, Disclosed, Allocated
<1>5. \A n \in Trials : Latest(n)' = Latest(n) /\ (Ended(n)' <=> Ended(n))
    BY <1>1 DEF Latest, Attempts, Ended, Allocated
<1>6. Counts' = Counts
    BY <1>1 DEF Counts, Ends, Ended, Latest, Attempts, Allocated
<1>7. Counted'
    BY <1>1, <1>2, <1>5, <1>6 DEF Counted
<1> QED BY <1>3, <1>4, <1>7 DEF RegistryInv

LEMMA AtlasKeepsRegistry ==
    ASSUME ControlInv, RegistryInv, [AtlasNext]_atlasVars
    PROVE  RegistryInv'
<1>1. ControlTyped /\ Lasting
    BY AtlasKeepsControl DEF ControlInv
<1>2. ASSUME UNCHANGED registryVars
      PROVE  RegistryInv'
    BY <1>1, <1>2, RegistryStands DEF registryVars, RegistryInv, RegistryTyped
<1>3. ASSUME NEW q \in TrialRequests, NEW o \in {"infrastructure", "not_run"}, RecordLost(q, o)
      PROVE  RegistryInv'
  <2>1. /\ q \in requests /\ outcome[q] = "none"
        /\ outcome' = [outcome EXCEPT ![q] = o]
        /\ UNCHANGED <<adaptive, decision, requests, verdict, snapshot>>
        /\ o = "infrastructure" => status[q] \in {"failed_retryable", "failed_terminal"}
      BY <1>3 DEF RecordLost
  <2>2. o \in Outcomes \ {"none"} /\ o \notin Scored \union {"excluded"}
      BY DEF Outcomes, Scored
  <2> QED BY <1>1, <2>1, <2>2, ResultKeepsRegistry
<1>4. ASSUME NEW c \in Callers, NEW v \in Verdicts, Judge(c, v)
      PROVE  RegistryInv'
  <2>1. /\ job[c] \in TrialRequests /\ verdict[job[c]] = "none"
        /\ verdict' = [verdict EXCEPT ![job[c]] = v]
        /\ UNCHANGED <<adaptive, decision, requests, outcome, snapshot>>
      BY <1>4, JudgingFacts DEF Judge
  <2>2. verdict' \in [TrialRequests -> Verdicts]
      BY <2>1 DEF RegistryInv, RegistryTyped
  <2>3. \A q \in TrialRequests : verdict[q] # "none" => verdict'[q] = verdict[q]
      BY <2>1 DEF RegistryInv, RegistryTyped
  <2> QED BY <1>1, <2>1, <2>2, <2>3, RegistryStands
<1>5. ASSUME NEW c \in Callers, RecordOutcome(c)
      PROVE  RegistryInv'
  <2> DEFINE o == Disposition(verdict[job[c]])
  <2>1. /\ job[c] \in TrialRequests /\ job[c] \in requests /\ status[job[c]] = "completed"
        /\ verdict[job[c]] # "none" /\ outcome[job[c]] = "none"
        /\ outcome' = [outcome EXCEPT ![job[c]] = o]
        /\ UNCHANGED <<adaptive, decision, requests, verdict, snapshot>>
      BY <1>5, JudgingFacts DEF RecordOutcome
  <2>2. verdict[job[c]] \in {"verified", "rejected", "infrastructure"}
      BY <2>1 DEF RegistryInv, RegistryTyped, Verdicts
  <2>3. o \in Scored \union {"excluded"}
      BY <2>2 DEF Disposition, Scored
  <2>4. o = Disposition(verdict[job[c]])
      OBVIOUS
  <2> HIDE DEF o
  <2>5. o \in Outcomes \ {"none"} /\ o # "infrastructure"
      BY <2>3 DEF Outcomes, Scored
  <2> QED BY <1>1, <2>1, <2>3, <2>4, <2>5, ResultKeepsRegistry
<1>6. ASSUME NEW c \in Callers,
             \/ \E q \in TrialRequests : Pick(c, q)
             \/ \E a \in Activations : Start(c, a)
             \/ Expire(c) \/ DispatchTrial(c) \/ Receive(c) \/ LoseCall(c) \/ Raise(c)
      PROVE  RegistryInv'
  <2>1. CASE \E q \in TrialRequests : Pick(c, q)
      BY <1>2, <2>1 DEF Pick
  <2>2. CASE \E a \in Activations : Start(c, a)
      BY <1>2, <2>2 DEF Start
  <2>3. CASE Expire(c) \/ DispatchTrial(c) \/ Receive(c)
      BY <1>2, <2>3 DEF Expire, DispatchTrial, Receive
  <2>4. CASE LoseCall(c) \/ Raise(c)
      BY <1>2, <2>4 DEF LoseCall, Raise
  <2> QED BY <1>6, <2>1, <2>2, <2>3, <2>4
<1>7. ASSUME \/ \E to \in {"open", "paused", "over"} : Readmit(to)
             \/ \E k \in Controllers : Restart(k)
             \/ UNCHANGED atlasVars
      PROVE  RegistryInv'
    BY <1>2, <1>7 DEF Readmit, Restart, atlasVars
<1>8. ASSUME \/ \E n \in Trials : Allocate(n)
             \/ \E q \in TrialRequests : RecordRequest(q)
             \/ RegisterSnapshot
      PROVE  RegistryInv'
    BY <1>1, <1>8, AllocationKeepsRegistry, RequestKeepsRegistry, SnapshotKeepsRegistry
<1> QED BY <1>3, <1>4, <1>5, <1>6, <1>7, <1>8 DEF AtlasNext

AtlasInv == ControlInv /\ RegistryInv

LEMMA AtlasInitInv == AtlasInit => AtlasInv
<1> SUFFICES ASSUME AtlasInit
             PROVE  AtlasInv
    OBVIOUS
<1>1. Inv
    BY InitInv DEF AtlasInit
<1>2. /\ requests = {} /\ bound = NULL /\ admission = "open" /\ stopping = {}
      /\ picked = [c \in Callers |-> NULL] /\ job = [c \in Callers |-> NULL]
      /\ adaptive \in BOOLEAN /\ decision = [n \in Trials |-> NULL] /\ snapshot = NULL
      /\ outcome = [q \in TrialRequests |-> "none"] /\ verdict = [q \in TrialRequests |-> "none"]
    BY DEF AtlasInit
<1>3. \A q \in TrialRequests : q \in Requests /\ status[q] = "none"
    BY DEF AtlasInit, Init, TrialRequests
<1>4. \A c \in Callers : pc[c] = "idle"
    BY DEF AtlasInit, Init
<1>5. ControlTyped /\ Working
    BY <1>2, <1>3, <1>4 DEF ControlTyped, Working
<1>6. Reserved
    BY <1>2, FS_EmptySet DEF Reserved
<1>7. RegistryTyped
    BY <1>2 DEF RegistryTyped, Outcomes, Verdicts
<1>8. Chained /\ Disclosed /\ Judged /\ Counted
    BY <1>2 DEF Chained, Attempts, Disclosed, Allocated, Judged, Scored, Counted
<1> QED BY <1>1, <1>5, <1>6, <1>7, <1>8 DEF AtlasInv, ControlInv, RegistryInv

\* However many controllers run the trials of an Atlas run, are lost and are
\* started again, the calls of their workers are pending and within the
\* reservation (admit_atlas_generation), retries form a gapless chain of lost
\* attempts, and results, disclosures and the snapshot stay what the ledger,
\* the verdicts and the requests say (record_trial_request,
\* record_trial_result, record_allocation, register_snapshot).
THEOREM AtlasInvariance == AtlasSpec => []AtlasInv
<1>1. AtlasInv /\ [AtlasNext]_atlasVars => AtlasInv'
    BY AtlasKeepsControl, AtlasKeepsRegistry DEF AtlasInv
<1> QED BY <1>1, AtlasInitInv, PTL DEF AtlasSpec

\* All controllers together have no more generations under way than the one
\* activation of the run reserves, each under a pending call of its own
\* (admit_atlas_generation before the intent and before the dispatch).
THEOREM ReservationStands == AtlasSpec => []ReservationHolds
<1>1. ControlInv => ReservationHolds
  <2> DEFINE sending == {c \in Callers : job[c] # NULL /\ pc[c] \in {"io", "answered"}}
  <2> SUFFICES ASSUME ControlInv
               PROVE  /\ sending # {} => bound # NULL /\ Cardinality(sending) <= MaxInFlight[bound]
                      /\ \A c \in sending : status[req[c]] = "pending"
                      /\ \A c, d \in sending : req[c] = req[d] => c = d
      BY DEF ReservationHolds
  <2>1. ASSUME NEW c \in sending
        PROVE  /\ c \in Callers /\ pc[c] # "idle" /\ bound # NULL
               /\ req[c] \in InFlight /\ status[req[c]] = "pending" /\ req[c] = job[c]
      BY <2>1, BusyWork DEF ControlInv, Working, InFlight
  <2>2. ASSUME NEW c \in sending, NEW d \in sending, req[c] = req[d]
        PROVE  c = d
      BY <2>1, <2>2, BusyWork
  <2>3. ASSUME sending # {}
        PROVE  bound # NULL /\ Cardinality(sending) <= MaxInFlight[bound]
    <3>1. bound # NULL /\ MaxInFlight[bound] \in Nat
        BY <2>1, <2>3, BoundFacts
    <3>2. IsFiniteSet(InFlight) /\ Cardinality(InFlight) <= MaxInFlight[bound]
        BY <3>1, FS_Subset DEF ControlInv, Reserved, InFlight
    <3> DEFINE calls == [c \in sending |-> req[c]]
    <3>3. calls \in Injection(sending, InFlight)
        BY <2>1, <2>2 DEF Injection, IsInjective
    <3>4. IsFiniteSet(sending) /\ Cardinality(sending) <= Cardinality(InFlight)
        BY <3>2, <3>3, FS_Injection
    <3> QED BY <3>1, <3>2, <3>4, FS_CardinalityType
  <2> QED BY <2>1, <2>2, <2>3
<1> QED BY <1>1, AtlasInvariance, PTL DEF AtlasInv

\* A recorded result is what the ledger and the verifier say, whatever the
\* controllers do after it (record_trial_result).
THEOREM OutcomesFollow == AtlasSpec => []OutcomesFollowTheLedger
<1>1. RegistryInv => OutcomesFollowTheLedger
    BY DEF RegistryInv, Judged, OutcomesFollowTheLedger
<1> QED BY <1>1, AtlasInvariance, PTL DEF AtlasInv

\* Only lost attempts are below the latest one of a trial, and what an
\* adaptive decision disclosed is the last word on its trial unless it was lost
\* (record_trial_request, record_allocation).
THEOREM ScoredStand == AtlasSpec => []ScoredOutcomesStand
<1>1. ControlInv /\ RegistryInv => ScoredOutcomesStand
  <2> SUFFICES ASSUME ControlInv, RegistryInv
               PROVE  ScoredOutcomesStand
      OBVIOUS
  <2>1. ASSUME NEW q \in requests, q[2] > 0
        PROVE  /\ <<q[1], q[2] - 1>> \in requests
               /\ outcome[<<q[1], q[2] - 1>>] = "infrastructure"
    <3>1. q[2] \in Nat
        BY TrialFacts DEF ControlInv, ControlTyped
    <3>2. q[2] - 1 \in Nat /\ q[2] - 1 <= q[2] /\ q[2] - 1 < q[2]
        BY <2>1, <3>1
    <3> QED BY <3>2 DEF RegistryInv, Chained
  <2>2. ASSUME adaptive, NEW n \in Allocated
        PROVE  /\ \A m \in 0..(n - 1) : \E q \in decision[n] : q[1] = m
               /\ \A q \in decision[n] :
                     /\ q[1] < n /\ outcome[q] # "none"
                     /\ outcome[q] # "infrastructure" => q = Latest(q[1])
      BY <2>2, LastWord DEF ControlInv, RegistryInv, Disclosed
  <2> QED BY <2>1, <2>2 DEF ScoredOutcomesStand
<1> QED BY <1>1, AtlasInvariance, PTL DEF AtlasInv

\* No trial, retry or late result changes what a complete snapshot counted
\* (register_snapshot).
THEOREM SnapshotStands == AtlasSpec => []CompleteSnapshotStands
<1>1. RegistryInv => CompleteSnapshotStands
    BY DEF RegistryInv, Counted, CompleteSnapshotStands
<1> QED BY <1>1, AtlasInvariance, PTL DEF AtlasInv
=============================================================================
