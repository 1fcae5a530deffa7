------------------------------ MODULE RunStore ------------------------------
(***************************************************************************)
(* The durable run table and the supervisor processes that share it        *)
(* (padawan/orchestration/state_machine.py, supervisor.py).                *)
(*                                                                         *)
(* A run moves along a fixed path of stages.  A supervisor process loops:  *)
(* one transaction recovers stale workers, claims the least recently       *)
(* updated claimable run under a fresh lease token and writes the worker's *)
(* heartbeat; the work itself runs outside any transaction; one more       *)
(* transaction commits the next stage, or the failure, if the row still    *)
(* carries the token of the claim.                                         *)
(*                                                                         *)
(* A database transaction is one action where it locks what it decides on. *)
(* The opening one does not: it reads the worker rows without a lock, and  *)
(* under PostgreSQL's READ COMMITTED others commit before it writes, so it *)
(* is two actions, Survey and Poll.  Instants are kept as what the code    *)
(* compares: the time a lease has left, and the age of a heartbeat.        *)
(***************************************************************************)
EXTENDS Integers, Sequences

CONSTANTS
    Runs,           \* run ids
    Students,       \* student ids
    StudentOf,      \* the student of a run's payload, or NULL
    Paths,          \* the stage sequences of the program (_NEXT)
    Budget,         \* retry_budget of a run
    Controlled,     \* runs created with a research_execution_digest
    Procs,          \* supervisor processes
    WorkerIds,      \* worker_id values
    IdOf,           \* the worker_id a process is configured with
    Matching,       \* processes whose research_worker matches the executions
    Tokens,         \* lease tokens (uuid4 in the code)
    LeaseFor,       \* lease_for, in ticks
    NULL

Created   == "CREATED"
Complete  == "COMPLETE"
Retryable == "FAILED_RETRYABLE"
Failed    == "FAILED_TERMINAL"
Review    == "REVIEW_REQUIRED"
Absent    == "ABSENT"           \* no row yet

\* Mutated forms of a definition stand before it: the bug each one plants must
\* break the property it is paired with.
TerminalWithoutReview == {Complete, Failed}

Terminal == {Complete, Failed, Review}

AlgebraPath == <<
    Created, "ITEMS_LEASED", "BASE_STATE_SNAPSHOTTED", "BRANCHES_CREATED",
    "COLD_ATTEMPT_RUNNING", "COLD_ATTEMPT_STORED", "COLD_GRADED",
    "TEACHER_REQUESTED", "TEACHER_RESPONSE_STORED", "COMMENT_VALIDATED",
    "REVISION_RUNNING", "REVISION_STORED", "REVISION_GRADED",
    "TRANSFER_RUNNING", "TRANSFER_STORED", "TRANSFER_GRADED",
    "MEMORY_DECIDED", "EXPOSURES_RECORDED", "ITEMS_RETIRED",
    "EPISODE_COMMITTED", Complete >>

DomainGeneralPath == <<
    Created, "DOMAIN_ITEMS_LEASED", "DOMAIN_STATE_FORKED",
    "DOMAIN_COLD_ATTEMPT_STORED", "DOMAIN_COLD_VERIFIED",
    "DOMAIN_TEACHER_STORED", "DOMAIN_REVISION_VERIFIED",
    "DOMAIN_TRANSFER_VERIFIED", "DOMAIN_MEMORY_DECIDED",
    "DOMAIN_EPISODE_COMMITTED", Complete >>

Stages == UNION {{path[i] : i \in DOMAIN path} : path \in Paths}

\* _NEXT: from a stage to its successors on any of the paths.
Moves == UNION {{<<path[i], path[i + 1]>> : i \in 1..(Len(path) - 1)} : path \in Paths}

\* ITEMS_LEASED and DOMAIN_ITEMS_LEASED: the stage that samples the corpus.
Sampling == {path[2] : path \in Paths}

\* A path starts in CREATED, ends in COMPLETE and repeats no stage.
IsPath(path) ==
    /\ path \in Seq(STRING)
    /\ Len(path) >= 3
    /\ path[1] = Created
    /\ \A i \in 1..Len(path) :
          /\ path[i] \notin {Retryable, Failed, Review, Absent}
          /\ path[i] = Complete <=> i = Len(path)
          /\ path[i] = Created <=> i = 1
          /\ \A j \in 1..Len(path) : path[i] = path[j] => i = j

ASSUME PathsAssumption == \A path \in Paths : IsPath(path)

ASSUME ConstantsAssumption ==
    /\ Paths # {}
    /\ StudentOf \in [Runs -> Students \union {NULL}]
    /\ NULL \notin Students /\ NULL \notin Tokens
    /\ Budget \in [Runs -> Nat]
    /\ Controlled \subseteq Runs
    /\ IdOf \in [Procs -> WorkerIds]
    /\ Matching \subseteq Procs
    /\ LeaseFor \in Nat \ {0}

-----------------------------------------------------------------------------
VARIABLES
    state,      \* run -> RunRow.state, or Absent
    retryFrom,  \* run -> payload.retry_from_state, or NULL
    retries,    \* run -> retry_count
    paused,     \* the paused runs
    active,     \* the runs whose active_student_id is set
    sampled,    \* the runs whose episode_id is set
    lease,      \* run -> lease columns, or NoLease
    older,      \* the order of updated_at: <<a, b>> when a was touched before b
    log,        \* run -> its RunTransitionRows, in sequence order
    beat,       \* worker id -> age of the heartbeat of an active WorkerRow
    current,    \* does the corpus still have the digest the executions bind?
    pc,         \* process -> where its supervisor loop stands
    seen,       \* process -> the worker ids its open transaction read as stale
    claim       \* process -> the ClaimedRun it holds in memory, or NULL

rowVars == <<state, retryFrom, retries, paused, active, sampled, lease, older, log>>
vars == <<rowVars, beat, current, pc, seen, claim>>

NoLease == [owner |-> NULL, token |-> NULL, left |-> 0]
NoBeat  == -1                   \* no WorkerRow, or one with status "stale"
MaxAge  == 2 * LeaseFor + 1     \* an age beyond the staleness bound

Leases   == [owner : WorkerIds, token : Tokens, left : 0..LeaseFor] \union {NoLease}
Claims   == [run : Runs, state : Stages \union {Retryable}, token : Tokens]
States   == Stages \union {Retryable, Failed, Review, Absent}

ASSUME NullAssumption == NULL \notin Claims

\* Every token that was handed out and is still written anywhere.
UsedTokens == {lease[r].token : r \in Runs} \union
              {claim[p].token : p \in {q \in Procs : claim[q] # NULL}}

Init ==
    /\ state     = [r \in Runs |-> Absent]
    /\ retryFrom = [r \in Runs |-> NULL]
    /\ retries   = [r \in Runs |-> 0]
    /\ paused = {} /\ active = {} /\ sampled = {}
    /\ lease = [r \in Runs |-> NoLease]
    /\ older = {}
    /\ log   = [r \in Runs |-> <<>>]
    /\ beat  = [w \in WorkerIds |-> NoBeat]
    /\ current = TRUE
    /\ pc    = [p \in Procs |-> "loop"]
    /\ seen  = [p \in Procs |-> {}]
    /\ claim = [p \in Procs |-> NULL]

-----------------------------------------------------------------------------
Exists(r) == state[r] # Absent

\* updated_at := now
Touch(r) ==
    older' = {e \in older : e[1] # r /\ e[2] # r}
             \union {<<q, r>> : q \in {x \in Runs : Exists(x) /\ x # r}}

CreateInOccupiedSlot(r) ==
    /\ ~Exists(r)
    /\ state' = [state EXCEPT ![r] = Created]
    /\ active' = IF StudentOf[r] = NULL THEN active ELSE active \union {r}
    /\ Touch(r)
    /\ UNCHANGED <<retryFrom, retries, paused, sampled, lease, log,
                   beat, current, pc, seen, claim>>

\* RunStore.create.  A run whose id exists, or whose student already has an
\* active run, changes nothing: create then returns the existing run.
Create(r) ==
    /\ ~Exists(r)
    /\ StudentOf[r] # NULL => \A q \in active : StudentOf[q] # StudentOf[r]
    /\ state' = [state EXCEPT ![r] = Created]
    /\ active' = IF StudentOf[r] = NULL THEN active ELSE active \union {r}
    /\ Touch(r)
    /\ UNCHANGED <<retryFrom, retries, paused, sampled, lease, log,
                   beat, current, pc, seen, claim>>

SetPaused(r, flag) ==
    /\ Exists(r)
    /\ paused' = IF flag THEN paused \union {r} ELSE paused \ {r}
    /\ Touch(r)
    /\ UNCHANGED <<state, retryFrom, retries, active, sampled, lease, log,
                   beat, current, pc, seen, claim>>

Pause(r)  == SetPaused(r, TRUE)
Resume(r) == SetPaused(r, FALSE)

-----------------------------------------------------------------------------
(* claim_next and the transaction that opens every turn of the loop.       *)

StaleWithinTheLease == {w \in WorkerIds : beat[w] >= LeaseFor \div 2}
StaleIds == {w \in WorkerIds : beat[w] > 2 * LeaseFor}

\* recover_stale_workers reads the stale worker rows, and locks none of them.
Survey(p) ==
    /\ pc[p] = "loop"
    /\ seen' = [seen EXCEPT ![p] = StaleIds]
    /\ pc' = [pc EXCEPT ![p] = "poll"]
    /\ UNCHANGED <<rowVars, beat, current, claim>>

\* The leases of the workers read as stale are cleared, as the rows are now and
\* whatever the heartbeats have become.  A lease in late was granted after the
\* clearing and before the commit (bound: it is still live at the commit).
Recovered(p, late) == [r \in Runs |->
    IF lease[r].owner \in seen[p] /\ r \notin late THEN NoLease ELSE lease[r]]

GrantedMeanwhile(p) == {r \in Runs : lease[r].owner \in seen[p] /\ lease[r].left > 0}

SampledOrLater(r) ==
    \/ state[r] \notin {Created, Retryable}
    \/ state[r] = Retryable /\ retryFrom[r] # Created

Admitted(p, r) ==
    \/ r \notin Controlled
    \/ p \in Matching /\ current
    \/ p \in Matching /\ SampledOrLater(r) /\ r \in sampled

ClaimableOnceReleased(p, r, rows) ==
    /\ Exists(r) /\ state[r] \notin Terminal
    /\ r \notin paused
    /\ Admitted(p, r)
    /\ rows[r] = NoLease

Claimable(p, r, rows) ==
    /\ Exists(r) /\ state[r] \notin Terminal
    /\ r \notin paused
    /\ Admitted(p, r)
    /\ rows[r].left = 0             \* lease_expires_at null or <= now

AnyOf(S) == S

\* The query's first row by updated_at.
Oldest(S) == {r \in S : \A q \in S : <<q, r>> \notin older}

\* Every worker read as stale is marked so, and the process's own row is fresh.
Heartbeat(p) == [w \in WorkerIds |->
    IF w = IdOf[p] THEN 0 ELSE IF w \in seen[p] THEN NoBeat ELSE beat[w]]

Poll(p) ==
    /\ pc[p] = "poll"
    /\ beat' = Heartbeat(p)
    /\ seen' = [seen EXCEPT ![p] = {}]
    /\ \E late \in SUBSET GrantedMeanwhile(p) :
          LET rows == Recovered(p, late)
              candidates == {r \in Runs : Claimable(p, r, rows)} IN
          \/ /\ candidates = {}
             /\ lease' = rows
             /\ pc' = [pc EXCEPT ![p] = "loop"]
             /\ UNCHANGED <<older, claim>>
          \/ \E r \in Oldest(candidates), t \in Tokens \ UsedTokens :
             /\ lease' = [rows EXCEPT ![r] =
                            [owner |-> IdOf[p], token |-> t, left |-> LeaseFor]]
             /\ Touch(r)
             /\ claim' = [claim EXCEPT ![p] = [run |-> r, state |-> state[r], token |-> t]]
             /\ pc' = [pc EXCEPT ![p] = IF state[r] = Retryable THEN "resume" ELSE "handle"]
    /\ UNCHANGED <<state, retryFrom, retries, paused, active, sampled, log, current>>

-----------------------------------------------------------------------------
(* transition, and the three transactions that end in it.                  *)

HoldsSomeLease(p) == lease[claim[p].run] # NoLease

\* "run lease is missing or stale": the row no longer carries the token.
Holds(p) == lease[claim[p].run].token = claim[p].token

ValidTransition(r, to) ==
    /\ state[r] \notin Terminal
    /\ \/ to \in {Retryable, Failed, Review}
       \/ state[r] = Retryable /\ to = retryFrom[r]
       \/ state[r] # Retryable /\ <<state[r], to>> \in Moves

\* RunStore.transition on a row found by its token.
Transition(r, to) ==
    /\ ValidTransition(r, to)
    /\ state' = [state EXCEPT ![r] = to]
    /\ active' = IF to \in Terminal THEN active \ {r} ELSE active
    /\ log' = [log EXCEPT ![r] = Append(@, [from |-> state[r], to |-> to])]
    /\ lease' = [lease EXCEPT ![r] = NoLease]
    /\ Touch(r)

Goto(p, where) == /\ pc' = [pc EXCEPT ![p] = where]
                  /\ claim' = [claim EXCEPT ![p] = IF where = "fail" THEN @ ELSE NULL]
                  /\ seen' = [seen EXCEPT ![p] = {}]

CommitWithoutEpisode(p) ==
    LET r == claim[p].run IN
    /\ pc[p] = "handle" /\ Holds(p)
    /\ \E to \in Stages \union {Review} :
          /\ to = Review \/ <<claim[p].state, to>> \in Moves
          /\ Transition(r, to)
    /\ Goto(p, "loop")
    /\ UNCHANGED <<sampled, retryFrom, retries, paused, beat, current>>

\* The handler returned to_state; its stage, or review, is committed.
Commit(p) ==
    LET r == claim[p].run IN
    /\ pc[p] = "handle" /\ Holds(p)
    /\ \E to \in Stages \union {Review} :
          /\ to = Review \/ <<claim[p].state, to>> \in Moves
          /\ Transition(r, to)
          /\ sampled' = IF to \in Sampling THEN sampled \union {r} ELSE sampled
    /\ Goto(p, "loop")
    /\ UNCHANGED <<retryFrom, retries, paused, beat, current>>

\* The handler raised, or the commit did: it must when the lease is gone
\* (InvalidTransitionError).  The loop's except clause turns to fail.
Raise(p) ==
    /\ pc[p] = "handle"
    /\ Goto(p, "fail")
    /\ UNCHANGED <<rowVars, beat, current>>

\* RunStore.fail; whether the error is retryable is the error's attribute.
Fail(p) ==
    LET r == claim[p].run IN
    /\ pc[p] = "fail" /\ Holds(p)
    /\ retries' = [retries EXCEPT ![r] = @ + 1]
    /\ retryFrom' = [retryFrom EXCEPT ![r] = state[r]]
    /\ \E retryable \in BOOLEAN :
          Transition(r, IF retryable /\ retries[r] + 1 <= Budget[r]
                        THEN Retryable ELSE Failed)
    /\ Goto(p, "loop")
    /\ UNCHANGED <<paused, sampled, beat, current>>

\* RunStore.resume_retry for a claimed FAILED_RETRYABLE run.
ResumeRetry(p) ==
    LET r == claim[p].run IN
    /\ pc[p] = "resume" /\ Holds(p)
    /\ state[r] = Retryable
    /\ Transition(r, retryFrom[r])
    /\ Goto(p, "loop")
    /\ UNCHANGED <<retryFrom, retries, paused, sampled, beat, current>>

\* fail and resume_retry raise when the lease is gone, outside any handler:
\* the exception leaves run() and the process ends.
Die(p) ==
    /\ pc[p] \in {"fail", "resume"} /\ ~Holds(p)
    /\ Goto(p, "down")
    /\ UNCHANGED <<rowVars, beat, current>>

-----------------------------------------------------------------------------
(* The environment: crashes and restarts, the corpus, and time.            *)

Crash(p) ==
    /\ pc[p] # "down"
    /\ Goto(p, "down")
    /\ UNCHANGED <<rowVars, beat, current>>

Restart(p) ==
    /\ pc[p] = "down"
    /\ Goto(p, "loop")
    /\ UNCHANGED <<rowVars, beat, current>>

\* Items of the pool are registered, retired or quarantined: the digest that
\* compatible_execution_digests computes starts, or stops, to match.
CorpusChanges ==
    /\ Controlled # {}              \* bound: no other run looks at it
    /\ current' = ~current
    /\ UNCHANGED <<rowVars, beat, pc, seen, claim>>

Tick ==
    /\ lease' = [r \in Runs |->
          [lease[r] EXCEPT !.left = IF @ > 0 THEN @ - 1 ELSE 0]]
    /\ beat' = [w \in WorkerIds |->
          IF beat[w] \in 0..(MaxAge - 1) THEN beat[w] + 1 ELSE beat[w]]
    /\ UNCHANGED <<state, retryFrom, retries, paused, active, sampled, older, log,
                   current, pc, seen, claim>>

Work(p) == Commit(p) \/ Raise(p) \/ Fail(p) \/ ResumeRetry(p) \/ Die(p)

Next ==
    \/ \E r \in Runs : Create(r) \/ Pause(r) \/ Resume(r)
    \/ \E p \in Procs : Survey(p) \/ Poll(p) \/ Work(p) \/ Crash(p) \/ Restart(p)
    \/ CorpusChanges
    \/ Tick

Spec == Init /\ [][Next]_vars

\* A process that died is restarted, and is not killed for ever before its
\* first transaction, nor in it; every handler call ends; clocks advance.
Fairness ==
    /\ \A p \in Procs : SF_vars(Survey(p)) /\ SF_vars(Poll(p))
    /\ \A p \in Procs : WF_vars(Work(p)) /\ WF_vars(Restart(p))
    /\ WF_vars(Tick)

\* Not every attempt is slower than its lease, interrupted or failing.
SomeAttemptSucceeds ==
    \A p \in Procs : SF_vars(Commit(p)) /\ SF_vars(ResumeRetry(p))

FairSpec == Spec /\ Fairness

-----------------------------------------------------------------------------
(* Safety.                                                                 *)

TypeOK ==
    /\ state \in [Runs -> States]
    /\ retryFrom \in [Runs -> Stages \union {Retryable, NULL}]
    /\ retries \in [Runs -> Nat]
    /\ paused \subseteq Runs /\ active \subseteq Runs /\ sampled \subseteq Runs
    /\ lease \in [Runs -> Leases]
    /\ older \subseteq Runs \X Runs
    /\ log \in [Runs -> Seq([from : States, to : States])]
    /\ beat \in [WorkerIds -> {NoBeat} \union 0..MaxAge]
    /\ current \in BOOLEAN
    /\ pc \in [Procs -> {"loop", "poll", "handle", "resume", "fail", "down"}]
    /\ seen \in [Procs -> SUBSET WorkerIds]
    /\ claim \in [Procs -> Claims \union {NULL}]

\* A student has at most one run that is not yet terminal, and exactly the
\* runs that are not terminal occupy their student's slot (active_student_id).
OneActiveRunPerStudent ==
    /\ \A q, r \in active : StudentOf[q] = StudentOf[r] => q = r
    /\ \A r \in Runs : r \in active <=>
          StudentOf[r] # NULL /\ Exists(r) /\ state[r] \notin Terminal

\* A process whose token is still on the row works from the row's present
\* state: no commit, failure or resumption is decided on a stale snapshot,
\* and no two processes hold one run.
ClaimFresh ==
    \A p \in Procs : claim[p] # NULL /\ Holds(p) =>
        /\ state[claim[p].run] = claim[p].state
        /\ pc[p] = "resume" <=> claim[p].state = Retryable
        /\ \A q \in Procs \ {p} : claim[q] # NULL => claim[q].token # claim[p].token

\* The owner of a live lease has a heartbeat at least as young as the claim, so
\* no recovery reads it as stale; or a recovery that had read its row before the
\* claim has marked the row stale since (recover_stale_workers writes without
\* looking again), and then no recovery reads it at all.
LiveLeaseHasHeartbeat ==
    \A r \in Runs : lease[r].left > 0 =>
        \/ beat[lease[r].owner] = NoBeat
        \/ beat[lease[r].owner] + lease[r].left <= LeaseFor

\* A retryable failure remembers a stage of the run's path to resume at,
\* never a failure or a terminal state, and its retries are within budget.
RetryPointIsAStage ==
    \A r \in Runs : state[r] = Retryable =>
        /\ retryFrom[r] \in Stages \ {Complete}
        /\ retries[r] \in 1..Budget[r]

\* A sampled run keeps its episode: a controlled run that has left CREATED
\* can be claimed by every matching process whatever the corpus has become.
SampledRunsContinue ==
    \A r \in Runs : state[r] \notin Terminal \union {Absent} /\ SampledOrLater(r) =>
        \A p \in Matching : Admitted(p, r)

\* The transition rows are one line of history from the creation of the run to
\* the state its row has now.
HistoryReplays ==
    \A r \in Runs :
        /\ \A i \in 1..Len(log[r]) :
              log[r][i].from = (IF i = 1 THEN Created ELSE log[r][i - 1].to)
        /\ Exists(r) => state[r] = (IF log[r] = <<>> THEN Created ELSE log[r][Len(log[r])].to)
        /\ ~Exists(r) => log[r] = <<>>

-----------------------------------------------------------------------------
(* What a step may never do.                                               *)

\* A run's state changes only by its creation or under the token its row
\* carries, by a process that read that very state when it claimed the run.
ChangesAreFenced ==
    [][\A r \in Runs : state'[r] # state[r] /\ Exists(r) =>
          \E p \in Procs : /\ claim[p] # NULL /\ claim'[p] = NULL
                           /\ claim[p].run = r
                           /\ claim[p].token = lease[r].token
                           /\ claim[p].state = state[r]]_vars

\* A live lease ends with a transition of its holder or by running out, or it is
\* cleared by a recovery that was under way when it was granted: no recovery finds
\* the owner of a live lease stale, and only one that had found the owner stale
\* clears its lease.  Nothing else takes a run from a worker whose lease is live.
LiveLeaseIsExclusive ==
    [][\A r \in Runs : lease[r].left > 0 =>
          /\ \A p \in Procs : lease[r].owner \notin seen'[p] \ seen[p]
          /\ lease'[r].token # lease[r].token =>
                \/ state'[r] # state[r]
                \/ \E p \in Procs : /\ lease[r].owner \in seen[p]
                                    /\ pc[p] = "poll" /\ pc'[p] # pc[p]
                                    /\ beat'[IdOf[p]] = 0]_vars

\* Pausing a run lets at most the action in flight finish: once its lease is
\* gone a paused run is neither moved nor taken up by anyone.
PausedRunsRest ==
    [][\A r \in paused : Exists(r) /\ lease[r] = NoLease =>
          state'[r] = state[r] /\ lease'[r] = NoLease]_vars

-----------------------------------------------------------------------------
(* Liveness.                                                               *)

\* No run starves behind another: once operators leave a run alone it is
\* claimed again and again until it ends, though processes crash at any time
\* and a run that always crashes its worker never spends a retry.
EveryRunIsServed ==
    \A r \in Runs \ Controlled :
        <>[][~Pause(r) /\ ~Resume(r)]_vars =>
            []<>(\/ ~Exists(r) \/ state[r] \in Terminal \/ r \in paused
                 \/ \E p \in Procs : claim[p] # NULL /\ claim[p].run = r /\ Holds(p))

\* A run that is left unpaused ends, unless every attempt at its work fails.
EveryRunEnds ==
    SomeAttemptSucceeds =>
        \A r \in Runs \ Controlled :
            <>[](Exists(r) /\ r \notin paused) => <>(state[r] \in Terminal)

-----------------------------------------------------------------------------
(* Refinement.                                                             *)

\* A retryable failure, and its resumption, are no progress: the run is still
\* at the stage it will resume at.
Progress == [r \in Runs |-> IF state[r] = Retryable THEN retryFrom[r] ELSE state[r]]

Lifecycle == INSTANCE RunLifecycle WITH stage <- Progress

\* Under crashes, lease expiry, stale recovery, retries and pauses the table
\* still shows every run walking its stages once, in order, to one end.
ImplementsLifecycle == Lifecycle!Spec
=============================================================================
