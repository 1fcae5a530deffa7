# Formal models of Padawan

Padawan runs developmental experiments on language-model students: a run leases
items of a governed corpus, lets the student attempt them cold, has a teacher
comment, measures revision and transfer, consolidates a lesson, and promotes a new
canonical student state. Beside these runs it has governed process rollouts (PPRL),
evaluation studies and checkpoints, the Capability Atlas and an Interaction Lab. All of
it is durable in one database and shared by several processes. These TLA+ modules
describe the parts whose correctness depends on the order in which several actors do
things, or on where one of them dies.

Every definition is translated from the code under `padawan/`; `PROJECT.json`
("map") names the lines. `.cfg` files are runs for TLC; `*Proofs.tla` are checked by
TLAPS.

## 1. Inventory

| Part | State it keeps | Operations | What makes it hard | What makes it correct |
|---|---|---|---|---|
| Run store and supervisor (`orchestration/state_machine.py`, `supervisor.py`) | `RunRow` (stage, lease, retries, pause, student slot), transition rows, heartbeats | create, claim, transition, fail, resume_retry, pause, resume, heartbeat, stale recovery | leases expire under slow workers, crashes anywhere, stale recovery | changes are fenced by the claim; stages in order, once; one active run per student; no starvation |
| External calls (`orchestration/external_calls.py`, `temporal/telemetry.py`) | call row, response artifact, operation span | execute, stream_execute | I/O outside transactions, concurrent callers, late answers and errors, cancellation | one answer per request id; ledger and span agree; guarded effects are not repeated |
| Corpus registry (`corpus/registry.py`) | items with status and lease, exposures, contaminated families | register, lease, release, recover, expose, retire, quarantine | tokens used after expiry, groups versus items | leases only of what was granted; blocks whole |
| Domain and algebra workflows (`domains/developmental/`, `domains/algebra/workflow.py`, `episodes/store.py`) | episode, experiment block, attempts, grades, lessons, ledger events, canonical states | nine and twenty stage handlers, record_failure | a handler commits before its stage does, so stages repeat; slow workers | an episode ends as its run does; a student meets a group in one run; lineage is linear |
| State store, experiments, lessons, provenance, research controls | versions, blocks, lesson versions, a hash chain, execution bindings | fork, promote; assign, record; retrieve, write; append; admit | reused ids, promotion without comparing heads | ids are stable; a repeated write is the same write |
| Evaluation studies and scheduler (`studies/`) | studies, sealed results, trials with leases | create, transition, schedule, claim_due, complete, recover | shares item leases with the corpus registry; blocks recorded late | a completed trial held its item; sealed results stay what the blocks say |
| Checkpoint registry (`checkpoints/`) | status, evaluations, comparisons, decisions | register, evaluate, compare, finalize, quarantine, revoke | operators act while studies go on | a promotion can be recomputed |
| PPRL store, coordinator, generation (`pprl/store.py`, `coordinator.py`, `generation.py`) | rollouts, state heads, event chain, invocations | claim, observe, admit, start, generate, append, release | authority and lease can change during an effect | one effect per state; one line of events |
| PPRL resources and Amber (`pprl/resources.py`, `governance/`) | grants, reservations, charges; authorization heads, decisions | fund, reserve, start, settle, release, stop; transition, admit | races over one reservation | nothing beyond the grant unnoticed; every hold ends once |
| PPRL recovery and abandonment (`pprl/recovery.py`, `abandonment.py`) | receipts of reviewers | recover by evidence, abandon | the worker is not dead but slow | a started effect is never refunded |
| PPRL workers and broker (`pprl/worker_identities.py`, `worker_broker.py`, `observations.py`) | registrations, assignments, request receipts | enroll, issue, revoke; claim, observe, propose | requests delivered twice, credentials revoked in between | every lease is assigned; a retry is answered as before; old workers are fenced |
| PPRL containers (`pprl/containers.py`, `container_driver.py`, `container_supervisor.py`) | intents, heads, captures, receipts; the container itself | create, inspect, start, kill, remove, report, reconcile | the daemon answers late or after nobody waits | the effect happens once; receipts tell the truth |
| Capability Atlas (`atlas/`) | allocations, requests, results, snapshots, activation | allocate, request, retry, admit, dispatch, judge, record | counts taken before the intent is written; retries | within the reservation; scores are not inflated |
| Interaction Lab (`interaction/`) | sessions, consent, turns, traces, feedback | stream, seal, fail, delete, consent | consumers go away at any yield, deletion beside streaming | nothing personal comes back; consented evidence stays |
| Training compilers (`training/`, `rewards/engine.py`) | attempts, grades, eligibility, source documents and decisions, demonstrations; bundles, projections | append, decide, compile as of a moment, verify, project, read | records go on after a bundle; some are columns read as of now | a bundle that verifies can be compiled again; exclusions last; nothing is shown without authority |
| Artifact store, teaching, agent loop, verifiers, adapters, reporting, CLI, local host | little or nothing that is shared and changes | | data-heavy, sequential | see "Not modelled" |

A supervisor claims a run (run store), calls a workflow handler, which commits
transactions over the corpus, the episode and the other stores and calls providers through
the external call ledger; then the supervisor commits the stage. A process coordinator
claims a rollout, has an action admitted and funded, starts it, performs it through the call ledger or in
a container, and appends its event; enrolled workers reach the same steps through a broker.
The Lab and the Atlas controllers use the call ledger, evaluation trials the corpus
registry; the training compilers read what all of them left behind. `PROJECT.json` lists every component with its status, and the hazards at
their lines.

## 2. Modules

An action is one database transaction, or one step of the outside world that the code waits
for. A transaction that decides on rows it read without a lock is split where others can commit in
between, as they can on PostgreSQL, which `docs/operations.md` takes for production: reading stale workers (`Survey`, `Poll`),
retiring a group (`ReadSiblings`, `Retire`), recording a failure (`BeginFailure`, `RecordFailure`), serving a worker's
request (`Receive` and what follows). SQLite runs such a transaction on one snapshot, which is the case in
which nothing happens between the two. Instants are kept as what the code compares with them. A rejected
transaction changes nothing and is left out, unless the code goes on after it.

| Module | Extends or instantiates | Models |
|---|---|---|
| `RunStore` | `RunLifecycle` as what it implements | the run table and the supervisor's loop |
| `ExternalCall` | | one call ledger and its callers |
| `CorpusRegistry` | | the item inventory |
| `DevelopmentalWorkflow` | instance of `CorpusRegistry` | the domain workflow |
| `AlgebraWorkflow` | extends `DevelopmentalWorkflow` | the algebra workflow, or the domain one |
| `StudyEngine` | | studies and blocks |
| `EvaluationScheduler` | extends `CorpusRegistry`, `StudyEngine` | evaluation trials |
| `CheckpointRegistry` | extends `StudyEngine` | checkpoints |
| `EvidenceClock` | | the stamps compilations read by |
| `ProcessLearning` | extends `EvidenceClock` | what finished rollouts may teach |
| `TrainingProducts` | extends `CorpusRegistry`, `EvidenceClock` | what attempts, documents and demonstrations may teach |
| `TrainingCompiler` | extends the last two | bundles, verification, projections |
| `AtlasTrials` | extends `ExternalCall` | the trials of one Atlas run |
| `InteractionLab` | extends `ExternalCall` | conversations |
| `ProcessRollout` | | rollouts, coordinator, Amber, resources, recovery |
| `ProcessWorkers` | | enrolled workers and the broker |
| `ProcessContainers` | `EffectLifecycle` as what it implements | the container of one action |
| `MC*` | the above | instances and bounds for TLC |

### RunStore, RunLifecycle

`Survey` and `Poll` are the transaction at the top of the loop: the rows of stale workers are read;
then they are marked and their leases cleared, admissible executions computed, a run claimed, the own
heartbeat written. A worker that polls between the two loses the lease it has just been given, or keeps it
(`GrantedMeanwhile`) under a row marked stale. `Commit`, `Fail` and `ResumeRetry` are those that
end in `RunStore.transition`; `Create`, `Pause`, `Resume` are the operators'
calls. `Raise` is an exception in the handler or its commit, `Die` the exception of `fail` or
`resume_retry` when the lease is gone, which leaves the loop.

| Variable | Code |
|---|---|
| `state`, `retries`, `paused`, `lease`, `log` | `RunRow.state`, `retry_count`, `paused`, the lease columns, `RunTransitionRow`s |
| `retryFrom`, `active`, `sampled` | `payload["retry_from_state"]`, `active_student_id` is set, `episode_id` is set |
| `seen` | the rows `recover_stale_workers` has read in an open transaction |
| `older`, `beat` | the order of `updated_at`, the age of `WorkerRow.heartbeat_at` |
| `current` | does `research_corpus_digest` equal the one the executions bind |
| `pc`, `claim` | the loop's position, the `ClaimedRun` in memory |

A lease token is a fresh UUID: any token not written anywhere. PostgreSQL's `SKIP LOCKED`
hides rows of transactions in flight, and the claim here is one step. Of a lease granted between clearing and
commit it is a bound that it is live at the commit. `RunLifecycle` is what the
table promises its callers: a run walks its stages one move at a time, may be given up, then
rests; a student has one open run. `Progress` maps a retryable failure to the stage it resumes at.

### ExternalCall, InteractionLab, AtlasTrials

One execution of a request id by a caller: `Intend`, `Replay`, `Redo` are the outcomes of the
intent transaction, `Dispatch` and `Answer` the provider's side, `Store`, `ProviderError`,
`Cancel`, `OtherError` the closing transactions, with the status rule of
`OperationTelemetryStore.transition` as `Close`. `OwnerOf` says which rules a request is under:
a run's, a process rollout's, Atlas's or a Lab stream's. The n-th dispatch is answered n:
providers do not repeat themselves.

`InteractionLab` adds the sessions, their consent and feedback, and `stream_generation` around
the call: prepare under the consent of the moment, turn and trace, the streamed call, sealing, and
the failure path, with the consumer leaving at each yield (`Disconnect`), and deletion and
consent changes at any time.

`AtlasTrials` adds the registry of one run (allocations, requests, results, one complete
snapshot), the activation that admits generations by counting pending calls, and controllers whose
workers pick a request, execute it, judge it and record the outcome. Fixed and adaptive runs
differ in what an allocation discloses. `MCCalls` composes both on one ledger.

### CorpusRegistry, StudyEngine, EvaluationScheduler, CheckpointRegistry

`grant` is what the lease calls returned: a caller may present a token at any later time. PostgreSQL gives every
item of a block its own token (`corpus/registry.py:397`): a token here names the leasing call and is presented with one
item. `retiring` is what a retirement has read of its group and not yet written: it locks its own item, the
others can be leased, released, recovered or quarantined meanwhile, and a row that it found without a lease keeps
the one it was given since. The choice among
eligible items or groups is left open; anchors, difficulty and competency filters, which only
narrow it, are left out. The scheduler's trials lease an item of the same inventory under the same token
and clock, recovered by either component. `StudyEngine` has the blocks, whose outcome is recorded
once, and the sealing of results; `CheckpointRegistry` evaluates, compares and decides on
them.

### EvidenceClock, ProcessLearning, TrainingProducts, TrainingCompiler

Rows that compilations read are only appended, with a `created_at`; what matters of it is between which
compilations the row was written, which is its stamp. `attempted`, `graded`, `verdicts`
(`TrainingEligibilityRow`), `admitted` and `rulingsOn` (source documents and their decisions) and
`demonstrated` are the developmental side, with the status and taint of items from `CorpusRegistry`,
which bear no moment. `ended`, `assessed`, `rulings` and `lifecycle` are rollouts, outcomes, eligibility and Amber
events; `lapsed` are authorizations whose time is over, which no record says. `Rows(t)` is what
`compile` writes as of `t`, `SnapshotDigest(t)` what its manifest binds and `verify` rebuilds. A bundle
keeps, of its exclusion ledger, what no later record undoes. A projection is collected again at
every read (`Collect`); `Readable` is whether the read would answer. `MCEvaluation` composes all of it with
studies, trials and checkpoints over one corpus.

### DevelopmentalWorkflow, AlgebraWorkflow

They keep `episode`, `blocks` (`ExperimentBlockRow` by its id), `lessons`, `recalled`
(retrieval decisions), `decided` (the memory event), `stored` (attempts and grades), `promoted` (canonical
states in order). Each handler is split where the code commits. `job` is the action in a worker's hands;
a worker whose claim was taken over goes on until its commit or failure is refused. A block's items are leased under
tokens of their own and given up together by `_release_item_leases` (`ReleaseBlock`). A failure is recorded in two steps:
the episode is found active, and then overwritten by what was read (`EpisodeStore.commit` locks the row and does
not read it again), also when a slow worker has completed it. A retirement at the end of an episode is one step,
in which the leases that other runs get or lose meanwhile are left open (`CloseExposures`). The
claim protocol is RunStore's, abstracted: a claim can be taken over at any time, a retryable failure
leaves the stage. `Faulty` says whether providers and authorities fail of themselves. The
algebra workflow runs on the same stores and differs where a stage is repeated: attempts carry
the time, grades random ids, and the items are retired in a stage of their own.

### ProcessRollout, ProcessWorkers, ProcessContainers, EffectLifecycle

`ProcessRollout` has all rollouts of one authorization, which share its funding. A worker's turn of
`ProcessCoordinator.run` is a sequence of transactions with planner, provider or tool calls
between them; `workers[w].at` is the place between two.

| Place | Transaction that leads on | Code |
|---|---|---|
| `idle` | `ClaimNext` | `claim_next`, `observe_claim` |
| `planning` | `Admit` | `AmberStore.admit`, `reserve` |
| `decided` | `Refuse` or `Start` | `bind_decision`, then `release_claim` or `start` |
| `acting` (tool) | `AppendEvent` charges the hold in full | `append_event`, `settle_event` |
| `acting` (model) | `Intend`, `Dispatch`, `Answer`, `Reconcile`, `AdmitOutput`, then `AppendEvent` | `ProcessGenerationExecutor._execute` |
| `broken` | `MarkTerminal` | `_mark_terminal` |
| `failing` | `ReleaseFailed` | the coordinator's exception path |
| any | `Raise`, `Crash` | exception, time-out; kill, cancellation |

`claims` numbers the lease tokens, `account` is the last resource event, `decisions` the
admissions with their reservation, invocation, call and event. Reviewers act beside the worker:
`ReleaseUnstarted`, `ReconcileModel`, recovery by what it finds pending (`RecoverClear`,
`RecoverUnstarted`, `RecoverCompleted`, `RecoverUnknown`), `Abandon`. A report beyond the
ledger's integers is the charge `NULL`: the account stops and the hold stays.

`ProcessWorkers` has the enrolled execution: `registrations`, leases that are assignments,
`receipts` of requests, and brokers in `flights`, each of which reads the clock, looks for a reply on record,
waits for the rollout's row, and does the rest in one transaction. The reply is judged as of that clock
(`worker_broker.py:246`, `283`): a flight keeps the authorization it could see and whether the observation had been
shown (`Outdated`). Funding is ProcessRollout's.

`ProcessContainers` looks into one admitted action. `execs` is where an execution stands, with
its `ContainerRunEvidence`; `machines` is the container and what the daemon was asked and has not
done yet; `captures` is the artifact store, `execs[x].captured` the list in memory. Every
command can be given up and carried out nevertheless (`DoneUnseen`), and every step can be cut by failure, cancellation
or loss. The coordinator, operators and reviewers (`StartAction`, `MoveAuthority`, `ReleaseHold`,
`RecoverAction`, `AbandonAction`) do not wait for it. `EffectLifecycle` is what is promised of an action: announced and paid
for before it happens, once; charged because it happened, given back only before it was announced. Model actions,
whose effect is a provider's call, implement it too (`ModelActionsImplement`).

## 3. Runs

Bounds are named in the modules and set in the `.cfg` files.

| Run | Instance | Shows |
|---|---|---|
| `store` | 2 runs of 1 student, one controlled and retried once; 2 supervisors with own ids, one matching; 3 tokens, lease of 1 tick | the student slot, fencing, exclusion but for a recovery under way, controlled runs continue, the lifecycle is implemented |
| `served` | 2 runs, 1 supervisor, no retry, fair | no starvation; runs end |
| `calls` | a run's and a process's request, 2 Lab turns of one session, 2 Atlas trials with 1 retry; 2 callers, 2 dispatches each, 2 controllers, activations of 1 and 2 | one answer, no repeated effect; complete deletion, evidence stays; reservation, outcomes, scores, snapshots |
| `studies` | 3 items in 2 groups, 2 trials and a run, 2 tokens; 2 studies, 2 checkpoints, 2 blocks; 2 attempts, a demonstration, 2 versions of a document, 2 rollouts of one fork, 2 compilations, 1 projection | leases, trials, sealed results, promotions; bundles, exclusions, projections |
| `episodes` | either workflow; 2 runs of 1 student, 2 workers, 2 groups of 3 (`OneBlockPerGroup`), 2 tokens | whole blocks, outcomes, exposures, lessons, lineage, retirement, closed episodes |
| `restart` | either workflow; 1 run, 1 worker, nothing fails but by a crash | violation: a restart does not recover |
| `block` | 2 students with one seed, 1 worker | violation: the group of a failed run is not usable |
| `rollouts` | 2 rollouts, 2 workers, grant of 3 with 1 slot, holds of 1 charged 0, 2 or beyond; 3 claims, 2 decisions, 4 transitions | funding, one effect per state, abandonment, no refund |
| `workers` | 2 rollouts, 2 workers (1 registered at a time), 2 brokers, 2 request ids, 2 records, 2 leases, 1 decision, 2 transitions; beside it one action with 2 executors | assignments, observations, retries, fencing; receipts, one effect |
| `envelope` | 2 trials of an Atlas run without a retry | violation: a request more than the envelope |
| `sealed` | 1 turn | violation: a sealed trace is overwritten |
| `reopened` | 2 documents, 3 decisions each | violation: a quarantined document is active again |

Why these bounds suffice to see the interesting cases. Two workers are enough for every race on
one claim, since a third would only repeat the role of the one that lost it; three tokens are one for the
row and one for each worker's memory. A lease of one tick can be live and expired, and the
staleness bound (twice the lease) is within the ages kept. The model paths of `store` part after CREATED and join in
COMPLETE as the program's do; that the program's own paths are of the kind the theorems assume is
evaluated in `MCRunStore`. In `rollouts` two openings and two actions want more than the grant, so
capacity and slots both refuse, and four transitions let the authority be paused and
activated again. In `workers` two records let one proposal be observed, repeated and refused. In
`calls` an activation of 1 makes two controllers contend, one of 2 lets them run beside each other. In
`studies` two compilations are one before and one after a change, read as of the same moment or of a later one,
and each authority has room to be paused and then withdrawn or resumed.

Constraints keep the runs small, and each leaves out combinations only:

* `SecondRunInBrief` (store): the student's second run follows one path, and neither fails nor ends; `SecondInBrief`
  (episodes): a run after a finished one is in one worker's hands, and on the algebra path is
  followed until it has its items. `UntilBothEnd` (episodes): nothing is explored once both
  runs have ended; slow workers are met beside a run that is still open.
* `OneSideAtATime` (calls, studies, workers): parts that share tables but no rows are explored while the
  others have not begun: Lab, Atlas and other calls; trials, checkpoints and each kind of training
  material; brokers and containers.
* `OneItemOnly`, `FewLateRows`, `FewDecisions`, `FewLearningEvents`, `EitherAttemptsOrShown`,
  `OneGroupOnTrial` (studies): while bundles are compiled there is one item, one row is written
  between or after compilations besides the events of authorizations, and one of the two
  authorizations stays as it is.
* `AloneOrShort` (rollouts): a rollout alone goes to the bounds, two have two claims and two
  transitions. `OneWorkerAtATime`, `OneTrouble`, `DenialsEnd` (workers): two brokers at work serve one worker,
  one request of it or two claims; revocation, expiry and a second rollout are explored under the first
  authorization; what follows a denial is what follows the loss of the broker.

Symmetry is used on tokens, workers, callers, runs, trials and request ids that the properties do not tell apart,
never where liveness is checked. `CHECK_DEADLOCK FALSE` stands where everything may have
ended or a bound is spent: `calls`, `sealed`, `envelope`, `rollouts`.

Every property is paired in `PROJECT.json` with a mutated form of a definition, the bug it
catches; these stand before the definition they mutate.

### What the violations say

* `restart`: handlers commit before their stage, and some cannot be repeated. The first is the leasing
  stage: the group leased before the crash is still leased, another is chosen, and the episode
  refuses it. On the algebra path a repeated student stage makes another attempt of the same id.
* `block`: block ids do not name the student, and the seed has one default.
* `envelope`: an initial request is not counted against the retries admitted before it.
* `reopened`: a review undoes a quarantine, since a decision is compared with the latest one only.
* `sealed`: a consumer that leaves at the last update makes `_seal_failure` overwrite a completed turn.

More was met while modelling. The exceptions in `LiveLeaseIsExclusive`, `LeasesMatchGrants`, `EpisodeStaysClosed` and
`RetriesAreAnswered` are behaviours of the code between an unlocked read and the write: a worker can lose a lease just
granted; a retired row can keep a lease, and when that is an evaluation trial's, its completion or recovery makes the row active
again; a completed episode can be recorded as failed, which `EpisodeStore.commit` means to refuse ("completed episode cannot be
replaced", `episodes/store.py:245`) and would, did it read the row it locks again; and a worker can be denied a reply that is on record.
The properties say that nothing else can. Two are hazards without a property. A capture that was committed but not yet
listed in memory when the execution is cut makes recovery refuse the receipt for ever (`pprl/containers.py:622`); and an
event that took its time before an abandonment and its lock after it makes the abandonment unreadable (`pprl/abandonment.py:268`).
The models have the first as a guard of `RecoverAction`; the second is about times, which they do not keep.

### Fairness

`RunStore!Fairness`: `SF(Survey)` and `SF(Poll)` since a worker is restarted whenever it ends (operations.md's
crash recovery procedure) and is not killed for ever before its first transaction; `WF(Work)`
since handlers end: providers have time-outs; `WF(Restart)`, `WF(Tick)`. A worker may crash
during every single action, so `EveryRunIsServed` says a run is *claimed* again and again.
That a run *ends* needs more: `EveryRunEnds` assumes in its own statement that not every attempt fails
(`SomeAttemptSucceeds`). Both are about runs without research controls, whose admission is
up to operators. Elsewhere the code promises no progress without an operator, and none is claimed.

## 4. Proofs

The `*Proofs` modules prove, for every value of the constants that satisfies the named
assumptions, the results in `PROJECT.json` "theorems". The assumptions are only about
constants: what paths look like (`PathsAssumption`), that counts are numbers, maps are
maps and there are finitely many rollouts (`ConstantsAssumption`, `CallAssumption`, `ProcessAssumption`, `CorpusAssumption`,
`GrantAssumption`, `StudyAssumption`, `ParentAssumption`, `SchedulerAssumption`,
`TrialAssumption`, `LabAssumption`, `WorkersAssumption`, `ProductsAssumption`,
`LearningAssumption`, `ClockAssumption`, `CompilerAssumption`, `WorkflowAssumption`), and that `NULL` is none of the
things it stands beside. TLC evaluates each of them on the instances. Every inductive
invariant was checked by TLC before it was proved.

| Module | Specification | States for every instance |
|---|---|---|
| `RunStoreProofs` | `RunStore!Spec` | slots, fencing, exclusion, sampled runs, `ImplementsLifecycle` |
| `CallProofs` | `ExternalCall!Spec`, `LabSpec`, `AtlasSpec` | one answer, no repeated effect, ledger and span agree; deletion and evidence; reservation, outcomes, scores, snapshots |
| `CorpusRegistryProofs` | `CorpusRegistry!Spec` | leases match grants |
| `WorkflowProofs` | `AlgebraWorkflow!WorkflowSpec` | blocks stay whole, groups seen in one run, outcomes, lineage, retirement, lessons, closed episodes |
| `EvaluationProofs` | `StudySpec`, `JudgedSpec`, `SchedulerSpec`, `TrainingSpec` | sealed results; promotions; trials, and the inventory beside them; bundles recompile, exclusions last, projections keep authority and minima |
| `ProcessRolloutProofs` | `ProcessRollout!Spec` | funding conserved, one effect per state, line of events, abandonment, no refund, model actions as `EffectLifecycle` |
| `ProcessWorkersProofs` | `ProcessWorkers!Spec` | assigned leases, observations, retries, fencing |
| `ProcessContainersProofs` | `ContainerSpec` | receipts, `ImplementsEffect` |

*RunStore.* `ClaimFresh` is not inductive: a claim whose token reappears on a row could be any old
one. The invariant `Inv` adds that a token written in a claim and on a row names the same run
and stage, that no two claims have one token (claims take tokens outside `UsedTokens`), and
that active runs are the open runs with a student. `SampledRunsContinue` needs that a run beyond
CREATED has sampled its corpus (`SampledOnce`). For exclusion, `LiveLeaseHasHeartbeat` says that the owner of a live
lease has a young heartbeat or was marked stale by a recovery that had read its row before: either way no later
recovery reads it as stale. Fencing and the refinement follow step by step from
`Inv`; `ImplementsLifecycle` needs that the stage a retry resumes at is one. That the
transition rows lead from creation to the row's state (`HistoryReplays`) is proved over
sequences, with no filter.

*ExternalCall.* The invariant ties the answers callers were given, and the answers in flight, to
what is stored; for a process's or Atlas's request it says that at most one caller is
past the intent before the dispatch, which is what makes `EffectsHappenOnce` inductive.

*InteractionLab.* The invariant of the ledger does not hold here: a deletion takes call rows away
while answers were given from them. `LabInv` keeps what survives a deletion (`Tables`: status, span
and response appear together; `NothingNew`: no call writes a row that is gone) and says where the
Lab is in the ledger: `Streaming`, the call of a worker is pending while it streams; `Belong`, a
call belongs to a trace and a trace to a conversation that is there; `Forgotten`, a deleted
conversation has nothing left. `DeletionIsComplete` is the last of them and is not inductive without
the others, since what could write a row back is a stream that was under way.

*AtlasTrials.* `AtlasInv` has two halves. `ControlInv` is the ledger's invariant, preserved here by
every controller and by their loss, with `Working` (a worker's call is pending while it is out
and completed while it is judged, and no call exists before the run is bound) and `Reserved` (the pending
calls fit the activation). The property speaks of workers, the guard counts rows; that two workers
never stand behind one row is the ledger's `OneSender`, and `ReservationStands` counts by an
injection. `RegistryInv` says that attempts are numbered without gaps and all but the last are lost
(`Chained`), that a disclosed result was recorded (`Disclosed`), that results follow the ledger (`Judged`) and
that after a snapshot nothing can be added (`Counted`). `Lasting`, that a call that is over stays as it is,
joins the halves. Attempts are ordered pairs, so that the latest one exists is proved with them.

*CorpusRegistry.* `CorpusInv` says whose a lease is (`Matched`), of a retired row too, and what a retirement between its
query and its writes can have read: rows of one group (`ReadingsTyped`), so that whatever it leaves a lease on had an
answer shown to its group. Tokens of grants are never taken again; everything else a caller may present at any time.

*Workflows.* One proof for both workflows, whose handlers are nearly all alike in what they do to the
invariant: `GeneralSteps` and `AlgebraSteps` show every action to be one of a few kinds of step (`StepOf`:
it leases, teaches, retires, completes, commits, fails or only moves on), and `WorkflowInv` is kept kind
by kind. The invariant has an inventory half, kept by every `InventoryStep`: a leased item is leased with the
rest of the block its token was granted (`LeasedTogether`). The other half says how far a run is, and what a
worker with an old claim may still do: a job's token is that of its run, its stage is one the run came to, and what the handlers
before it leave is there for good (`Reached`, `JobSound`); an episode that ended as failed or under review
has leases on retired rows at most, so that no slow worker completes it unless its group was retired before (`EpisodeSound`), and a
failure that was begun is that of a run failed for good (`JobSound`). `CanonicalLineage` needs that an open run is its student's only one and still
starts from the head (`HeadsCurrent`), but after a run promoted by a slow worker. `Monotone` collects what no
step takes back; jobs of other workers are sound after a step because of it.
`GroupSeenInOneRun` has a hypothesis the other theorems do without, `OneBlockPerGroup`: a group has no room
for two blocks, so that by counting (`NoRoomBeside`) whoever leases it leases it alone. The corpus
commands make groups of two or three unless the operator sets `--siblings-per-group` (`cli/app.py:785`). With
six, TLC finds the second run of a student on the other half of a group while a slow worker still shows it the first
half: the hypothesis is needed, and nothing in the code checks it.

*Evaluation.* `StudySpec`, `JudgedSpec` and `SchedulerSpec` are the parts of the composition that
`MCEvaluation` checks together, each with what it shares with the others. For studies the invariant
says that blocks of a complete study all have an outcome, so nothing they aggregate changes. For
promotions it says that a decision's comparison is on record and was between what the promotion needs. The
scheduler writes item rows without the registry's operations: `SchedulerInv` is `CorpusInv`, shown to be
kept by those writes too, with `Held`, that a running trial has its item on the same token
with the same time left.

*Training compilers.* `TrainingSpec` is the compilers over the inventory, without the scheduler's writes. Verification
compares records, while `VerifiedBundlesRecompile` is about rows, and item statuses are not read as of a stamp.
The invariant therefore says of every bundle which rows its own digest gives (`ReadFrom`): the rows as a function of
the items it was read with (`MaterialFrom`) and of records with a stamp before it. The lemmas named `...Stand`
show, action by action, that nothing recorded now is among the records as of an earlier stamp;
`Reading` that a digest has the status of each item its rows depend on, which needs that what
cites an item is not older than it (`Cited`). For `ExclusionsLast` the invariant keeps that what a bundle excludes is
excluded as of every later stamp (`Excludes`): items stay quarantined, families tainted, verdicts
on record, and an authority once withdrawn is withdrawn at each later event (`Governed`); `RowNotBarred` is the other
half, that no row is of what is excluded as of its own stamp, for pairs of attempts and forks too.
`ShownUnderAuthority` holds in every state, whatever was stored: a read collects anew, and it is the algorithm that
drops rows until the minima hold that is proved (`ReplicatedFacts`, `MoreReplicated`).

*ProcessRollout.* `OneEffectPerState` is about started actions of any age and is not inductive: what
prevents a second one is that a pending action blocks claims and admissions. `Inv` says that
pending actions stand at the head of their rollout (`PendingAtHead`) and are at most one
(`OneOpenAction`), that committed ones lie behind the head and form a line (`OneLineOfEvents`), that
a lease is only on an active rollout (`LeasesMarkActive`), that what workers remember points at
decisions of their rollout (`DecisionsKnown`), and that the holds of a rollout under review cannot
be given back under its abandonment (`ReviewedHoldsStay`). Two actions need an argument of their
own, `Admit`, which adds a pending action, and `AppendEvent`, which moves the head; every other
step is an `OrdinaryStep`: it moves decisions forward along their phases, opens none and leaves
sequences alone, and one lemma shows that such a step keeps each part of `Inv`.

`FundingConserved` compares three numbers that every transaction updates in place with sums over the whole journal.
What `SumFunctionOnSet` returns is a recursion over subsets, behind a CHOOSE, and the induction theorems of the
library cannot be instantiated here. The lemmas on sums therefore argue by a least counterexample:
`LeastNumber` takes it from the well-foundedness of the naturals, which is stated about sets; `SumsOfSmall` shows that
the recursion has a solution on the subsets of every size, `AnyOrder` that the order of summation is irrelevant,
`SumsAgree` that a sum depends on nothing outside its set; `SumWithout`, `SumSame` and `SumOfZeros` are what the rest
uses. They need that there are finitely many rollouts, which `ProcessAssumption` says. `FundingInv` adds to `Inv` that settled
entries are charged and that a rollout not created yet has opened with nothing. A step then leaves the money alone
but for what it holds (`MoneyStays`), ends one hold (`HoldEnds`, with or without a charge), opens a rollout or
admits an action. That settlement is by the entry's own phase, whoever settles, is what makes a second
settlement a `MoneyStays` step; that `Admit` compares held and charged together is where `Fits` is needed.

`ModelActionsImplement` maps every entry of the journal for a model action to `EffectLifecycle`: the invocation row is the
announcement, the answer in the call ledger the effect, the phase of the reservation the hold. `EffectInv` adds to `Inv` that
an entry has at most one worker at work, and what that worker can rely on at each place (`Stands`): from its start to the
answer the hold stays started, whatever reviewers do, since they release only reserved holds and charge only retained
answers. A step leaves the journal alone, appends an entry or touches one (`LeavesAlone`, `Appends`, `Touches`); only
the last moves a lifecycle. A tool's effect is its container, for which `ProcessContainers` does the same.

*ProcessWorkers.* `WorkersInv` has three parts: `Assigned`, a running lease is that of a claim for the worker it
names; `Decided`, a decision was taken under an observation on record; `Delivered`, a reply on
record is about an assignment of the worker it was given to, and a broker that is not at work serves
nobody. Assignments and receipts only grow, which is what lets `RetriesAreAnswered` speak of a
broker that looked before and denies after: the broker has the request's assignment checked before it looks again, and
that is the assignment of the reply (`Delivered`).

*ProcessContainers.* Its properties are about the container, the code knows only what its executor
remembers. `Inv` says that there is one intent (`OneIntent`), that what an executor remembers of attempt, start,
end and removal is true of the container whatever the daemon still has to do (`MemoryIsTrue`), and that the start
is paid for before it is asked for (`PaidInOrder`). `Implementation` shows each step to be one of
`EffectLifecycle` or a stutter; a reservation released under a paused authority is where it needs `OneIntent`.

Some proved results are not checked by a run of the project as well: that a paused run without a lease rests
(`PauseHolds`), that ledger and span agree (`LedgerAndSpanAgree`), `EventChain`, that a settled call
never changes (`SettledStays`), and `ModelActionsImplement`, since TLC evaluates no temporal formula for every decision;
its steps were checked as an action property before they were proved.

Only model-checked: the liveness properties `EveryRunIsServed` and `EveryRunEnds` (liveness under fairness and
ENABLED are out of the provers' reach). The properties of the violation runs do not hold.

## 5. Not modelled, and the plan

Not modelled: data-heavy sequential code (verifiers, statistics, campaign
construction, reporting, wire formats), whose correctness is about values and not about order;
operating-system processes; operations without a caller outside the tests (the artifact store's garbage
collection, a lesson's invalidation, outcome and rollback). Of the training compilers: compilations that abort as
a whole, the pools of sealed evaluations, checkpoint statuses (under the digest as item statuses are), policies and
gates, and the retention of artifacts. Within modelled components
`PROJECT.json` says what is left out.

What would add most next: forks of rollouts; the evidence records of the Atlas registry beyond a run's trials; instants in the PPRL records, for
what compares them.
