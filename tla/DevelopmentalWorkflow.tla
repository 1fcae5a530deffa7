------------------------ MODULE DevelopmentalWorkflow ------------------------
(***************************************************************************)
(* The domain developmental workflow                                       *)
(* (padawan/domains/developmental/workflow.py) over the corpus registry,   *)
(* the episode, experiment and state stores and the provenance ledger.     *)
(*                                                                         *)
(* A worker claims a run, and the handler of its stage commits one or more *)
(* transactions of its own; only then does the supervisor commit the run's *)
(* next stage, and only if the row still carries the worker's claim.  So a *)
(* stage may be repeated after a crash, and by two workers at once when a  *)
(* claim expires under a slow one.  RunStore models claims in detail; here *)
(* a claim can be taken over at any time, and a retried failure leaves the *)
(* stage as it is.                                                         *)
(*                                                                         *)
(* Stored grades, interventions and answers are first-write-wins on stable *)
(* ids (ExternalCall, EpisodeStore), so repeating those writes changes     *)
(* nothing; the model keeps the writes that are not like that.             *)
(***************************************************************************)
EXTENDS Integers, Sequences, FiniteSets, Functions

CONSTANTS Items, Groups, GroupOf, FamilyOf, Students, Tokens, Count, LeaseFor, NULL,
    Runs,           \* run ids, the owners of the leases
    StudentOf,      \* run -> student
    SeedOf,         \* run -> experiment_seed of its payload
    Workers,        \* supervisor processes
    Faulty          \* do providers and authorities fail of themselves?

Seeds == {SeedOf[r] : r \in Runs}

\* The block size of the workflow; NULL is no value of a column.
ASSUME WorkflowAssumption ==
    /\ Count = 3 /\ LeaseFor \in Nat \ {0} /\ IsFiniteSet(Items) /\ GroupOf \in [Items -> Groups]
    /\ StudentOf \in [Runs -> Students]
    /\ NULL \notin Tokens \union Workers \union {"accepted", "rejected"}
    /\ NULL \notin [status : {"active", "complete", "failed", "review_required"}, item : Items]
    /\ NULL \notin [owner : Runs, student : Students, items : SUBSET Items]

VARIABLES
    status, lease, grant, exposures, contaminated,      \* see CorpusRegistry
    stage,      \* run -> RunRow.state
    base,       \* run -> payload.state_id, as a position in promoted
    token,      \* run -> token of payload.leases, NULL before there are any
    holder,     \* run -> the worker whose claim its row carries, or NULL
    job,        \* worker -> the action in its hands, or NULL
    taught,     \* run -> what became of the teacher's persisted answers, or NULL
    episode,    \* run -> its EpisodeRow, or NULL
    blocks,     \* <<seed, group>> -> run of the ExperimentBlockRow, or NULL
    lessons,    \* run -> lessons written for it
    recalled,   \* run -> occasion -> the lessons its RetrievalDecisionRow saw
    decided,    \* the runs whose memory decision is in the ledger
    stored,     \* run -> the stages whose attempts or grades are in the store
    promoted    \* student -> the runs whose state became canonical, in order

corpusVars == <<status, lease, grant, exposures, contaminated>>
storeVars  == <<taught, episode, blocks, lessons, recalled, decided, stored, promoted>>
runVars    == <<stage, base, token, holder>>
vars       == <<corpusVars, storeVars, runVars, job>>

\* A retirement of the workflow is one step here: see CloseExposures.
Corpus == INSTANCE CorpusRegistry WITH Owners <- Runs, retiring <- [i \in Items |-> NULL]

Path == <<"CREATED", "DOMAIN_ITEMS_LEASED", "DOMAIN_STATE_FORKED",
          "DOMAIN_COLD_ATTEMPT_STORED", "DOMAIN_COLD_VERIFIED", "DOMAIN_TEACHER_STORED",
          "DOMAIN_REVISION_VERIFIED", "DOMAIN_TRANSFER_VERIFIED",
          "DOMAIN_MEMORY_DECIDED", "DOMAIN_EPISODE_COMMITTED", "COMPLETE">>

After(path, s) == LET i == CHOOSE k \in 1..(Len(path) - 1) : path[k] = s IN path[i + 1]
Stages   == {Path[k] : k \in 1..Len(Path)}
Terminal == {"COMPLETE", "FAILED_TERMINAL", "REVIEW_REQUIRED"}

\* What a worker holds: the claimed run and stage, the lease token of the
\* claimed payload or of the handler's result, and how far the handler is.
Jobs == [run : Runs, stage : Stages, token : Tokens \union {NULL},
         at : {"enter", "recalled", "half", "exposed", "made", "ready", "review", "refused",
               "record", "failing"}]

\* The stages that ask the lesson memory, in the order of Path.
Recalling == <<"DOMAIN_STATE_FORKED", "DOMAIN_COLD_VERIFIED",
               "DOMAIN_TEACHER_STORED", "DOMAIN_REVISION_VERIFIED">>
Occasions == 1..Len(Recalling)

Init ==
    /\ status = [i \in Items |-> "active"]
    /\ lease  = [i \in Items |-> Corpus!NoLease]
    /\ grant  = [t \in Tokens |-> NULL]
    /\ exposures = {} /\ contaminated = {}
    /\ stage = [r \in Runs |-> "ABSENT"]
    /\ base  = [r \in Runs |-> 0]
    /\ token = [r \in Runs |-> NULL]
    /\ holder = [r \in Runs |-> NULL]
    /\ job = [w \in Workers |-> NULL]
    /\ taught = [r \in Runs |-> NULL]
    /\ episode = [r \in Runs |-> NULL]
    /\ blocks = [b \in Seeds \X Groups |-> NULL]
    /\ lessons = [r \in Runs |-> 0]
    /\ recalled = [r \in Runs |-> [o \in Occasions |-> NULL]]
    /\ decided = {}
    /\ stored = [r \in Runs |-> {}]
    /\ promoted = [s \in Students |-> <<>>]

-----------------------------------------------------------------------------
(* The supervisor's transactions around a handler.                         *)

Open(r) == stage[r] \notin Terminal \union {"ABSENT"}

\* A run starts from its student's canonical state; a student has one at most.
Create(r) ==
    /\ stage[r] = "ABSENT"
    /\ \A q \in Runs : StudentOf[q] = StudentOf[r] => ~Open(q)
    /\ stage' = [stage EXCEPT ![r] = Path[1]]
    /\ base' = [base EXCEPT ![r] = Len(promoted[StudentOf[r]])]
    /\ UNCHANGED <<corpusVars, storeVars, token, holder, job>>

Claim(w, r) ==
    /\ job[w] = NULL /\ Open(r)
    /\ holder' = [holder EXCEPT ![r] = w]
    /\ job' = [job EXCEPT ![w] =
                  [run |-> r, stage |-> stage[r], token |-> token[r], at |-> "enter"]]
    /\ UNCHANGED <<corpusVars, storeVars, stage, base, token>>

Run(w)    == job[w].run
Holds(w)  == holder[Run(w)] = w
At(w, at) == job[w] # NULL /\ job[w].at = at
Enters(w, s) == At(w, "enter") /\ job[w].stage = s
Goto(w, at)  == job' = [job EXCEPT ![w].at = at]
Drops(w)     == job' = [job EXCEPT ![w] = NULL]

CommitTo(w, next) ==
    /\ Holds(w)
    /\ stage' = [stage EXCEPT ![Run(w)] = next]
    /\ token' = [token EXCEPT ![Run(w)] = job[w].token]
    /\ holder' = [holder EXCEPT ![Run(w)] = NULL]
    /\ Drops(w)
    /\ UNCHANGED <<corpusVars, storeVars, base>>

\* The handler returned: the next stage and the payload updates are committed.
CommitStage(w) ==
    \/ At(w, "ready")  /\ CommitTo(w, After(Path, job[w].stage))
    \/ At(w, "review") /\ CommitTo(w, "REVIEW_REQUIRED")

\* RunStore.fail.  Only a provider's failure may be retryable.
FailOf(w, retryable) ==
    /\ Holds(w)
    /\ holder' = [holder EXCEPT ![Run(w)] = NULL]
    /\ IF retryable THEN Drops(w) /\ UNCHANGED stage
       ELSE /\ stage' = [stage EXCEPT ![Run(w)] = "FAILED_TERMINAL"]
            /\ Goto(w, "record")
    /\ UNCHANGED <<corpusVars, storeVars, base, token>>

\* A provider or an authority failed in the middle of the handler, or the
\* handler met an error that no retry cures.
Fail(w) ==
    \/ /\ Faulty
       /\ \E at \in {"enter", "recalled", "half", "exposed", "made"} : At(w, at)
       /\ \E retryable \in BOOLEAN : FailOf(w, retryable)
    \/ At(w, "refused") /\ FailOf(w, FALSE)

\* Mutated forms of a definition stand before it: the bug each one plants must
\* break the property it is paired with.
ReleaseFirstToken(t) ==
    LET held == {i \in Items : Corpus!Owns(t, i)} IN
    /\ Corpus!Drop(IF held = {} THEN {} ELSE {CHOOSE i \in held : TRUE}, {"leased"}, "active")
    /\ UNCHANGED <<grant, exposures, contaminated>>

\* _release_item_leases: the items of all the payload's tokens, together.
ReleaseBlock(t) ==
    /\ Corpus!Drop({i \in Items : Corpus!Owns(t, i)}, {"leased"}, "active")
    /\ UNCHANGED <<grant, exposures, contaminated>>

BeginFailureOfAny(w) ==
    LET r == Run(w) IN
    /\ At(w, "record")
    /\ IF job[w].token # NULL /\ episode[r] # NULL THEN Goto(w, "failing") ELSE Drops(w)
    /\ UNCHANGED <<corpusVars, storeVars, runVars>>

\* record_failure, after the terminal failure is committed.  The episode is
\* read without a lock, and the transaction then waits for the rows that a
\* slow worker of the run may have locked.
BeginFailure(w) ==
    LET r == Run(w) IN
    /\ At(w, "record")
    /\ IF job[w].token # NULL /\ episode[r] # NULL /\ episode[r].status = "active"
       THEN Goto(w, "failing") ELSE Drops(w)
    /\ UNCHANGED <<corpusVars, storeVars, runVars>>

\* The leases of the claimed payload are released and the episode is closed:
\* EpisodeStore.commit locks its row, but judges the copy that was read.
RecordFailure(w) ==
    /\ At(w, "failing")
    /\ ReleaseBlock(job[w].token)
    /\ episode' = [episode EXCEPT ![Run(w)].status = "failed"]
    /\ Drops(w)
    /\ UNCHANGED <<taught, blocks, lessons, recalled, decided, stored, promoted, runVars>>

\* The process ends: killed, or by the StaleClaimError of a commit or a failure
\* that comes after the claim was taken over.
Crash(w) ==
    /\ job[w] # NULL
    /\ Drops(w)
    /\ UNCHANGED <<corpusVars, storeVars, runVars>>

-----------------------------------------------------------------------------
(* The handlers.                                                           *)

\* leases[0], leases[1], leases[2]: the block in the order of its item ids.
Cold(block)    == CHOOSE i \in block : TRUE
Treated(block) == CHOOSE i \in block \ {Cold(block)} : TRUE
Control(block) == CHOOSE i \in block \ {Cold(block), Treated(block)} : TRUE
BlockOf(w)     == grant[job[w].token].items

\* An error that no retry cures; the transaction is rolled back.
Refuse(w) == Goto(w, "refused") /\ UNCHANGED <<corpusVars, storeVars, runVars>>

\* EpisodeStore.create refuses an episode id that is bound to another item.
LeaseItems(w) ==
    LET r == Run(w)
        available == Corpus!Blocks(StudentOf[r])
        Fits(block) == episode[r] # NULL => episode[r].item = Cold(block)
    IN
    /\ Enters(w, "CREATED")
    /\ \/ \E block \in available, t \in Tokens :
            /\ Fits(block)
            /\ Corpus!Grant(r, StudentOf[r], block, t)
            /\ episode' = [episode EXCEPT ![r] =
                  IF @ = NULL THEN [status |-> "active", item |-> Cold(block)] ELSE @]
            /\ job' = [job EXCEPT ![w].token = t, ![w].at = "ready"]
            /\ UNCHANGED <<taught, blocks, lessons, recalled, decided, stored, promoted,
                   runVars>>
       \/ /\ available = {} \/ \E block \in available : ~Fits(block)
          /\ Refuse(w)

\* ExperimentEngine.create: block_id is a digest of seed, index and group, and
\* the table's primary key.
Fork(w) ==
    LET key == <<SeedOf[Run(w)], GroupOf[Cold(BlockOf(w))]>> IN
    IF blocks[key] \in {NULL, Run(w)}
    THEN /\ blocks' = [blocks EXCEPT ![key] = Run(w)]
         /\ Goto(w, "ready")
         /\ UNCHANGED <<corpusVars, taught, episode, lessons, recalled, decided, stored, promoted,
                   runVars>>
    ELSE Refuse(w)

ForkState(w) == Enters(w, "DOMAIN_ITEMS_LEASED") /\ Fork(w)

\* LessonMemory.retrieve, under an id of the request: its candidates are the
\* lessons of the competency, whoever they were written for, and a repetition
\* that finds others than the decision on record is refused.
Retrieve(w, o) ==
    LET r == Run(w)
        candidates == SumFunction(lessons) IN
    IF recalled[r][o] \in {NULL, candidates}
    THEN /\ recalled' = [recalled EXCEPT ![r][o] = candidates]
         /\ Goto(w, "recalled")
         /\ UNCHANGED <<corpusVars, taught, episode, blocks, lessons, decided, stored, promoted,
                        runVars>>
    ELSE Refuse(w)

RetrieveLessons(w) == \E o \in Occasions : Enters(w, Recalling[o]) /\ Retrieve(w, o)
Recalls(w, s)      == At(w, "recalled") /\ job[w].stage = s

\* _persist_exposure, in a transaction of its own before the student is called.
Expose(w, item, answer, next) ==
    IF Corpus!Owns(job[w].token, item)
    THEN /\ Corpus!RecordExposure(job[w].token, item, answer)
         /\ Goto(w, next)
         /\ UNCHANGED <<storeVars, runVars>>
    ELSE Refuse(w)

ExposeCold(w) ==
    Recalls(w, "DOMAIN_STATE_FORKED") /\ Expose(w, Cold(BlockOf(w)), FALSE, "exposed")

ExposeRevision(w) ==
    Recalls(w, "DOMAIN_TEACHER_STORED") /\ Expose(w, Cold(BlockOf(w)), TRUE, "exposed")

ExposeTransfer(w) ==
    \/ /\ Recalls(w, "DOMAIN_REVISION_VERIFIED")
       /\ Expose(w, Treated(BlockOf(w)), FALSE, "half")
    \/ At(w, "half") /\ Expose(w, Control(BlockOf(w)), FALSE, "exposed")

\* The provider's bytes are replayed, but an attempt made of them carries the
\* time of day, and EpisodeStore refuses a second one for the request.
StoreAttempts(w) ==
    IF job[w].stage \in stored[Run(w)] THEN Refuse(w)
    ELSE /\ stored' = [stored EXCEPT ![Run(w)] = @ \union {job[w].stage}]
         /\ Goto(w, "ready")
         /\ UNCHANGED <<corpusVars, taught, episode, blocks, lessons, recalled, decided, promoted,
                        runVars>>

\* So the handler looks for the stored attempt first, though in a transaction
\* of its own.
MakeAttempt(w) ==
    /\ At(w, "exposed")
    /\ Goto(w, IF job[w].stage \in stored[Run(w)] THEN "ready" ELSE "made")
    /\ UNCHANGED <<corpusVars, storeVars, runVars>>

StoreMade(w) == At(w, "made") /\ StoreAttempts(w)

\* A grade has the id of its attempt, and the transfer that of its run.
Verify(w) ==
    /\ Enters(w, "DOMAIN_COLD_ATTEMPT_STORED") \/ Enters(w, "DOMAIN_EPISODE_COMMITTED")
    /\ Goto(w, "ready")
    /\ UNCHANGED <<corpusVars, storeVars, runVars>>

PersistLeavesEpisode(w) ==
    LET r == Run(w) IN
    /\ \E outcome \in {"accepted", "rejected"} :
          taught[r] \in {NULL, outcome} /\ taught' = [taught EXCEPT ![r] = outcome]
    /\ IF taught'[r] = "accepted" THEN Goto(w, "ready") /\ UNCHANGED corpusVars
       ELSE ReleaseBlock(job[w].token) /\ Goto(w, "review")
    /\ UNCHANGED <<episode, blocks, lessons, recalled, decided, stored, promoted,
                   runVars>>

\* The teacher's answers are persisted, so a repetition meets the same ones.
PersistTeaching(w) ==
    LET r == Run(w) IN
    /\ \E outcome \in {"accepted", "rejected"} :
          taught[r] \in {NULL, outcome} /\ taught' = [taught EXCEPT ![r] = outcome]
    /\ IF taught'[r] = "accepted"
       THEN /\ Goto(w, "ready")
            /\ UNCHANGED <<corpusVars, episode>>
       ELSE /\ ReleaseBlock(job[w].token)
            /\ episode' = [episode EXCEPT ![r].status = "review_required"]
            /\ Goto(w, "review")
    /\ UNCHANGED <<blocks, lessons, recalled, decided, stored, promoted,
                   runVars>>

Teach(w) == Recalls(w, "DOMAIN_COLD_VERIFIED") /\ PersistTeaching(w)

DecideMemoryAgain(w) ==
    /\ Enters(w, "DOMAIN_TRANSFER_VERIFIED")
    /\ decided' = decided \union {Run(w)}
    /\ \E accepted \in {0, 1} : lessons' = [lessons EXCEPT ![Run(w)] = @ + accepted]
    /\ Goto(w, "ready")
    /\ UNCHANGED <<corpusVars, taught, episode, blocks, recalled, stored, promoted, runVars>>

\* A proposal has a random id: repeated, its event no longer matches the one
\* in the ledger, and the lesson is rolled back with it.
DecideMemory(w) ==
    /\ Enters(w, "DOMAIN_TRANSFER_VERIFIED")
    /\ IF Run(w) \in decided THEN Refuse(w)
       ELSE /\ decided' = decided \union {Run(w)}
            /\ \E accepted \in {0, 1} : lessons' = [lessons EXCEPT ![Run(w)] = @ + accepted]
            /\ Goto(w, "ready")
            /\ UNCHANGED <<corpusVars, taught, episode, blocks, recalled, stored, promoted, runVars>>

CloseItemsOnly(w) ==
    LET block == BlockOf(w) IN
    /\ exposures' = exposures \union
            {Corpus!Exposed(job[w].token, i, i = Cold(block)) : i \in block}
    /\ status' = [i \in Items |-> IF i = Cold(block) THEN "retired"
                                  ELSE IF i \in block THEN "active" ELSE status[i]]
    /\ lease' = [i \in Items |-> IF i \in block THEN Corpus!NoLease ELSE lease[i]]
    /\ UNCHANGED <<grant, contaminated>>

\* Exposures of the whole block, of which the cold item's bears an answer: the
\* two others are returned, and then all of the group that is in the inventory
\* is retired.  A lease that another run was granted after the query for these
\* rows survives on its row: which leases of the others end is left open.  A
\* cold item that was retired before, under such a lease, is not found.
CloseExposures(w) ==
    LET block == BlockOf(w)
        cold  == Cold(block)
        found == (block \ {cold}) \union
                 {i \in Corpus!Siblings(cold) : status[i] \in {"active", "leased"}} IN
    /\ exposures' = exposures \union
            {Corpus!Exposed(job[w].token, i, i = cold) : i \in block}
    /\ \E ended \in SUBSET (Corpus!Siblings(cold) \ block) :
          Corpus!RetireRows(found, (found \intersect block) \union ended)
    /\ UNCHANGED <<grant, contaminated>>

OwnsBlock(w) == \A i \in BlockOf(w) : Corpus!Owns(job[w].token, i)

\* append_state, promote_canonical and EpisodeStore.commit.
Promote(w) ==
    LET r == Run(w) IN
    /\ promoted' = [promoted EXCEPT ![StudentOf[r]] = Append(@, r)]
    /\ episode' = [episode EXCEPT ![r].status = "complete"]
    /\ UNCHANGED <<taught, blocks, lessons, recalled, decided, stored, runVars>>

CommitEpisodeUnleased(w) ==
    /\ Enters(w, "DOMAIN_MEMORY_DECIDED")
    /\ CloseExposures(w) /\ Promote(w) /\ Goto(w, "ready")

\* _close_exposures, the canonical state and the episode, in one transaction.
CommitEpisode(w) ==
    /\ Enters(w, "DOMAIN_MEMORY_DECIDED")
    /\ IF OwnsBlock(w) THEN CloseExposures(w) /\ Promote(w) /\ Goto(w, "ready")
       ELSE Refuse(w)

Handle(w) ==
    \/ LeaseItems(w) \/ ForkState(w) \/ RetrieveLessons(w) \/ ExposeCold(w) \/ Teach(w)
    \/ ExposeRevision(w) \/ ExposeTransfer(w) \/ MakeAttempt(w) \/ StoreMade(w)
    \/ Verify(w) \/ DecideMemory(w) \/ CommitEpisode(w) \/ CommitStage(w)

\* Item leases run out, while a run's claim may be taken over at any time.
Tick == Corpus!Tick /\ UNCHANGED <<storeVars, runVars, job>>

\* What no handler does.
Supervise ==
    \/ \E r \in Runs : Create(r)
    \/ \E w \in Workers :
          (\E r \in Runs : Claim(w, r)) \/ Fail(w) \/ BeginFailure(w) \/ RecordFailure(w)
          \/ Crash(w)
    \/ Tick

Next == Supervise \/ \E w \in Workers : Handle(w)

Spec == Init /\ [][Next]_vars

-----------------------------------------------------------------------------
(* Properties.                                                             *)

WorkflowTypeOK ==
    /\ Corpus!CorpusTypeOK
    /\ stage \in [Runs -> Stages \union Terminal \union {"ABSENT"}]
    /\ base \in [Runs -> Nat]
    /\ token \in [Runs -> Tokens \union {NULL}]
    /\ holder \in [Runs -> Workers \union {NULL}]
    /\ job \in [Workers -> Jobs \union {NULL}]
    /\ \A r \in Runs : episode[r] = NULL
          \/ /\ episode[r].status \in {"active", "complete", "failed", "review_required"}
             /\ episode[r].item \in Items
    /\ taught \in [Runs -> {NULL, "accepted", "rejected"}]
    /\ blocks \in [Seeds \X Groups -> Runs \union {NULL}]
    /\ lessons \in [Runs -> Nat] /\ decided \subseteq Runs
    /\ stored \in [Runs -> SUBSET Stages]
    /\ recalled \in [Runs -> [Occasions -> Nat \union {NULL}]]
    /\ promoted \in [Students -> Seq(Runs)]

\* The end of a run tells the end of its episode.
OutcomeMatchesEpisode ==
    \A r \in Runs :
        /\ stage[r] \in {"DOMAIN_EPISODE_COMMITTED", "EPISODE_COMMITTED", "COMPLETE"} =>
              episode[r].status = "complete"
        /\ stage[r] = "REVIEW_REQUIRED" => episode[r].status = "review_required"
        /\ episode[r] # NULL /\ episode[r].status = "failed" => stage[r] = "FAILED_TERMINAL"

\* No group has room for two blocks.  Generators make siblings_per_group items
\* of a group, two or three by default, but an operator may ask for more.
OneBlockPerGroup ==
    \A g \in Groups : Cardinality({i \in Items : GroupOf[i] = g}) < 2 * Count

\* Every item of a block has a token of its own, and yet the block is given up
\* as a whole: while its run holds one of its items, another is missing only if
\* the group was retired.
BlocksStayWhole ==
    \A t \in Tokens : grant[t] # NULL =>
        \A i, j \in grant[t].items :
            Corpus!Owns(t, i) /\ ~Corpus!Owns(t, j) => status[j] = "retired"

\* "every experimental item must be unseen": a student meets a group in one
\* run only, though its runs fail, lose their leases and are followed by others
\* while a slow worker still holds the first one's tokens.  It does not hold
\* of groups that have room for two blocks (OneBlockPerGroup).
GroupSeenInOneRun ==
    \A e, f \in exposures :
        e.student = f.student /\ GroupOf[e.item] = GroupOf[f.item] => e.owner = f.owner

\* Each canonical state descends from the one before it, unless a run was
\* failed for good and then promoted by a slow worker that still held it.
CanonicalLineage ==
    \A s \in Students : \A k \in 1..Len(promoted[s]) :
        \/ base[promoted[s][k]] = k - 1
        \/ \E j \in 1..k : stage[promoted[s][j]] = "FAILED_TERMINAL"

\* docs/operations.md:410: "Restarting a worker is the normal crash-recovery
\* procedure": without failures of others a run that had items to lease goes on.
RestartRecovers == ~Faulty => \A r \in Runs : stage[r] # "FAILED_TERMINAL"

\* docs/corpus-governance.md:44: "Other students may still use a prompt-only
\* group after a failed run": the failed run's block does not keep another
\* student's run that was leased the group from forking on it.
GroupUsableByOthers ==
    \A r, q \in Runs :
        /\ stage[r] = "DOMAIN_ITEMS_LEASED" /\ stage[q] = "FAILED_TERMINAL"
        /\ StudentOf[q] # StudentOf[r]
        => blocks[<<SeedOf[r], GroupOf[episode[r].item]>>] # q
=============================================================================
