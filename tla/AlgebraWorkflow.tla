--------------------------- MODULE AlgebraWorkflow ---------------------------
(***************************************************************************)
(* The algebra workflow (padawan/domains/algebra/workflow.py), which a      *)
(* deployment for the algebra domain runs in the place of the domain        *)
(* workflow, on the same stores and under the same supervisor.              *)
(*                                                                         *)
(* It differs where a stage is repeated.  An attempt is made anew with the  *)
(* time of day in it, so that EpisodeStore refuses the second one; a grade  *)
(* has a random id, of which the store keeps the first and the payload      *)
(* names the last; a memory decision is not unique in the ledger; and the   *)
(* retirement of the items is a stage before the commit of the episode.     *)
(***************************************************************************)
EXTENDS DevelopmentalWorkflow

CONSTANTS
    Domains,        \* the domains a deployment may serve
    MaxLessons      \* bound: lessons that one run may come to write

ASSUME DomainAssumption ==
    Domains \subseteq {"general", "algebra"} /\ MaxLessons \in Nat \ {0}

VARIABLES
    domain,     \* PADAWAN_DOMAIN_ID of the deployment
    misnamed    \* run -> the stages whose grades its payload names wrongly

algebraVars == <<vars, domain, misnamed>>

AlgebraPath == <<"CREATED", "ITEMS_LEASED", "BASE_STATE_SNAPSHOTTED", "BRANCHES_CREATED",
    "COLD_ATTEMPT_RUNNING", "COLD_ATTEMPT_STORED", "COLD_GRADED", "TEACHER_REQUESTED",
    "TEACHER_RESPONSE_STORED", "COMMENT_VALIDATED", "REVISION_RUNNING", "REVISION_STORED",
    "REVISION_GRADED", "TRANSFER_RUNNING", "TRANSFER_STORED", "TRANSFER_GRADED",
    "MEMORY_DECIDED", "EXPOSURES_RECORDED", "ITEMS_RETIRED", "EPISODE_COMMITTED", "COMPLETE">>

AlgebraRecalling == <<"COLD_ATTEMPT_RUNNING", "TEACHER_REQUESTED",
                      "REVISION_RUNNING", "TRANSFER_RUNNING">>

Student == {"COLD_ATTEMPT_RUNNING", "REVISION_RUNNING", "TRANSFER_RUNNING"}
Grading == {"COLD_ATTEMPT_STORED", "REVISION_STORED", "TRANSFER_STORED"}

\* The handlers that only log an event or name the next request.
Markers == {"ITEMS_LEASED", "BRANCHES_CREATED", "COLD_GRADED", "TEACHER_RESPONSE_STORED",
    "COMMENT_VALIDATED", "REVISION_GRADED", "EXPOSURES_RECORDED", "EPISODE_COMMITTED"}

AlgebraInit ==
    /\ Init
    /\ domain \in Domains
    /\ misnamed = [r \in Runs |-> {}]

-----------------------------------------------------------------------------
NamesRightly(w, S) == misnamed[Run(w)] \intersect S = {}

\* The next stage, with the grade in the payload that this handler made.
AlgebraCommitStage(w) ==
    /\ \/ At(w, "ready")    /\ CommitTo(w, After(AlgebraPath, job[w].stage)) /\ UNCHANGED misnamed
       \/ At(w, "review")   /\ CommitTo(w, "REVIEW_REQUIRED") /\ UNCHANGED misnamed
       \/ At(w, "misnamed") /\ CommitTo(w, After(AlgebraPath, job[w].stage))
          /\ misnamed' = [misnamed EXCEPT ![Run(w)] = @ \union {job[w].stage}]

AlgebraLeaseItems(w) == LeaseItems(w) /\ UNCHANGED misnamed

Mark(w) ==
    /\ \E s \in Markers : Enters(w, s)
    /\ Goto(w, "ready")
    /\ UNCHANGED <<corpusVars, storeVars, runVars, misnamed>>

CreateBranches(w) ==
    Enters(w, "BASE_STATE_SNAPSHOTTED") /\ Fork(w) /\ UNCHANGED misnamed

\* _run_teacher loads the cold grade that the payload names before it asks.
AlgebraRetrieve(w) ==
    /\ \E o \in Occasions :
          /\ Enters(w, AlgebraRecalling[o])
          /\ IF job[w].stage = "TEACHER_REQUESTED" /\ ~NamesRightly(w, Grading)
             THEN Refuse(w) ELSE Retrieve(w, o)
    /\ UNCHANGED misnamed

\* _persist_student_exposures: all of them, or none.
ExposeAll(w, items, answer) ==
    IF \A i \in items : Corpus!Owns(job[w].token, i)
    THEN /\ exposures' = exposures \union {Corpus!Exposed(job[w].token, i, answer) : i \in items}
         /\ Goto(w, "exposed")
         /\ UNCHANGED <<status, lease, grant, contaminated, storeVars, runVars>>
    ELSE Refuse(w)

RunCold(w) ==
    /\ Recalls(w, "COLD_ATTEMPT_RUNNING")
    /\ ExposeAll(w, {Cold(BlockOf(w))}, FALSE)
    /\ UNCHANGED misnamed

RunRevision(w) ==
    /\ Recalls(w, "REVISION_RUNNING")
    /\ ExposeAll(w, {Cold(BlockOf(w))}, TRUE)
    /\ UNCHANGED misnamed

RunTransfer(w) ==
    /\ Recalls(w, "TRANSFER_RUNNING")
    /\ ExposeAll(w, {Treated(BlockOf(w)), Control(BlockOf(w))}, FALSE)
    /\ UNCHANGED misnamed

AlgebraStoreAttempts(w) == At(w, "exposed") /\ StoreAttempts(w) /\ UNCHANGED misnamed

\* store_grade answers with the grade on record, and the handler goes on with
\* the one it has made.
StoreGrades(w) ==
    /\ Goto(w, IF job[w].stage \in stored[Run(w)] THEN "misnamed" ELSE "ready")
    /\ stored' = [stored EXCEPT ![Run(w)] = @ \union {job[w].stage}]
    /\ UNCHANGED <<corpusVars, taught, episode, blocks, lessons, recalled, decided, promoted,
                   runVars, misnamed>>

GradeCold(w)     == Enters(w, "COLD_ATTEMPT_STORED") /\ StoreGrades(w)
GradeRevision(w) == Enters(w, "REVISION_STORED") /\ StoreGrades(w)
GradeTransfer(w) == Enters(w, "TRANSFER_STORED") /\ StoreGrades(w)

AlgebraTeach(w) ==
    Recalls(w, "TEACHER_REQUESTED") /\ PersistTeaching(w) /\ UNCHANGED misnamed

\* Neither the proposal nor its event has an id of the run.
AlgebraDecideMemory(w) ==
    /\ Enters(w, "TRANSFER_GRADED")
    /\ IF ~NamesRightly(w, {"TRANSFER_STORED"}) THEN Refuse(w)
       ELSE /\ decided' = decided \union {Run(w)}
            /\ \E accepted \in {0, 1} :
                  /\ lessons[Run(w)] + accepted <= MaxLessons
                  /\ lessons' = [lessons EXCEPT ![Run(w)] = @ + accepted]
            /\ Goto(w, "ready")
            /\ UNCHANGED <<corpusVars, taught, episode, blocks, recalled, stored, promoted, runVars>>
    /\ UNCHANGED misnamed

RecordExposuresAndRetire(w) ==
    /\ Enters(w, "MEMORY_DECIDED")
    /\ IF OwnsBlock(w)
       THEN CloseExposures(w) /\ Goto(w, "ready") /\ UNCHANGED <<storeVars, runVars>>
       ELSE Refuse(w)
    /\ UNCHANGED misnamed

\* EpisodeStore.commit refuses to replace a completed episode by a later one,
\* though not a failed one.
AlgebraCommitEpisode(w) ==
    /\ Enters(w, "ITEMS_RETIRED")
    /\ IF NamesRightly(w, Grading) /\ episode[Run(w)].status # "complete"
       THEN Promote(w) /\ Goto(w, "ready") /\ UNCHANGED corpusVars
       ELSE Refuse(w)
    /\ UNCHANGED misnamed

AlgebraHandle(w) ==
    \/ AlgebraLeaseItems(w) \/ Mark(w) \/ CreateBranches(w) \/ AlgebraRetrieve(w)
    \/ RunCold(w) \/ RunRevision(w) \/ RunTransfer(w) \/ AlgebraStoreAttempts(w)
    \/ GradeCold(w) \/ GradeRevision(w) \/ GradeTransfer(w)
    \/ AlgebraTeach(w) \/ AlgebraDecideMemory(w)
    \/ RecordExposuresAndRetire(w) \/ AlgebraCommitEpisode(w) \/ AlgebraCommitStage(w)

\* Either workflow, according to the domain of the deployment.
WorkflowNext ==
    /\ \/ Supervise /\ UNCHANGED misnamed
       \/ \E w \in Workers :
             \/ domain = "general" /\ Handle(w) /\ UNCHANGED misnamed
             \/ domain = "algebra" /\ AlgebraHandle(w)
    /\ UNCHANGED domain

WorkflowSpec == AlgebraInit /\ [][WorkflowNext]_algebraVars

-----------------------------------------------------------------------------
(* Properties.                                                             *)

\* A lesson is consolidated at most once for a run of the domain workflow.
LessonWrittenOnce == domain = "general" => \A r \in Runs : lessons[r] <= 1

\* A closed episode is never reopened.  None that failed or went to review is
\* completed by a worker that comes late; but for one whose block was retired
\* before: by its own slow worker in the algebra workflow, or by another run
\* of the group where groups have room for two blocks.  And a completed one is
\* overwritten as failed only by the record of a failure that had found it
\* active, just before a slow worker completed it.
EpisodeStaysClosed ==
    [][/\ \A r \in Runs : episode[r] # NULL /\ episode[r].status # "active" =>
             /\ episode'[r].status # "active"
             /\ episode[r].status = "complete" =>
                   \/ episode'[r].status = "complete"
                   \/ \E w \in Workers : At(w, "failing") /\ Run(w) = r /\ job'[w] = NULL
             /\ episode'[r].status = "complete" =>
                   \/ episode[r].status = "complete"
                   \/ /\ domain = "algebra" \/ ~OneBlockPerGroup
                      /\ status[episode[r].item] = "retired"
       /\ \A w \in Workers : At(w, "failing")' /\ ~At(w, "failing") =>
             episode[Run(w)].status = "active"]_algebraVars

\* A completed episode has its whole group out of the inventory, whatever
\* became of the leases while it ran.
CompletedGroupRetired ==
    \A r \in Runs : episode[r] # NULL /\ episode[r].status = "complete" =>
        \A i \in Corpus!Siblings(episode[r].item) : status[i] = "retired"
=============================================================================
