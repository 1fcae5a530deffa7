---------------------------- MODULE MCEvaluation ----------------------------
(***************************************************************************)
(* Studies, their evaluation trials, the checkpoints judged by them and    *)
(* the training bundles compiled over one corpus: the composition, and an  *)
(* instance of it for TLC.                                                 *)
(***************************************************************************)
EXTENDS EvaluationScheduler, CheckpointRegistry, TrainingCompiler, TLC

CONSTANTS a1, a2, b1, gA, gB, f1, k1, k2, s1, st1, st2, c1, c2, x1, x2,
          y1, y2, d1, d2, m1, q1, q2, u1, u2

vars == <<schedulerVars, studyVars, registryVars, trainingVars>>

EvaluationInit == SchedulerInit /\ StudyInit /\ CheckpointInit /\ TrainingInit

TwoGroups == (a1 :> gA) @@ (a2 :> gA) @@ (b1 :> gB)
OneFamily == (gA :> f1) @@ (gB :> f1)

\* Both trials probe the same item, one for retention, one for interference.
OneStudy   == (k1 :> st1) @@ (k2 :> st1)
OneStudent == (k1 :> s1) @@ (k2 :> s1)
OneItem    == (k1 :> a1) @@ (k2 :> a1)
TwoSources == (k1 :> "retention") @@ (k2 :> "interference")

\* The baseline's block is bound by both studies, the candidate's by the second.
SharedBlock == (<<st1, c1>> :> {x1}) @@ (<<st1, c2>> :> {})
            @@ (<<st2, c1>> :> {x1}) @@ (<<st2, c2>> :> {x1, x2})
NoParents == (c1 :> NoRow) @@ (c2 :> c1)

\* Two answers to one prompt, one better; two versions of one text; two
\* continuations of a fork under different authorizations, one better.
BothOnA1   == (y1 :> a1) @@ (y2 :> a1)
OnePrompt  == (y1 :> "prompt") @@ (y2 :> "prompt")
Scores     == (y1 :> 0) @@ (y2 :> 1)
FitForAll  == (y1 :> AttemptLanes) @@ (y2 :> AttemptLanes)
OneContent == (d1 :> "text") @@ (d2 :> "text")
ShownOnA1  == (m1 :> a1)
Verdicts ==
    {[subject |-> a1, allowed |-> AttemptLanes, excluded |-> {}],
     [subject |-> y1, allowed |-> {"process"}, excluded |-> {"sft"}]}

OneInstance == (q1 :> "instance") @@ (q2 :> "instance")
TwoAuthorities == (q1 :> u1) @@ (q2 :> u2)
OneFork     == (q1 :> "fork") @@ (q2 :> "fork")
Returns     == (q1 :> 0) @@ (q2 :> 1)
TrainSplit  == (q1 :> "train") @@ (q2 :> "train")
TwoLaneSets == {{"trajectory", "fork_preference"}, LearningLanes}

\* SourceOf only tells trials apart, so they may be exchanged.
Interchangeable == Permutations(Tokens) \union Permutations(Trials)

-----------------------------------------------------------------------------
(* Bounds: one side of the composition at a time.                          *)

NoItems    == \A i \in Items : status[i] = "absent"
NoTrials   == /\ \A k \in Trials : trial[k].status = "absent"
              /\ study[st1] = "absent"
NoStudies  == /\ \A c \in Checkpoints : checkpoint[c] = "absent"
              /\ \A b \in PairedBlocks : outcome[b] = "none"
              /\ study[st2] = "absent"
NoAttempts == /\ \A a \in Attempts : attempted[a] = Never
              /\ \A m \in Demonstrations : demonstrated[m] = Never
              /\ verdicts = {}
NoSources  == admitted = <<>>
NoLearning == /\ \A r \in LearningRollouts : ended[r].at = Never /\ assessed[r] = Never
              /\ lapsed = {} /\ \A u \in Authorizations : Len(lifecycle[u]) = 1

Untaught == NoAttempts /\ NoSources /\ NoLearning /\ now = 0
Unjudged == NoTrials /\ NoStudies

\* While bundles are compiled there is one item, which may be under its first
\* lease, and of a side's rows at most one is written between or after
\* compilations, besides the authorizations' events.
OneItemOnly ==
    /\ status[a2] = "absent" /\ status[b1] = "absent" /\ exposures = {} /\ Locked = {}
    /\ Cardinality({t \in Tokens : grant[t] # NULL}) <= 1
    /\ lease[a1].token # NULL => lease[a1].left = LeaseFor

Late(stamps) == Cardinality({x \in DOMAIN stamps : stamps[x] \in 1..now})
LateRulings(d) == Cardinality({n \in DOMAIN rulingsOn[d] : rulingsOn[d][n].at > 0})
FewLateRows ==
    Late(attempted) + Late(graded) + Late(demonstrated) + Late(assessed)
    + Cardinality({v \in verdicts : v.at > 0}) + Cardinality({d \in rulings : d.at > 0})
    + Cardinality({r \in LearningRollouts : ended[r].at \in 1..now})
    + LateRulings(d1) + LateRulings(d2) <= 1

\* A taint matters on an active version only; the second version is decided on
\* once, and the first is never tainted.
FewDecisions ==
    /\ \A n \in DOMAIN rulingsOn[d1] : ~rulingsOn[d1][n].contaminated
    /\ Len(rulingsOn[d2]) <= 1
    /\ \A n \in DOMAIN rulingsOn[d2] :
          rulingsOn[d2][n].contaminated => rulingsOn[d2][n].status = "active"

\* The first authority stays; the second may lapse, be withdrawn, or be paused
\* first.  The first rollout ends, is assessed, and is then decided on for every
\* lane.
FewLearningEvents ==
    /\ Len(lifecycle[u1]) = 1 /\ u1 \notin lapsed
    /\ Len(lifecycle[u2]) = 3 => lifecycle[u2][2].to = "paused"
    /\ lapsed # {} => Len(lifecycle[u2]) = 1 \/ lifecycle[u2][2].to = "expired"
    /\ ended[q1].status # "abandoned"
    /\ assessed[q1] # Never => ended[q1].status = "complete" /\ ended[q1].at <= assessed[q1]
    /\ Cardinality(rulings) <= 2
    /\ \A d \in rulings : d.rollout = q1 => d.lanes = LearningLanes

\* Attempts and the demonstration on the item are not taken together, and the
\* worse attempt comes first.
EitherAttemptsOrShown ==
    /\ demonstrated[m1] = Never \/ \A a \in Attempts : attempted[a] = Never
    /\ attempted[y1] <= attempted[y2]

\* Trials run while the second group is not registered.
OneGroupOnTrial == status[b1] # "absent" => \A k \in Trials : trial[k].status = "absent"

OneSideAtATime ==
    \/ Untaught /\ (NoItems \/ (NoStudies /\ OneGroupOnTrial))
    \/ /\ Unjudged /\ OneItemOnly /\ FewLateRows
       /\ EitherAttemptsOrShown /\ FewDecisions /\ FewLearningEvents

-----------------------------------------------------------------------------
EvaluationNext ==
    \/ /\ Untaught
       /\ \/ SchedulerNext  /\ StampItems /\ UNCHANGED <<studyVars, registryVars>>
          \/ StudyNext      /\ UNCHANGED <<schedulerVars, registered, registryVars>>
          \/ CheckpointNext /\ UNCHANGED <<schedulerVars, registered, studyVars>>
       /\ UNCHANGED <<materialVars, learningVars, compilerVars>>
    \/ /\ Unjudged
       /\ \/ /\ ~Untaught /\ ~NoItems /\ Next /\ StampItems
             /\ UNCHANGED <<trial, materialVars, learningVars, compilerVars>>
          \/ /\ NoSources /\ NoLearning /\ AttemptNext
             /\ UNCHANGED <<schedulerVars, registered, learningVars, compilerVars>>
          \/ /\ NoItems /\ NoLearning /\ NoAttempts /\ SourceNext
             /\ UNCHANGED <<schedulerVars, registered, learningVars, compilerVars>>
          \/ /\ NoItems /\ NoSources /\ NoAttempts /\ LearningNext
             /\ UNCHANGED <<schedulerVars, registered, materialVars, compilerVars>>
          \/ /\ CompilerNext
             /\ UNCHANGED <<schedulerVars, registered, materialVars, learningVars>>
       /\ UNCHANGED <<studyVars, registryVars>>

EvaluationSpec == EvaluationInit /\ [][EvaluationNext]_vars
=============================================================================
