-------------------------- MODULE EvaluationProofs --------------------------
(***************************************************************************)
(* Proofs about the evaluation of checkpoints and the compilation of       *)
(* training data over one inventory, for any studies, blocks, checkpoints, *)
(* trials, attempts, documents, demonstrations and rollouts.               *)
(*                                                                         *)
(* Sealed results and promotions stand (StudyEngine, CheckpointRegistry),  *)
(* and trials hold their items (EvaluationScheduler over the registry of   *)
(* CorpusRegistryProofs).  What a bundle excludes for good stays out, a    *)
(* bundle that verifies can be compiled again, and a projection that is    *)
(* shown keeps its authority and its minima (TrainingCompiler).            *)
(***************************************************************************)
EXTENDS CheckpointRegistry, EvaluationScheduler, TrainingCompiler, CorpusRegistryProofs,
        FiniteSetTheorems, SequenceTheorems

-----------------------------------------------------------------------------
(* Studies.                                                                *)

StudySpec == StudyInit /\ [][StudyNext]_studyVars

\* Once a study is complete, every block it counts has its outcome.
Finished(s) == \A c \in Checkpoints : \A b \in BlocksOf[<<s, c>>] : outcome[b] # "none"

StudyInv ==
    /\ StudyTypeOK
    /\ \A s \in Studies : study[s] = "complete" => Finished(s)
    /\ SealedResultsStand

LEMMA BoundBlocks ==
    ASSUME NEW s \in Studies, NEW c \in Checkpoints
    PROVE  BlocksOf[<<s, c>>] \subseteq PairedBlocks /\ IsFiniteSet(BlocksOf[<<s, c>>])
BY StudyAssumption, FS_Subset

LEMMA CountedIsNat ==
    ASSUME NEW B \in SUBSET PairedBlocks, NEW O
    PROVE  Counted(B, O) \in Nat /\ Cardinality(B) \in Nat
<1>1. IsFiniteSet(B) /\ IsFiniteSet({b \in B : outcome[b] \in O})
    BY StudyAssumption, FS_Subset
<1> QED BY <1>1, FS_CardinalityType DEF Counted

LEMMA AggregateTyped ==
    ASSUME NEW s \in Studies, NEW c \in Checkpoints
    PROVE  Aggregate(s, c) \in Results
BY BoundBlocks, CountedIsNat DEF Aggregate, Results

\* An aggregate depends on the outcomes of its own blocks only.
LEMMA AggregateStands ==
    ASSUME NEW s \in Studies, NEW c \in Checkpoints,
           \A b \in BlocksOf[<<s, c>>] : outcome'[b] = outcome[b]
    PROVE  Aggregate(s, c)' = Aggregate(s, c)
<1>1. \A O : Counted(BlocksOf[<<s, c>>], O)' = Counted(BlocksOf[<<s, c>>], O)
    BY DEF Counted
<1> QED BY <1>1 DEF Aggregate

LEMMA StudyInitInv == StudyInit => StudyInv
BY DEF StudyInit, StudyInv, StudyTypeOK, StudyStatuses, Finished, SealedResultsStand

\* The blocks of a finished study keep their outcomes, whatever is recorded.
LEMMA FinishedStands ==
    ASSUME StudyInv, [StudyNext]_studyVars, NEW s \in Studies, Finished(s)
    PROVE  /\ Finished(s)'
           /\ \A c \in Checkpoints : \A b \in BlocksOf[<<s, c>>] : outcome'[b] = outcome[b]
<1>1. outcome' = outcome \/ \E b \in PairedBlocks, o \in Outcomes : RecordBlock(b, o)
    BY Zenon DEF StudyNext, CreateStudy, TransitionStudy, studyVars
<1>2. CASE outcome' = outcome
    BY <1>2 DEF Finished
<1>3. ASSUME NEW b \in PairedBlocks, NEW o \in Outcomes, RecordBlock(b, o)
      PROVE  \A c \in Checkpoints : \A x \in BlocksOf[<<s, c>>] : outcome'[x] = outcome[x]
  <2>1. /\ outcome' = [outcome EXCEPT ![b] = o]
        /\ \A c \in Checkpoints : b \notin BlocksOf[<<s, c>>]
      BY <1>3 DEF RecordBlock, Finished
  <2> QED BY <2>1, BoundBlocks DEF StudyInv, StudyTypeOK
<1> QED BY <1>1, <1>2, <1>3 DEF Finished

\* A study's results are sealed when it completes, and only then.
LEMMA SealFacts ==
    ASSUME StudyInv, NEW s \in Studies, SealResults(s)
    PROVE  /\ Finished(s)
           /\ result' \in [Studies \X Checkpoints -> Results \union {NoRow}]
           /\ \A t \in Studies, c \in Checkpoints :
                 result'[<<t, c>>] = IF t = s /\ BlocksOf[<<t, c>>] # {} THEN Aggregate(t, c)
                                     ELSE result[<<t, c>>]
<1> DEFINE sealed(p) == IF p[1] = s /\ BlocksOf[p] # {} THEN Aggregate(s, p[2]) ELSE result[p]
<1>1. result' = [p \in Studies \X Checkpoints |-> sealed(p)]
    BY DEF SealResults, StudyInv, StudyTypeOK
<1>2. ASSUME NEW t \in Studies, NEW c \in Checkpoints
      PROVE  /\ sealed(<<t, c>>) = IF t = s /\ BlocksOf[<<t, c>>] # {} THEN Aggregate(t, c)
                                   ELSE result[<<t, c>>]
             /\ sealed(<<t, c>>) \in Results \union {NoRow}
    BY AggregateTyped DEF StudyInv, StudyTypeOK
<1>3. Finished(s)
    BY DEF SealResults, Unfinished, Finished
<1> HIDE DEF sealed
<1>4. \A p \in Studies \X Checkpoints : sealed(p) \in Results \union {NoRow}
    BY <1>2
<1> QED BY <1>1, <1>2, <1>3, <1>4

LEMMA StudyNextKeepsInv == StudyInv /\ [StudyNext]_studyVars => StudyInv'
<1> SUFFICES ASSUME StudyInv, [StudyNext]_studyVars
             PROVE  StudyInv'
    OBVIOUS
<1> USE DEF StudyInv
<1>1. ASSUME NEW s \in Studies, NEW to \in {"planned", "active"}, CreateStudy(s, to)
      PROVE  StudyInv'
  <2>1. /\ study[s] = "absent" /\ study' = [study EXCEPT ![s] = to]
        /\ UNCHANGED <<outcome, result>>
      BY <1>1 DEF CreateStudy
  <2>2. StudyTypeOK'
      BY <2>1 DEF StudyTypeOK, StudyStatuses
  <2>3. \A t \in Studies : study'[t] = "complete" <=> study[t] = "complete"
      BY <2>1 DEF StudyTypeOK
  <2>4. \A t \in Studies, c \in Checkpoints : Aggregate(t, c)' = Aggregate(t, c)
      BY <2>1, AggregateStands
  <2> QED BY <2>1, <2>2, <2>3, <2>4 DEF Finished, SealedResultsStand
<1>2. ASSUME NEW b \in PairedBlocks, NEW o \in Outcomes, RecordBlock(b, o)
      PROVE  StudyInv'
  <2>1. outcome' = [outcome EXCEPT ![b] = o] /\ UNCHANGED <<study, result>>
      BY <1>2 DEF RecordBlock
  <2>2. StudyTypeOK'
      BY <2>1 DEF StudyTypeOK
  <2>3. \A t \in Studies : study[t] = "complete" =>
            Finished(t)' /\ \A c \in Checkpoints : Aggregate(t, c)' = Aggregate(t, c)
      BY FinishedStands, AggregateStands
  <2> QED BY <2>1, <2>2, <2>3 DEF SealedResultsStand
<1>3. ASSUME NEW s \in Studies, NEW to \in StudyStatuses, TransitionStudy(s, to)
      PROVE  StudyInv'
  <2>1. /\ study[s] # "complete" /\ study' = [study EXCEPT ![s] = to]
        /\ IF to = "complete" THEN SealResults(s) ELSE UNCHANGED result
        /\ UNCHANGED outcome
      BY <1>3 DEF TransitionStudy, NextStudyStatuses
  <2>2. StudyTypeOK'
      BY <2>1, SealFacts DEF StudyTypeOK
  <2>3. \A t \in Studies, c \in Checkpoints : Aggregate(t, c)' = Aggregate(t, c)
      BY <2>1, AggregateStands
  <2>4. \A t \in Studies : Finished(t)' <=> Finished(t)
      BY <2>1 DEF Finished
  <2>5. \A t \in Studies : study'[t] = IF t = s THEN to ELSE study[t]
      BY <2>1 DEF StudyTypeOK
  <2>6. CASE to = "complete"
    <3>1. \A t \in Studies, c \in Checkpoints :
              result'[<<t, c>>] = IF t = s /\ BlocksOf[<<t, c>>] # {} THEN Aggregate(t, c)
                                  ELSE result[<<t, c>>]
        BY <2>1, <2>6, SealFacts
    <3>2. \A c \in Checkpoints : result[<<s, c>>] = NoRow
        BY <2>1 DEF SealedResultsStand
    <3>3. SealedResultsStand'
      <4> SUFFICES ASSUME NEW t \in Studies, NEW c \in Checkpoints
                   PROVE  result'[<<t, c>>] = IF study'[t] = "complete" /\ BlocksOf[<<t, c>>] # {}
                                              THEN Aggregate(t, c)' ELSE NoRow
          BY DEF SealedResultsStand
      <4>1. CASE t = s
          BY <2>3, <2>5, <2>6, <3>1, <3>2, <4>1
      <4>2. CASE t # s
          BY <2>3, <2>5, <3>1, <4>2 DEF SealedResultsStand
      <4> QED BY <4>1, <4>2
    <3> QED BY <2>1, <2>2, <2>4, <2>5, <2>6, <3>3, SealFacts
  <2>7. CASE to # "complete"
      BY <2>1, <2>2, <2>3, <2>4, <2>5, <2>7 DEF SealedResultsStand
  <2> QED BY <2>6, <2>7
<1>4. CASE UNCHANGED studyVars
  <2>1. UNCHANGED <<study, outcome, result>>
      BY <1>4 DEF studyVars
  <2>2. \A t \in Studies, c \in Checkpoints : Aggregate(t, c)' = Aggregate(t, c)
      BY <2>1, AggregateStands
  <2> QED BY <2>1, <2>2 DEF StudyTypeOK, Finished, SealedResultsStand
<1> QED BY <1>1, <1>2, <1>3, <1>4 DEF StudyNext

\* The sealed results of a study are what its blocks say, then and ever after.
THEOREM ResultsStand == StudySpec => []SealedResultsStand
<1>1. StudySpec => []StudyInv
    BY StudyInitInv, StudyNextKeepsInv, PTL DEF StudySpec
<1> QED BY <1>1, PTL DEF StudyInv

-----------------------------------------------------------------------------
(* Checkpoints, while the studies go on.                                   *)

JudgedVars == <<studyVars, registryVars>>

JudgedNext == \/ StudyNext /\ UNCHANGED registryVars
              \/ CheckpointNext /\ UNCHANGED studyVars

JudgedSpec == StudyInit /\ CheckpointInit /\ [][JudgedNext]_JudgedVars

Decision == [from : Statuses, to : Statuses, comparison : Comparisons \union {NoRow}]

RegistryTyped ==
    /\ checkpoint \in [Checkpoints -> Statuses]
    /\ evaluation \in [Places -> [solved : Nat, total : Nat, passed : BOOLEAN] \union {NoRow}]
    /\ comparisons \subseteq Comparisons
    /\ decisions \in [Checkpoints -> Seq(Decision)]

\* The blocks of p are counted, whole and for good.
Counts(p) == study[p[1]] = "complete" /\ p[1] \in Comparable /\ Analyzed(p)

NotBehind(base, cand) ==
    Solved(cand) * Cardinality(BlocksOf[base]) >= Solved(base) * Cardinality(BlocksOf[cand])

\* The comparison a promotion of c cites.
Supports(m, c) ==
    /\ m \in comparisons
    /\ m.candidate[2] = c /\ m.baseline[2] # c
    /\ Counts(m.baseline) /\ Counts(m.candidate)
    /\ NotBehind(m.baseline, m.candidate)

Promoted(c) == decisions[c] # <<>> /\ Supports(Latest(c).comparison, c)

JudgedInv ==
    /\ StudyInv
    /\ RegistryTyped
    /\ \A m \in comparisons : m.baseline[2] # m.candidate[2]
    /\ \A c \in Checkpoints : checkpoint[c] = "promoted" => Promoted(c)

LEMMA AggregateFields ==
    ASSUME NEW s, NEW c
    PROVE  LET B == BlocksOf[<<s, c>>] IN
           /\ Aggregate(s, c).total = Cardinality(B)
           /\ Aggregate(s, c).solved = Counted(B, {"solved"})
           /\ Aggregate(s, c).causal =>
                 /\ Cardinality(B) > 0 /\ Counted(B, {"solved", "failed"}) = Cardinality(B)
                 /\ s \in Comparable
<1> DEFINE B == BlocksOf[<<s, c>>]
           causal == /\ Cardinality(B) > 0 /\ Counted(B, {"solved", "failed"}) = Cardinality(B)
                     /\ s \in Comparable
           row == [total |-> Cardinality(B), analyzed |-> Counted(B, {"solved", "failed"}),
                   solved |-> Counted(B, {"solved"}), causal |-> causal]
<1>1. Aggregate(s, c) = row
    BY Zenon DEF Aggregate
<1>2. causal \in BOOLEAN
    OBVIOUS
<1>3. row.total = Cardinality(B) /\ row.solved = Counted(B, {"solved"})
    OBVIOUS
<1> HIDE DEF causal
<1>4. row.causal = causal
    BY <1>2
<1> HIDE DEF row
<1> QED BY <1>1, <1>3, <1>4 DEF causal

\* What a supported metric counts is there, and its study is complete.
LEMMA SupportedCounts ==
    ASSUME StudyInv, NEW p \in Places, Supported(p)
    PROVE  /\ Counts(p)
           /\ evaluation[p].solved = Solved(p)
           /\ evaluation[p].total = Cardinality(BlocksOf[p])
<1> DEFINE s == p[1]
           c == p[2]
           B == BlocksOf[p]
<1>1. s \in Studies /\ c \in Checkpoints /\ <<s, c>> = p
    BY DEF Places
<1>2. /\ study[s] = "complete" /\ result[p] # NoRow /\ result[p].causal
      /\ result[p].solved = evaluation[p].solved /\ result[p].total = evaluation[p].total
    BY <1>1 DEF Supported, Evidenced
<1>3. result[p] = Aggregate(s, c)
    BY <1>1, <1>2 DEF StudyInv, SealedResultsStand
<1>4. /\ result[p].total = Cardinality(B) /\ result[p].solved = Counted(B, {"solved"})
      /\ Cardinality(B) > 0 /\ Counted(B, {"solved", "failed"}) = Cardinality(B)
      /\ s \in Comparable
    BY <1>1, <1>2, <1>3, AggregateFields
<1>5. IsFiniteSet(B)
    BY <1>1, BoundBlocks
<1>6. {b \in B : outcome[b] \in {"solved", "failed"}} = B
    BY <1>4, <1>5, FS_Subset DEF Counted
<1>7. B # {}
    BY <1>4, FS_EmptySet
<1>8. Solved(p) = Counted(B, {"solved"})
  <2>1. {b \in B : outcome[b] \in {"solved"}} = {b \in B : outcome[b] = "solved"}
      OBVIOUS
  <2> QED BY <2>1 DEF Solved, Counted
<1> QED BY <1>1, <1>2, <1>4, <1>6, <1>7, <1>8 DEF Counts, Analyzed

\* And it stays so, whatever the studies do.
LEMMA CountsStand ==
    ASSUME StudyInv, [StudyNext]_studyVars, NEW p \in Places, Counts(p)
    PROVE  Counts(p)' /\ Solved(p)' = Solved(p)
<1>1. p[1] \in Studies /\ p[2] \in Checkpoints /\ p = <<p[1], p[2]>>
    BY DEF Places
<1>2. study[p[1]] = "complete" /\ Finished(p[1])
    BY <1>1 DEF Counts, StudyInv
<1>3. \A b \in BlocksOf[p] : outcome'[b] = outcome[b]
    BY <1>1, <1>2, FinishedStands
<1>4. study'[p[1]] = "complete"
  <2>1. ASSUME NEW s \in Studies, NEW to, CreateStudy(s, to) \/ TransitionStudy(s, to)
        PROVE  study'[p[1]] = "complete"
      BY <1>1, <1>2, <2>1
         DEF CreateStudy, TransitionStudy, NextStudyStatuses, StudyInv, StudyTypeOK
  <2>2. CASE study' = study
      BY <1>2, <2>2
  <2> QED BY <2>1, <2>2 DEF StudyNext, RecordBlock, studyVars
<1>5. Solved(p)' = Solved(p)
    BY <1>3 DEF Solved
<1> QED BY <1>3, <1>4, <1>5 DEF Counts, Analyzed

LEMMA JudgedInitInv == StudyInit /\ CheckpointInit => JudgedInv
<1> SUFFICES ASSUME StudyInit, CheckpointInit
             PROVE  JudgedInv
    OBVIOUS
<1>1. RegistryTyped
    BY DEF CheckpointInit, RegistryTyped, Statuses
<1> QED BY <1>1, StudyInitInv DEF CheckpointInit, JudgedInv

LEMMA StudiesKeepJudged ==
    ASSUME JudgedInv, [StudyNext]_studyVars, UNCHANGED registryVars
    PROVE  JudgedInv'
<1> USE DEF JudgedInv
<1>1. UNCHANGED <<checkpoint, evaluation, comparisons, decisions>>
    BY DEF registryVars
<1>2. StudyInv' /\ RegistryTyped'
    BY <1>1, StudyNextKeepsInv DEF RegistryTyped
<1>3. ASSUME NEW c \in Checkpoints, Promoted(c)
      PROVE  Promoted(c)'
  <2> DEFINE m == Latest(c).comparison
  <2>1. /\ m \in comparisons /\ Counts(m.baseline) /\ Counts(m.candidate)
        /\ m.baseline \in Places /\ m.candidate \in Places
      BY <1>3 DEF Promoted, Supports, RegistryTyped, Comparisons
  <2>2. Latest(c)' = Latest(c)
      BY <1>1 DEF Latest
  <2>3. /\ Counts(m.baseline)' /\ Solved(m.baseline)' = Solved(m.baseline)
        /\ Counts(m.candidate)' /\ Solved(m.candidate)' = Solved(m.candidate)
      BY <2>1, <2>2, CountsStand
  <2> QED BY <1>1, <1>3, <2>2, <2>3 DEF Promoted, Supports, NotBehind
<1> QED BY <1>1, <1>2, <1>3

\* A decision changes its checkpoint's status, and is its latest.
LEMMA DecideFacts ==
    ASSUME RegistryTyped, NEW c \in Checkpoints, NEW to \in Statuses,
           NEW m \in Comparisons \union {NoRow}, Decide(c, to, m)
    PROVE  /\ RegistryTyped'
           /\ checkpoint[c] \in Sources(to) /\ checkpoint'[c] = to
           /\ decisions'[c] # <<>> /\ Latest(c)'.comparison = m
           /\ \A d \in Checkpoints \ {c} : /\ checkpoint'[d] = checkpoint[d]
                                           /\ decisions'[d] = decisions[d]
           /\ UNCHANGED <<evaluation, comparisons>>
<1> DEFINE decision == [from |-> checkpoint[c], to |-> to, comparison |-> m]
<1>1. /\ checkpoint' = [checkpoint EXCEPT ![c] = to]
      /\ decisions' = [decisions EXCEPT ![c] = Append(decisions[c], decision)]
      /\ checkpoint[c] \in Sources(to)
      /\ UNCHANGED <<evaluation, comparisons>>
    BY DEF Decide
<1>2. decision \in Decision /\ decision.comparison = m
    BY DEF RegistryTyped, Decision
<1> HIDE DEF decision
<1>3. decisions[c] \in Seq(Decision)
    BY DEF RegistryTyped
<1>4. /\ Append(decisions[c], decision) \in Seq(Decision)
      /\ Append(decisions[c], decision) # <<>>
      /\ Append(decisions[c], decision)[Len(Append(decisions[c], decision))] = decision
    BY <1>2, <1>3
<1>5. RegistryTyped'
    BY <1>1, <1>4 DEF RegistryTyped
<1>6. decisions'[c] = Append(decisions[c], decision)
    BY <1>1 DEF RegistryTyped
<1>7. checkpoint'[c] = to
    BY <1>1 DEF RegistryTyped
<1>8. \A d \in Checkpoints \ {c} : checkpoint'[d] = checkpoint[d] /\ decisions'[d] = decisions[d]
    BY <1>1 DEF RegistryTyped
<1> QED BY <1>1, <1>2, <1>4, <1>5, <1>6, <1>7, <1>8 DEF Latest

\* A promotion keeps standing while nothing it rests on is touched.
LEMMA PromotedStands ==
    ASSUME NEW c \in Checkpoints, Promoted(c), UNCHANGED studyVars,
           decisions'[c] = decisions[c], comparisons \subseteq comparisons'
    PROVE  Promoted(c)'
<1>1. UNCHANGED <<study, outcome, result>> /\ Latest(c)' = Latest(c)
    BY DEF studyVars, Latest
<1> QED BY <1>1 DEF Promoted, Supports, Counts, Analyzed, NotBehind, Solved

LEMMA DecisionKeepsJudged ==
    ASSUME JudgedInv, UNCHANGED studyVars, StudyInv', NEW c \in Checkpoints, NEW to \in Statuses,
           NEW m \in Comparisons \union {NoRow}, Decide(c, to, m),
           to = "promoted" => Supports(m, c)
    PROVE  JudgedInv'
<1> USE DEF JudgedInv
<1>1. /\ RegistryTyped' /\ comparisons' = comparisons
      /\ checkpoint'[c] = to /\ decisions'[c] # <<>> /\ Latest(c)'.comparison = m
      /\ \A d \in Checkpoints \ {c} : checkpoint'[d] = checkpoint[d] /\ decisions'[d] = decisions[d]
    BY DecideFacts
<1>2. ASSUME NEW d \in Checkpoints \ {c}, checkpoint'[d] = "promoted"
      PROVE  Promoted(d)'
    BY <1>1, <1>2, PromotedStands
<1>3. ASSUME to = "promoted"
      PROVE  Promoted(c)'
  <2>1. Supports(m, c)'
      BY <1>1, <1>3 DEF Supports, Counts, Analyzed, NotBehind, Solved, studyVars
  <2> QED BY <1>1, <2>1 DEF Promoted
<1> QED BY <1>1, <1>2, <1>3

LEMMA CheckpointsKeepJudged ==
    ASSUME JudgedInv, CheckpointNext, UNCHANGED studyVars
    PROVE  JudgedInv'
<1> USE DEF JudgedInv
<1>1. StudyInv'
    BY StudyNextKeepsInv
<1>2. NoRow \in Comparisons \union {NoRow} /\ "promoted" \in Statuses
    BY DEF Statuses
<1>3. ASSUME NEW c \in Checkpoints, RegisterCheckpoint(c)
      PROVE  JudgedInv'
  <2>1. /\ checkpoint' = [checkpoint EXCEPT ![c] = "candidate"]
        /\ UNCHANGED <<evaluation, comparisons, decisions>>
      BY <1>3 DEF RegisterCheckpoint
  <2>2. RegistryTyped'
      BY <2>1 DEF RegistryTyped, Statuses
  <2>3. \A d \in Checkpoints : checkpoint'[d] = "promoted" => checkpoint[d] = "promoted"
      BY <2>1 DEF RegistryTyped
  <2> QED BY <1>1, <2>1, <2>2, <2>3, PromotedStands
<1>4. ASSUME NEW c \in Checkpoints, StartEvaluation(c) \/ QuarantineCheckpoint(c) \/ Revoke(c)
      PROVE  JudgedInv'
  <2>1. PICK to \in {"evaluating", "quarantined", "revoked"} : Decide(c, to, NoRow)
      BY <1>4 DEF StartEvaluation, QuarantineCheckpoint, Revoke
  <2>2. to \in Statuses /\ to # "promoted"
      BY DEF Statuses
  <2> QED BY <1>1, <1>2, <2>1, <2>2, DecisionKeepsJudged
<1>5. ASSUME NEW s \in Studies, NEW c \in Checkpoints, NEW passed \in BOOLEAN,
             RecordEvaluation(s, c, passed)
      PROVE  JudgedInv'
  <2> DEFINE r == result[<<s, c>>]
             metric == [solved |-> r.solved, total |-> r.total, passed |-> passed]
  <2>1. /\ evaluation' = [evaluation EXCEPT ![<<s, c>>] = metric] /\ r # NoRow
        /\ UNCHANGED <<checkpoint, comparisons, decisions>>
      BY <1>5 DEF RecordEvaluation
  <2>2. r \in Results
      BY <2>1 DEF StudyInv, StudyTypeOK
  <2>3. metric \in [solved : Nat, total : Nat, passed : BOOLEAN]
      BY <2>2 DEF Results
  <2> HIDE DEF metric
  <2>4. RegistryTyped'
      BY <2>1, <2>3 DEF RegistryTyped
  <2> QED BY <1>1, <2>1, <2>4, PromotedStands
<1>6. ASSUME NEW base \in Places, NEW cand \in Places, Compare(base, cand)
      PROVE  JudgedInv'
  <2> DEFINE recommended == Recommended(base, cand)
             m == [baseline |-> base, candidate |-> cand, recommended |-> recommended]
  <2>1. /\ evaluation[base] # NoRow /\ evaluation[cand] # NoRow /\ base[2] # cand[2]
        /\ comparisons' = comparisons \union {m}
        /\ UNCHANGED <<checkpoint, evaluation, decisions>>
      BY <1>6 DEF Compare
  <2>2. recommended \in BOOLEAN
      BY DEF Recommended
  <2> HIDE DEF recommended
  <2>3. m \in Comparisons /\ m.baseline = base /\ m.candidate = cand
      BY <2>2 DEF Comparisons
  <2> HIDE DEF m
  <2>4. RegistryTyped'
      BY <2>1, <2>3 DEF RegistryTyped
  <2> QED BY <1>1, <2>1, <2>3, <2>4, PromotedStands
<1>7. ASSUME NEW m \in comparisons, NEW promote \in BOOLEAN, Finalize(m, promote)
      PROVE  JudgedInv'
  <2> DEFINE c == m.candidate[2]
             to == IF promote THEN "promoted" ELSE "rejected"
  <2>1. /\ m \in Comparisons /\ m.baseline \in Places /\ m.candidate \in Places
        /\ c \in Checkpoints /\ m.baseline[2] # c
      BY DEF RegistryTyped, Comparisons, Places
  <2>2. Decide(c, to, m) /\ to \in Statuses
      BY <1>7 DEF Finalize, Statuses
  <2>3. ASSUME promote
        PROVE  Supports(m, c)
    <3> DEFINE base == m.baseline
               cand == m.candidate
    <3>1. Supported(base) /\ Supported(cand) /\ Recommended(base, cand)
        BY <1>7, <2>3 DEF Finalize, Recomputed
    <3>2. evaluation[cand].solved * evaluation[base].total
              >= evaluation[base].solved * evaluation[cand].total
        BY <3>1 DEF Recommended
    <3>3. /\ Counts(base) /\ evaluation[base].solved = Solved(base)
          /\ evaluation[base].total = Cardinality(BlocksOf[base])
          /\ Counts(cand) /\ evaluation[cand].solved = Solved(cand)
          /\ evaluation[cand].total = Cardinality(BlocksOf[cand])
        BY <2>1, <3>1, SupportedCounts
    <3>4. NotBehind(base, cand)
        BY <3>2, <3>3, Zenon DEF NotBehind
    <3> QED BY <2>1, <3>3, <3>4 DEF Supports
  <2> QED BY <1>1, <2>1, <2>2, <2>3, DecisionKeepsJudged
<1> QED BY <1>3, <1>4, <1>5, <1>6, <1>7 DEF CheckpointNext

\* A promoted checkpoint would be promoted again: what its comparison counted
\* is still there, and no complete study's blocks change under it.
THEOREM PromotionsStand == JudgedSpec => []PromotionsRecompute
<1>1. JudgedInv /\ [JudgedNext]_JudgedVars => JudgedInv'
  <2> SUFFICES ASSUME JudgedInv, [JudgedNext]_JudgedVars
               PROVE  JudgedInv'
      OBVIOUS
  <2>1. CASE StudyNext /\ UNCHANGED registryVars
      BY <2>1, StudiesKeepJudged
  <2>2. CASE CheckpointNext /\ UNCHANGED studyVars
      BY <2>2, CheckpointsKeepJudged
  <2>3. CASE UNCHANGED JudgedVars
      BY <2>3, StudiesKeepJudged DEF JudgedVars
  <2> QED BY <2>1, <2>2, <2>3 DEF JudgedNext
<1>2. JudgedInv => PromotionsRecompute
  <2>1. ASSUME JudgedInv, NEW c \in Checkpoints, checkpoint[c] = "promoted"
        PROVE  Supports(Latest(c).comparison, c) /\ Latest(c).comparison # NoRow
      BY <2>1, ParentAssumption DEF JudgedInv, Promoted, Supports, RegistryTyped
  <2> QED BY <2>1 DEF PromotionsRecompute, Supports, Counts, NotBehind
<1> QED BY <1>1, <1>2, JudgedInitInv, PTL DEF JudgedSpec

-----------------------------------------------------------------------------
(* Trials and the items they lease.                                        *)

SchedulerSpec == SchedulerInit /\ [][SchedulerNext]_schedulerVars

\* A leased trial's token is a grant of its item to it; the item's lease, if
\* it still carries the token, runs as long as the trial's; and while the
\* trial's runs, the item carries it or has left the inventory without a lease.
Held(k) ==
    trial[k].status = "leased" =>
        /\ trial[k].token \in Tokens
        /\ grant[trial[k].token] # NULL
        /\ grant[trial[k].token].owner = k
        /\ grant[trial[k].token].items = {ItemOf[k]}
        /\ lease[ItemOf[k]].token = trial[k].token => lease[ItemOf[k]].left = trial[k].left
        /\ trial[k].left > 0 => \/ lease[ItemOf[k]].token = trial[k].token
                                \/ /\ status[ItemOf[k]] \in {"retired", "quarantined"}
                                   /\ lease[ItemOf[k]] = NoLease

TrialsTyped ==
    /\ trial \in [Trials -> TrialRows]
    /\ \A k \in Trials : trial[k].status # "leased" => trial[k].left = 0

SchedulerInv == CorpusInv /\ TrialsTyped /\ \A k \in Trials : Held(k)

LEMMA TrialFacts ==
    ASSUME NEW k \in Trials
    PROVE  ItemOf[k] \in Items /\ k \in Owners /\ StudentOf[k] \in Students
BY SchedulerAssumption

LEMMA ScheduledFacts ==
    ASSUME NEW row \in TrialRows
    PROVE  /\ Scheduled(row) \in TrialRows
           /\ Scheduled(row).status = "scheduled" /\ Scheduled(row).left = 0
<1> DEFINE f == [row EXCEPT !.status = "scheduled"]
           g == [f EXCEPT !.token = NULL]
           h == [g EXCEPT !.left = 0]
<1>1. Scheduled(row) = h
    BY Zenon DEF Scheduled
<1>2. f \in TrialRows /\ f.status = "scheduled"
    BY DEF TrialRows
<1> HIDE DEF f
<1>3. g \in TrialRows /\ g.status = f.status
    BY <1>2 DEF TrialRows
<1> HIDE DEF g
<1>4. h \in TrialRows /\ h.status = g.status /\ h.left = 0
    BY <1>3, CorpusAssumption DEF TrialRows
<1> QED BY <1>1, <1>2, <1>3, <1>4

\* The item of a leased trial that is not its own step's: what may happen to
\* it without the trial losing it.
Spared(k) ==
    LET i == ItemOf[k] IN
    \/ lease'[i] = lease[i]
       /\ (status'[i] = status[i] \/ status'[i] \in {"retired", "quarantined"})
    \/ status'[i] \in {"retired", "quarantined"} /\ lease'[i] = NoLease
    \/ /\ status[i] \notin {"retired", "quarantined"} \/ lease[i] # NoLease
       /\ lease[i].token # trial[k].token \/ trial[k].left = 0
       /\ lease'[i].token # trial[k].token

LEMMA SparedIsHeld ==
    ASSUME SchedulerInv, NEW k \in Trials, trial'[k] = trial[k],
           trial[k].status = "leased" =>
               Spared(k) /\ grant'[trial[k].token] = grant[trial[k].token]
    PROVE  Held(k)'
<1> SUFFICES ASSUME trial[k].status = "leased"
             PROVE  Held(k)'
    BY DEF Held
<1>1. Spared(k) /\ grant'[trial[k].token] = grant[trial[k].token]
    OBVIOUS
<1>2. Held(k) /\ trial[k].token \in Tokens /\ trial[k].token # NULL
    BY CorpusAssumption DEF SchedulerInv, Held
<1> QED BY <1>1, <1>2, NoLeaseTyped DEF Held, Spared

\* The token of a leased trial is no run's, and no other trial's.
LEMMA TrialTokens ==
    ASSUME SchedulerInv, NEW k \in Trials, trial[k].status = "leased"
    PROVE  /\ trial[k].token \in Tokens /\ ~OfARun(trial[k].token)
           /\ grant[trial[k].token] # NULL
           /\ \A i \in Items : lease[i].token = trial[k].token =>
                 i = ItemOf[k] /\ status[i] \in {"leased", "retired"}
           /\ \A j \in Trials : trial[j].status = "leased" /\ trial[j].token = trial[k].token => j = k
<1>1. Held(k) /\ trial[k].token # NULL
    BY CorpusAssumption DEF SchedulerInv, Held
<1>2. \A i \in Items : lease[i].token = trial[k].token =>
          i = ItemOf[k] /\ status[i] \in {"leased", "retired"}
    BY <1>1 DEF SchedulerInv, CorpusInv, Matched, Held
<1>3. \A j \in Trials : trial[j].status = "leased" /\ trial[j].token = trial[k].token => j = k
    BY <1>1 DEF SchedulerInv, Held
<1> QED BY <1>1, <1>2, <1>3 DEF Held, OfARun

LEMMA SchedulerInitInv == SchedulerInit => SchedulerInv
<1> SUFFICES ASSUME SchedulerInit
             PROVE  SchedulerInv
    OBVIOUS
<1>1. Unleased \in TrialRows /\ Unleased.status = "absent" /\ Unleased.left = 0
    BY CorpusAssumption DEF Unleased, TrialRows
<1>2. CorpusInv
    BY CorpusInitInv DEF SchedulerInit
<1>3. \A k \in Trials : trial[k] = Unleased
    BY DEF SchedulerInit
<1> QED BY <1>1, <1>2, <1>3 DEF SchedulerInit, SchedulerInv, TrialsTyped, Held

\* Grants are made once.
LEMMA GrantsStand ==
    ASSUME CorpusInv, NEW u \in Tokens, grant[u] # NULL, RegistryStep
    PROVE  grant'[u] = grant[u]
<1>1. ASSUME NEW o \in Owners, NEW s \in Students, NEW t \in Tokens,
             LeaseItem(o, s, t) \/ LeaseMatchedGroup(o, s, t)
      PROVE  grant'[u] = grant[u]
  <2>1. PICK S : Grant(o, s, S, t)
      BY <1>1 DEF LeaseItem, LeaseMatchedGroup
  <2> QED BY <2>1 DEF Grant, CorpusInv, GrantsTyped
<1>2. CASE grant' = grant
    BY <1>2
<1> QED BY <1>1, <1>2 DEF RegistryStep, Register, Recover, ReleaseLease, RecordExposure,
        RecordPromptAndReturn, ReadSiblings, Retire, Abort, Quarantine

\* What the registry does for its other callers spares the items on trial.
LEMMA RegistrySpares ==
    ASSUME SchedulerInv, RegistryStep, NEW k \in Trials, trial[k].status = "leased"
    PROVE  Spared(k)
<1> DEFINE i == ItemOf[k]
           tok == trial[k].token
<1> USE DEF SchedulerInv, CorpusInv
<1>1. /\ i \in Items /\ tok \in Tokens /\ tok # NULL
      /\ lease[i].token = tok => lease[i].left = trial[k].left
      /\ grant[tok] # NULL /\ ~OfARun(tok)
      /\ status[i] = "leased" => lease[i].token # NULL
      /\ lease[i].token # NULL => status[i] \in {"leased", "retired"}
    BY TrialFacts, TrialTokens, CorpusAssumption DEF Held, Matched
<1> HIDE DEF i, tok
<1> DEFINE kept == lease'[i] = lease[i]
                   /\ (status'[i] = status[i] \/ status'[i] \in {"retired", "quarantined"})
           gone == status'[i] \in {"retired", "quarantined"} /\ lease'[i] = NoLease
           other == /\ status[i] \notin {"retired", "quarantined"} \/ lease[i] # NoLease
                    /\ lease[i].token # tok \/ trial[k].left = 0
                    /\ lease'[i].token # tok
<1>2. ASSUME NEW S \in SUBSET Items, NEW valid \in BOOLEAN, Register(S, valid)
      PROVE  kept \/ other
    BY <1>1, <1>2 DEF Register, RowsTyped
<1>3. ASSUME Recover
      PROVE  kept \/ other
  <2>1. Drop(Expired, {"leased"}, "active") /\ Expired \in SUBSET Items /\ "active" \in ItemStatuses
      BY <1>3 DEF Recover, Expired, ItemStatuses
  <2>2. IF i \in Expired THEN lease'[i] = NoLease ELSE lease'[i] = lease[i] /\ status'[i] = status[i]
    <3>1. /\ \A j \in Items : j \in Expired /\ status[j] \in {"leased"} => lease'[j] = NoLease
          /\ \A j \in Items : ~(j \in Expired /\ status[j] \in {"leased"}) =>
                status'[j] = status[j] /\ lease'[j] = lease[j]
        BY <2>1, DropFacts
    <3> QED BY <1>1, <3>1 DEF Expired
  <2>3. CASE i \in Expired
    <3>1. lease'[i] = NoLease /\ status[i] = "leased" /\ lease[i].left = 0
        BY <2>2, <2>3 DEF Expired
    <3>2. other
        BY <1>1, <3>1, NoLeaseTyped
    <3> QED BY <3>2
  <2> QED BY <2>2, <2>3
<1>4. ASSUME NEW o \in Owners, NEW s \in Students, NEW t \in Tokens,
             LeaseItem(o, s, t) \/ LeaseMatchedGroup(o, s, t)
      PROVE  kept \/ other
  <2>1. PICK S : Grant(o, s, S, t) /\ S \subseteq Leasable(s)
    <3>1. CASE LeaseItem(o, s, t)
      <4>1. PICK j \in Leasable(s) : Grant(o, s, {j}, t)
          BY <3>1 DEF LeaseItem
      <4> QED BY <4>1
    <3>2. CASE LeaseMatchedGroup(o, s, t)
        BY <3>2 DEF LeaseMatchedGroup, Blocks
    <3> QED BY <1>4, <3>1, <3>2
  <2>2. /\ t # tok
        /\ i \in S => status[i] = "active" \/ i \in Expired
        /\ lease'[i] = IF i \in S THEN [owner |-> o, token |-> t, left |-> LeaseFor]
                       ELSE IF i \in Expired THEN NoLease ELSE lease[i]
        /\ i \notin S /\ i \notin Expired => status'[i] = status[i]
      BY <1>1, <2>1 DEF Grant, Leasable
  <2> QED BY <1>1, <2>2, NoLeaseTyped DEF Expired
<1>5. ASSUME NEW t \in Tokens, NEW j \in Items, OfARun(t),
             ReleaseLease(t, j) \/ RecordPromptAndReturn(t, j)
      PROVE  kept \/ other
  <2>1. lease[j].token = t /\ t # tok /\ lease[j] # NoLease
      BY <1>1, <1>5, CorpusAssumption, NoLeaseTyped DEF ReleaseLease, RecordPromptAndReturn, Owns
  <2>2. /\ i # j => lease'[i] = lease[i] /\ status'[i] = status[i]
        /\ i = j => (lease'[i] = lease[i] /\ status'[i] = status[i]) \/ lease'[i] = NoLease
      BY <1>1, <1>5 DEF ReleaseLease, RecordPromptAndReturn, Drop, RowsTyped
  <2> QED BY <1>1, <2>1, <2>2, NoLeaseTyped
<1>6. ASSUME UNCHANGED <<status, lease>>
      PROVE  kept
    BY <1>6
<1>7. ASSUME NEW j \in Items, Retire(j)
      PROVE  kept \/ gone
  <2>1. /\ retiring[j].leased \subseteq retiring[j].seen
        /\ RetireRows(retiring[j].seen, retiring[j].leased)
      BY <1>7 DEF Retire, ReadingsTyped
  <2>2. /\ status'[i] = status[i] \/ status'[i] = "retired"
        /\ i \in retiring[j].leased => status'[i] \in {"retired", "quarantined"}
        /\ lease'[i] = IF i \in retiring[j].leased THEN NoLease ELSE lease[i]
      BY <1>1, <2>1 DEF RetireRows
  <2> QED BY <2>2
<1>8. ASSUME NEW j \in Items, NEW closeFamily \in BOOLEAN, Quarantine(j, closeFamily)
      PROVE  kept \/ gone
  <2>1. PICK closed \in SUBSET Items :
            /\ Drop(closed, {"active", "leased", "retired"}, "quarantined")
            /\ "quarantined" \in ItemStatuses
      BY <1>8 DEF Quarantine, ItemStatuses
  <2> QED BY <1>1, <2>1, DropFacts
<1> HIDE DEF kept, gone, other
<1>9. kept \/ gone \/ other
  <2>1. \A t \in Tokens, j \in Items :
            /\ ReadSiblings(t, j) => UNCHANGED <<status, lease>>
            /\ \A answer \in BOOLEAN : RecordExposure(t, j, answer) => UNCHANGED <<status, lease>>
      BY DEF ReadSiblings, RecordExposure
  <2>2. \A j \in Items : Abort(j) => UNCHANGED <<status, lease>>
      BY DEF Abort
  <2> QED BY Zenon, <1>2, <1>3, <1>4, <1>5, <1>6, <1>7, <1>8, <2>1, <2>2 DEF RegistryStep
<1> QED BY <1>9 DEF Spared, i, tok, kept, gone, other

\* And the inventory keeps its own invariant.
LEMMA RegistryKeepsCorpus ==
    ASSUME CorpusInv, RegistryStep
    PROVE  CorpusInv'
BY Zenon, CorpusNextKeepsInv DEF RegistryStep, Next

\* An item that is taken back carries the token of an overdue trial, and no
\* other item does.
LEMMA ReturnedFacts ==
    ASSUME SchedulerInv
    PROVE  /\ Returned \in SUBSET Items
           /\ \A i \in Returned : /\ status[i] \in {"leased", "retired"} /\ lease[i] # NoLease
                                 /\ \E o \in Overdue : i = ItemOf[o] /\ lease[i].token = trial[o].token
           /\ \A k \in Trials : trial[k].status = "leased" /\ k \notin Overdue =>
                 \A i \in Returned : lease[i].token # trial[k].token
<1>1. \A i \in Returned :
          \E o \in Overdue : i = ItemOf[o] /\ lease[i].token = trial[o].token
    BY DEF Returned
<1>2. \A o \in Overdue : o \in Trials /\ trial[o].status = "leased"
    BY DEF Overdue
<1>3. \A o \in Overdue, i \in Items : lease[i].token = trial[o].token =>
          i = ItemOf[o] /\ status[i] \in {"leased", "retired"} /\ lease[i] # NoLease
    BY <1>2, TrialTokens, NoLeaseTyped, CorpusAssumption
<1>4. Returned \in SUBSET Items
    BY <1>1, <1>2, TrialFacts
<1>5. \A i \in Returned : status[i] \in {"leased", "retired"} /\ lease[i] # NoLease
    BY <1>1, <1>3, <1>4
<1>7. \A k \in Trials : trial[k].status = "leased" /\ k \notin Overdue =>
          \A i \in Returned : lease[i].token # trial[k].token
    BY <1>1, <1>2, TrialTokens
<1> QED BY <1>1, <1>4, <1>5, <1>7

LEMMA RecoverTrialsKeepsInv ==
    ASSUME SchedulerInv, RecoverTrials
    PROVE  SchedulerInv'
<1> USE DEF SchedulerInv
<1>1. /\ trial' = [k \in Trials |-> IF k \in Overdue THEN Scheduled(trial[k]) ELSE trial[k]]
      /\ Drop(Returned, {"leased", "retired"}, "active") /\ "active" \in ItemStatuses
      /\ UNCHANGED <<grant, exposures, contaminated, retiring>>
    BY DEF RecoverTrials, ItemStatuses
<1>2. RowsTyped' /\ GrantsTyped' /\ ReadingsTyped'
    BY <1>1, ReturnedFacts, DropFacts DEF CorpusInv, GrantsTyped, ReadingsTyped
<1>3. \A i \in Items : IF i \in Returned THEN status'[i] = "active" /\ lease'[i] = NoLease
                       ELSE status'[i] = status[i] /\ lease'[i] = lease[i]
    BY <1>1, ReturnedFacts, DropFacts DEF CorpusInv
<1>4. CorpusInv'
  <2>1. \A i \in Items :
            \/ status'[i] = status[i] /\ lease'[i] = lease[i]
            \/ status'[i] # "leased" /\ lease'[i] = NoLease
      BY <1>3
  <2> QED BY <1>1, <1>2, <2>1, DroppingKeepsInv
<1>5. TrialsTyped'
  <2>1. \A k \in Trials : /\ trial'[k] \in TrialRows
                          /\ trial'[k].status # "leased" => trial'[k].left = 0
      BY <1>1, ScheduledFacts DEF TrialsTyped
  <2> QED BY <1>1, <2>1 DEF TrialsTyped
<1>6. ASSUME NEW k \in Trials
      PROVE  Held(k)'
  <2>1. CASE k \in Overdue
    <3>1. trial'[k].status = "scheduled"
        BY <1>1, <2>1, ScheduledFacts DEF TrialsTyped
    <3> QED BY <3>1 DEF Held
  <2>2. CASE k \notin Overdue
    <3>1. trial'[k] = trial[k]
        BY <1>1, <2>2
    <3>2. ASSUME trial[k].status = "leased"
          PROVE  Spared(k)
      <4>1. trial[k].token # NULL
          BY <3>2, TrialTokens, CorpusAssumption
      <4>2. ItemOf[k] \in Returned => /\ lease[ItemOf[k]].token # trial[k].token
                                      /\ lease[ItemOf[k]] # NoLease
          BY <2>2, <3>2, ReturnedFacts
      <4> QED BY <1>3, <4>1, <4>2, TrialFacts, NoLeaseTyped DEF Spared
    <3> QED BY <1>1, <3>1, <3>2, SparedIsHeld
  <2> QED BY <2>1, <2>2
<1> QED BY <1>4, <1>5, <1>6

LEMMA ClaimedFacts ==
    ASSUME NEW row \in TrialRows, NEW t \in Tokens
    PROVE  LET claimed == [row EXCEPT !.status = "leased", !.token = t, !.left = LeaseFor] IN
           /\ claimed \in TrialRows /\ claimed.status = "leased"
           /\ claimed.token = t /\ claimed.left = LeaseFor
<1> DEFINE f == [row EXCEPT !.status = "leased"]
           g == [f EXCEPT !.token = t]
           h == [g EXCEPT !.left = LeaseFor]
<1>1. [row EXCEPT !.status = "leased", !.token = t, !.left = LeaseFor] = h
    BY Zenon
<1>2. f \in TrialRows /\ f.status = "leased"
    BY DEF TrialRows
<1> HIDE DEF f
<1>3. g \in TrialRows /\ g.status = f.status /\ g.token = t
    BY <1>2 DEF TrialRows
<1> HIDE DEF g
<1>4. h \in TrialRows /\ h.status = g.status /\ h.token = g.token /\ h.left = LeaseFor
    BY <1>3, CorpusAssumption DEF TrialRows
<1> HIDE DEF h
<1> QED BY <1>1, <1>2, <1>3, <1>4

LEMMA ClaimKeepsInv ==
    ASSUME SchedulerInv, NEW k \in Trials, NEW t \in Tokens, ClaimDue(k, t)
    PROVE  SchedulerInv'
<1> USE DEF SchedulerInv
<1> DEFINE i == ItemOf[k]
           claimed == [trial[k] EXCEPT !.status = "leased", !.token = t, !.left = LeaseFor]
           fresh == [owner |-> k, token |-> t, left |-> LeaseFor]
           given == [owner |-> k, student |-> StudentOf[k], items |-> {i}]
<1>1. /\ grant[t] = NULL
      /\ status[i] = "active" \/ i \in Returned
      /\ trial' = [j \in Trials |-> IF j = k THEN claimed
                                    ELSE IF j \in Overdue THEN Scheduled(trial[j]) ELSE trial[j]]
      /\ status' = [j \in Items |-> IF j = i THEN "leased"
                                    ELSE IF j \in Returned THEN "active" ELSE status[j]]
      /\ lease' = [j \in Items |-> IF j = i THEN fresh
                                   ELSE IF j \in Returned THEN NoLease ELSE lease[j]]
      /\ grant' = [grant EXCEPT ![t] = given]
      /\ UNCHANGED <<exposures, contaminated, retiring>>
    BY Zenon DEF ClaimDue, Claimable
<1>2. i \in Items /\ k \in Owners /\ StudentOf[k] \in Students
    BY TrialFacts
<1>3. /\ claimed \in TrialRows /\ claimed.status = "leased"
      /\ claimed.token = t /\ claimed.left = LeaseFor
    BY Zenon, ClaimedFacts DEF TrialsTyped
<1>4. fresh.token = t /\ fresh.left = LeaseFor /\ given.owner = k /\ given.items = {i} /\ t # NULL
    BY CorpusAssumption
<1>5. given # NULL
  <2>1. given \in Grants
      BY <1>2 DEF Grants
  <2> QED BY <2>1, GrantAssumption
<1>6. CorpusInv'
  <2>1. GrantAnew(k, StudentOf[k], {i}, Returned, t)
    <3>1. \A j : j = i <=> j \in {i}
        OBVIOUS
    <3> QED BY <1>1, <3>1 DEF GrantAnew
  <2> QED BY <1>2, <2>1, ReturnedFacts, GrantingKeepsInv
<1> HIDE DEF claimed, fresh, given
<1>7. TrialsTyped'
  <2>1. \A j \in Trials : /\ trial'[j] \in TrialRows
                          /\ trial'[j].status # "leased" => trial'[j].left = 0
      BY <1>1, <1>3, ScheduledFacts DEF TrialsTyped
  <2> QED BY <1>1, <2>1 DEF TrialsTyped
<1>8. grant'[t] = given /\ \A u \in Tokens \ {t} : grant'[u] = grant[u]
    BY <1>1 DEF CorpusInv, GrantsTyped
<1>9. Held(k)'
    BY <1>1, <1>2, <1>3, <1>4, <1>5, <1>8 DEF Held
<1>10. ASSUME NEW j \in Trials \ {k}
       PROVE  Held(j)'
  <2>1. CASE j \in Overdue
    <3>1. trial'[j].status = "scheduled"
        BY <1>1, <2>1, ScheduledFacts DEF TrialsTyped
    <3> QED BY <3>1 DEF Held
  <2>2. CASE j \notin Overdue
    <3>1. trial'[j] = trial[j]
        BY <1>1, <2>2
    <3>2. ASSUME trial[j].status = "leased"
          PROVE  Spared(j) /\ grant'[trial[j].token] = grant[trial[j].token]
      <4> DEFINE x == ItemOf[j]
      <4>1. /\ trial[j].token \in Tokens /\ trial[j].token # NULL /\ trial[j].token # t
            /\ x \in Items
          BY <1>1, <3>2, TrialTokens, TrialFacts, CorpusAssumption
      <4>2. x \in Returned => lease[x].token # trial[j].token /\ lease[x] # NoLease
          BY <2>2, <3>2, ReturnedFacts
      <4>3. x = i => lease[x].token # trial[j].token /\ (status[x] = "active" \/ lease[x] # NoLease)
          BY <1>1, <3>2, <4>1, <4>2, TrialTokens
      <4>4. lease'[x] = IF x = i THEN fresh ELSE IF x \in Returned THEN NoLease ELSE lease[x]
          BY <1>1, <4>1
      <4>5. x # i /\ x \notin Returned => status'[x] = status[x]
          BY <1>1, <4>1
      <4> QED BY <1>4, <1>8, <4>1, <4>2, <4>3, <4>4, <4>5, NoLeaseTyped DEF Spared
    <3> QED BY <3>1, <3>2, SparedIsHeld
  <2> QED BY <2>1, <2>2
<1> QED BY <1>6, <1>7, <1>9, <1>10

LEMMA CompleteKeepsInv ==
    ASSUME SchedulerInv, NEW k \in Trials, NEW t \in Tokens,
           NEW report \in {"exposed", "infrastructure"}, Complete(k, t, report)
    PROVE  SchedulerInv'
<1> USE DEF SchedulerInv
<1> DEFINE i == ItemOf[k]
           done == [status |-> "complete", token |-> NULL, left |-> 0, outcome |-> report]
<1>1. /\ trial[k].status = "leased" /\ trial[k].token = t /\ lease[i].token = t
      /\ trial' = [trial EXCEPT ![k] = done]
      /\ status' = [status EXCEPT ![i] = "active"]
      /\ lease' = [lease EXCEPT ![i] = NoLease]
      /\ UNCHANGED <<grant, exposures, contaminated, retiring>>
    BY DEF Complete
<1>2. done \in TrialRows /\ done.status = "complete" /\ done.left = 0
    BY CorpusAssumption DEF TrialRows
<1> HIDE DEF done
<1>3. /\ i \in Items /\ lease[i] # NoLease
      /\ \A x \in Items : lease[x].token = t => x = i
    BY <1>1, TrialFacts, TrialTokens, NoLeaseTyped, CorpusAssumption
<1>4. \A x \in Items : IF x = i THEN status'[x] = "active" /\ lease'[x] = NoLease
                       ELSE status'[x] = status[x] /\ lease'[x] = lease[x]
    BY <1>1 DEF CorpusInv, RowsTyped
<1>5. CorpusInv'
  <2>1. RowsTyped' /\ GrantsTyped' /\ ReadingsTyped'
      BY <1>1, <1>4, NoLeaseTyped DEF CorpusInv, RowsTyped, GrantsTyped, ReadingsTyped, ItemStatuses
  <2>2. \A x \in Items :
            \/ status'[x] = status[x] /\ lease'[x] = lease[x]
            \/ status'[x] # "leased" /\ lease'[x] = NoLease
      BY <1>4
  <2> QED BY <1>1, <2>1, <2>2, DroppingKeepsInv
<1>6. TrialsTyped'
    BY <1>1, <1>2 DEF TrialsTyped
<1>7. Held(k)'
    BY <1>1, <1>2 DEF Held, TrialsTyped
<1>8. ASSUME NEW j \in Trials \ {k}
      PROVE  Held(j)'
  <2>1. trial'[j] = trial[j]
      BY <1>1 DEF TrialsTyped
  <2>2. ASSUME trial[j].status = "leased"
        PROVE  Spared(j)
    <3>1. trial[j].token # t /\ trial[j].token # NULL /\ ItemOf[j] \in Items
        BY <1>1, <2>2, TrialTokens, TrialFacts, CorpusAssumption
    <3> QED BY <1>1, <1>3, <1>4, <3>1, NoLeaseTyped DEF Spared
  <2> QED BY <1>1, <2>1, <2>2, SparedIsHeld
<1> QED BY <1>5, <1>6, <1>7, <1>8

LEMMA LaterFacts ==
    ASSUME NEW row \in TrialRows
    PROVE  LET later == [row EXCEPT !.left = IF @ > 0 THEN @ - 1 ELSE 0] IN
           /\ later \in TrialRows
           /\ later.status = row.status /\ later.token = row.token
           /\ later.left = IF row.left > 0 THEN row.left - 1 ELSE 0
           /\ row.left = 0 => later = row
<1> DEFINE left == IF row.left > 0 THEN row.left - 1 ELSE 0
           later == [row EXCEPT !.left = left]
<1>1. left \in 0..LeaseFor
    BY CorpusAssumption DEF TrialRows
<1>2. row.left = 0 => left = row.left
    OBVIOUS
<1> HIDE DEF left
<1>3. /\ later \in TrialRows /\ later.status = row.status /\ later.token = row.token
      /\ later.left = left
    BY <1>1 DEF TrialRows
<1>4. left = row.left => later = row
    BY DEF TrialRows
<1> QED BY <1>2, <1>3, <1>4 DEF left

LEMMA TickBothKeepsInv ==
    ASSUME SchedulerInv, TickBoth
    PROVE  SchedulerInv'
<1> USE DEF SchedulerInv
<1>1. CorpusInv'
    BY TickKeepsInv DEF TickBoth
<1>2. \A k \in Trials :
          /\ trial'[k] \in TrialRows
          /\ trial'[k].status = trial[k].status /\ trial'[k].token = trial[k].token
          /\ trial'[k].left = IF trial[k].left > 0 THEN trial[k].left - 1 ELSE 0
    BY LaterFacts DEF TickBoth, TrialsTyped
<1>3. TrialsTyped'
  <2> DEFINE later(k) == [trial[k] EXCEPT !.left = IF @ > 0 THEN @ - 1 ELSE 0]
  <2>1. trial' = [k \in Trials |-> later(k)]
      BY DEF TickBoth
  <2> HIDE DEF later
  <2>2. trial' \in [Trials -> TrialRows]
      BY <1>2, <2>1
  <2>3. ASSUME NEW k \in Trials, trial'[k].status # "leased"
        PROVE  trial'[k].left = 0
    <3>1. trial[k].left = 0
        BY <1>2, <2>3 DEF TrialsTyped
    <3> QED BY <1>2, <3>1
  <2> QED BY <2>2, <2>3 DEF TrialsTyped
<1>4. \A i \in Items :
          /\ lease'[i].token = lease[i].token
          /\ lease'[i].left = IF lease[i].left > 0 THEN lease[i].left - 1 ELSE 0
          /\ lease[i] = NoLease => lease'[i] = NoLease
  <2>1. \A i \in Items :
            /\ lease[i] \in LeaseRows
            /\ lease'[i] = [lease[i] EXCEPT !.left = IF @ > 0 THEN @ - 1 ELSE 0]
      BY DEF TickBoth, Tick, CorpusInv, RowsTyped
  <2>2. [NoLease EXCEPT !.left = IF @ > 0 THEN @ - 1 ELSE 0] = NoLease
      BY DEF NoLease
  <2> QED BY <2>1, <2>2 DEF LeaseRows
<1>5. grant' = grant /\ status' = status
    BY DEF TickBoth, Tick
<1>6. ASSUME NEW k \in Trials, trial[k].status = "leased"
      PROVE  Held(k)'
  <2>1. Held(k) /\ ItemOf[k] \in Items /\ trial[k].left \in Nat
      BY TrialFacts, CorpusAssumption DEF TrialsTyped, TrialRows
  <2>2. trial'[k].left > 0 => trial[k].left > 0
      BY <1>2, <2>1
  <2> QED BY <1>2, <1>4, <1>5, <1>6, <2>1, <2>2 DEF Held
<1>7. ASSUME NEW k \in Trials, trial[k].status # "leased"
      PROVE  Held(k)'
    BY <1>2, <1>7 DEF Held
<1> QED BY <1>1, <1>3, <1>6, <1>7

LEMMA SchedulerNextKeepsInv == SchedulerInv /\ [SchedulerNext]_schedulerVars => SchedulerInv'
<1> SUFFICES ASSUME SchedulerInv, [SchedulerNext]_schedulerVars
             PROVE  SchedulerInv'
    OBVIOUS
<1> USE DEF SchedulerInv
<1>1. CASE RegistryStep
  <2>1. trial' = trial /\ CorpusInv'
      BY <1>1, RegistryKeepsCorpus DEF RegistryStep
  <2>2. ASSUME NEW k \in Trials, trial[k].status = "leased"
        PROVE  grant'[trial[k].token] = grant[trial[k].token]
      BY <1>1, <2>2, TrialTokens, GrantsStand
  <2> QED BY <1>1, <2>1, <2>2, RegistrySpares, SparedIsHeld DEF TrialsTyped
<1>2. ASSUME NEW k \in Trials, Schedule(k)
      PROVE  SchedulerInv'
  <2>1. trial' = [trial EXCEPT ![k] = Scheduled(trial[k])] /\ UNCHANGED corpusVars
      BY <1>2 DEF Schedule
  <2>2. UNCHANGED <<status, lease, grant, exposures, contaminated, retiring>> /\ CorpusInv'
      BY <2>1, CorpusNextKeepsInv DEF corpusVars
  <2>3. TrialsTyped' /\ trial'[k].status = "scheduled"
      BY <2>1, ScheduledFacts DEF TrialsTyped
  <2>4. \A j \in Trials \ {k} : trial'[j] = trial[j]
      BY <2>1 DEF TrialsTyped
  <2> QED BY <2>2, <2>3, <2>4 DEF Held
<1>3. CASE RecoverTrials
    BY <1>3, RecoverTrialsKeepsInv
<1>4. ASSUME NEW k \in Trials, NEW t \in Tokens, ClaimDue(k, t)
      PROVE  SchedulerInv'
    BY <1>4, ClaimKeepsInv
<1>5. ASSUME NEW k \in Trials, NEW t \in Tokens,
             NEW report \in {"exposed", "infrastructure"}, Complete(k, t, report)
      PROVE  SchedulerInv'
    BY <1>5, CompleteKeepsInv
<1>6. CASE TickBoth
    BY <1>6, TickBothKeepsInv
<1>7. CASE UNCHANGED schedulerVars
  <2>1. UNCHANGED corpusVars /\ trial' = trial
      BY <1>7 DEF schedulerVars
  <2>2. UNCHANGED <<status, lease, grant, exposures, contaminated, retiring>> /\ CorpusInv'
      BY <2>1, CorpusNextKeepsInv DEF corpusVars
  <2> QED BY <2>1, <2>2 DEF TrialsTyped, Held
<1> QED BY <1>1, <1>2, <1>3, <1>4, <1>5, <1>6, <1>7 DEF SchedulerNext

\* In every behaviour of the scheduler over a busy inventory, SchedulerInv.
THEOREM SchedulerInvariance == SchedulerSpec => []SchedulerInv
BY SchedulerInitInv, SchedulerNextKeepsInv, PTL DEF SchedulerSpec

\* While the lease of a trial runs, its item is leased to it as long, or has
\* left the inventory: no other caller of the registry takes it away.
THEOREM TrialsHold == SchedulerSpec => []TrialsHoldTheirItems
<1>1. SchedulerInv => TrialsHoldTheirItems
    BY DEF SchedulerInv, Held, TrialsHoldTheirItems
<1> QED BY <1>1, SchedulerInvariance, PTL

\* Leases match their grants beside the scheduler too, which writes the
\* inventory's rows without its operations, and may be given an item whose group
\* is being retired.
THEOREM InventoryStands == SchedulerSpec => []LeasesMatchGrants
<1>1. SchedulerInv => LeasesMatchGrants
    BY NoLeaseTyped DEF SchedulerInv, CorpusInv, Matched, Answered, LeasesMatchGrants, RowsTyped
<1> QED BY <1>1, SchedulerInvariance, PTL

\* A trial completes once, by a holder of its lease.
OutcomesStep ==
    \A k \in Trials :
        /\ trial[k].status = "complete" => trial'[k] = trial[k]
        /\ trial[k].status # "complete" /\ trial'[k].status = "complete" =>
              \A i \in Items : lease'[i] # lease[i] => lease[i].token = trial[k].token

LEMMA NextFromHolders ==
    ASSUME SchedulerInv, SchedulerNext, NEW k \in Trials
    PROVE  /\ trial[k].status = "complete" => trial'[k] = trial[k]
           /\ trial[k].status # "complete" /\ trial'[k].status = "complete" =>
                 \A i \in Items : lease'[i] # lease[i] => lease[i].token = trial[k].token
<1> USE DEF SchedulerInv
<1>1. CASE RegistryStep
    BY <1>1 DEF RegistryStep
<1>2. ASSUME NEW j \in Trials, Schedule(j)
      PROVE  /\ trial[k].status = "complete" => trial'[k] = trial[k]
             /\ trial'[k].status = "complete" => trial[k].status = "complete"
    BY <1>2, ScheduledFacts DEF Schedule, TrialsTyped
<1>3. ASSUME RecoverTrials
      PROVE  /\ trial[k].status = "complete" => trial'[k] = trial[k]
             /\ trial'[k].status = "complete" => trial[k].status = "complete"
    BY <1>3, ScheduledFacts DEF RecoverTrials, TrialsTyped, Overdue
<1>4. ASSUME NEW j \in Trials, NEW t \in Tokens, ClaimDue(j, t)
      PROVE  /\ trial[k].status = "complete" => trial'[k] = trial[k]
             /\ trial'[k].status = "complete" => trial[k].status = "complete"
  <2> DEFINE claimed == [trial[j] EXCEPT !.status = "leased", !.token = t, !.left = LeaseFor]
  <2>1. claimed.status = "leased"
      BY Zenon, ClaimedFacts DEF TrialsTyped
  <2>2. /\ trial'[k] = IF k = j THEN claimed
                       ELSE IF k \in Overdue THEN Scheduled(trial[k]) ELSE trial[k]
        /\ trial[j].status = "scheduled" \/ j \in Overdue
      BY <1>4 DEF ClaimDue, Claimable
  <2> HIDE DEF claimed
  <2> QED BY <2>1, <2>2, ScheduledFacts DEF Overdue, TrialsTyped
<1>5. ASSUME NEW j \in Trials, NEW t \in Tokens,
             NEW report \in {"exposed", "infrastructure"}, Complete(j, t, report)
      PROVE  /\ trial[k].status = "complete" => trial'[k] = trial[k]
             /\ trial[k].status # "complete" /\ trial'[k].status = "complete" =>
                   \A i \in Items : lease'[i] # lease[i] => lease[i].token = trial[k].token
  <2>1. /\ trial[j].status = "leased" /\ trial[j].token = t /\ lease[ItemOf[j]].token = t
        /\ \A i \in Items \ {ItemOf[j]} : lease'[i] = lease[i]
        /\ k # j => trial'[k] = trial[k]
      BY <1>5 DEF Complete, TrialsTyped, CorpusInv, RowsTyped
  <2> QED BY <2>1
<1>6. ASSUME TickBoth
      PROVE  /\ trial[k].status = "complete" => trial'[k] = trial[k]
             /\ trial'[k].status = "complete" => trial[k].status = "complete"
  <2>1. trial'[k] = [trial[k] EXCEPT !.left = IF @ > 0 THEN @ - 1 ELSE 0]
      BY <1>6 DEF TickBoth
  <2>2. trial[k] \in TrialRows /\ (trial[k].status = "complete" => trial[k].left = 0)
      BY DEF TrialsTyped
  <2> QED BY <2>1, <2>2, LaterFacts, Zenon
<1> QED BY <1>1, <1>2, <1>3, <1>4, <1>5, <1>6 DEF SchedulerNext

\* An outcome reported late, after another was given the item, neither counts
\* nor frees the item.
THEOREM OutcomesFromHolders == SchedulerSpec => OutcomesComeFromHolders
<1>1. SchedulerInv /\ [SchedulerNext]_schedulerVars => [OutcomesStep]_schedulerVars
    BY NextFromHolders DEF OutcomesStep
<1> QED BY <1>1, SchedulerInvariance, PTL DEF SchedulerSpec, OutcomesComeFromHolders, OutcomesStep

-----------------------------------------------------------------------------
(* Training data.                                                          *)

TrainingNext ==
    \/ Next /\ StampItems /\ UNCHANGED <<materialVars, learningVars, compilerVars>>
    \/ (AttemptNext \/ SourceNext)
       /\ UNCHANGED <<corpusVars, registered, learningVars, compilerVars>>
    \/ LearningNext /\ UNCHANGED <<corpusVars, registered, materialVars, compilerVars>>
    \/ CompilerNext /\ UNCHANGED <<corpusVars, registered, materialVars, learningVars>>

TrainingSpec == Init /\ TrainingInit /\ [][TrainingNext]_<<corpusVars, trainingVars>>

-----------------------------------------------------------------------------
(* The rows a snapshot as of t teaches of the items it was read with.      *)

SpoiledIn(items, i) == \E x \in items : x[1] = i /\ (x[2] = "quarantined" \/ x[3])

ShownIn(items, i) == \E x \in items : x[1] = i /\ x[2] \in {"active", "leased"} /\ ~x[3]

TeachesFrom(items, a, lane, t) ==
    /\ a \in TargetOutputs /\ attempted[a] <= t
    /\ lane \in FitFor[a] /\ ~SpoiledIn(items, TaskOf[a])
    /\ lane \in {"sft", "preference"} => graded[a] <= t
    /\ EligibleFor(a, lane, t)

MaterialFrom(items, t) ==
    {MaterialRow(x[1], {x[2]}) : x \in {y \in {"sft", "rlvr", "process"} \X Attempts :
                                           TeachesFrom(items, y[2], y[1], t)}}
    \union {MaterialRow("preference", pair) : pair \in
               {p \in Contrasts(t) : \A a \in p : TeachesFrom(items, a, "preference", t)}}
    \union {MaterialRow("continued_pretraining", {d}) : d \in {e \in Documents : PretrainsOn(e, t)}}
    \union {MaterialRow("authored_sft", {m}) : m \in
               {n \in Demonstrations : demonstrated[n] <= t /\ ShownIn(items, DemonstratedOn[n])}}

-----------------------------------------------------------------------------
(* The inductive invariant.                                                *)

\* A stamp is of a compilation that has been, or none yet.
Stamps(stamps, rows) ==
    stamps \in [rows -> Nat] /\ \A x \in rows : stamps[x] = Never \/ stamps[x] <= now

Dated ==
    /\ now \in 0..MaxCompiles
    /\ Stamps(registered, Items) /\ Stamps(attempted, Attempts)
    /\ Stamps(graded, Attempts) /\ Stamps(demonstrated, Demonstrations)
    /\ \A v \in verdicts : v.says \in VerdictChoices /\ v.at \in Nat

\* What cites an item is not older than the item.
Cited ==
    /\ \A i \in Items : registered[i] = Never <=> status[i] = "absent"
    /\ \A a \in Attempts : registered[TaskOf[a]] <= attempted[a]
    /\ \A m \in Demonstrations : registered[DemonstratedOn[m]] <= demonstrated[m]

\* Decisions and the events of an authority are in order, and a withdrawn
\* authority stays withdrawn.
Event == [to : TrainingStatuses \union WithdrawnStatuses, at : Nat]

Governed ==
    /\ rulingsOn \in [Documents -> Seq([status : SourceStatuses, contaminated : BOOLEAN, at : Nat])]
    /\ admitted \in Seq(Documents)
    /\ \A r \in LearningRollouts : ended[r].status = "active" => ended[r].at = Never
    /\ ended \in [LearningRollouts -> [status : {"active", "complete", "abandoned"}, at : Nat]]
    /\ lifecycle \in [Authorizations -> Seq(Event)]
    /\ \A u \in Authorizations :
          /\ lifecycle[u] # <<>> /\ lifecycle[u][1].at = 0
          /\ \A k, n \in DOMAIN lifecycle[u] :
                k < n /\ lifecycle[u][k].to \in WithdrawnStatuses
                => lifecycle[u][n].to \in WithdrawnStatuses

Written == {bundles[n] : n \in DOMAIN bundles}

\* A bundle was compiled before everything written since, its rows are those
\* of its own records, and what it excludes for good is excluded now.
ReadFrom(b) == b.rows = MaterialFrom(b.digest.developmental.items, b.asOf) \union LearningRows(b.asOf)

Excludes(b) ==
    \A t \in Nat : b.asOf <= t /\ t <= now =>
        b.excluded \subseteq SpoiledSources(t) \union WithdrawnSources(t)

Compiled ==
    /\ bundles \in Seq(Written)
    /\ \A b \in Written : b.asOf \in Nat /\ b.asOf < now /\ ReadFrom(b) /\ Excludes(b)

TrainingInv ==
    /\ CorpusInv /\ Dated /\ Cited /\ Governed /\ Compiled /\ ExclusionsLast

-----------------------------------------------------------------------------
(* Maxima.                                                                 *)

LEMMA BestExists ==
    ASSUME NEW S, IsFiniteSet(S), S # {}, NEW value, \A x \in S : value[x] \in Int
    PROVE  \E x \in S : \A y \in S : value[x] >= value[y]
<1> DEFINE better(x) == {y \in S : value[y] > value[x]}
           sets == {better(x) : x \in S}
<1>1. sets \subseteq FiniteSubsetsOf(S) /\ sets # {}
  <2>1. sets \subseteq SUBSET S
      OBVIOUS
  <2>2. FiniteSubsetsOf(S) = SUBSET S
      BY FS_FiniteSubsetsOfFinite
  <2>3. sets # {}
      OBVIOUS
  <2> QED BY <2>1, <2>2, <2>3
<1>2. PICK T \in sets : \A U \in sets : <<U, T>> \notin StrictSubsetOrdering(S)
    BY <1>1, FS_StrictSubsetOrderingWellFounded, WFMin
<1>3. PICK x \in S : T = better(x)
    BY <1>2
<1>4. ASSUME NEW y \in S, value[y] > value[x]
      PROVE  FALSE
  <2>1. better(y) \subseteq better(x) /\ y \in better(x) /\ y \notin better(y)
      BY <1>4
  <2>2. <<better(y), better(x)>> \in StrictSubsetOrdering(S)
      BY <2>1 DEF StrictSubsetOrdering
  <2> QED BY <1>2, <1>3, <2>2
<1> QED BY <1>4

LEMMA WorstExists ==
    ASSUME NEW S, IsFiniteSet(S), S # {}, NEW value, \A x \in S : value[x] \in Int
    PROVE  \E x \in S : \A y \in S : value[x] <= value[y]
<1> DEFINE less == [x \in S |-> -value[x]]
<1>1. \A x \in S : less[x] \in Int /\ less[x] = -value[x]
    OBVIOUS
<1>2. PICK x \in S : \A y \in S : less[x] >= less[y]
    BY <1>1, BestExists
<1> HIDE DEF less
<1> QED BY <1>1, <1>2

\* The pair is of S.
LEMMA PairFacts ==
    ASSUME NEW S, IsFiniteSet(S), S # {}, NEW value, \A x \in S : value[x] \in Int
    PROVE  BestAndWorst(S, value) \subseteq S
BY BestExists, WorstExists DEF BestAndWorst

\* The last row read is one of them, and none is after it.
LEMMA LastFacts ==
    ASSUME NEW E, NEW s \in Seq(E), NEW t, NEW k \in DOMAIN s, s[k].at <= t
    PROVE  \E n \in DOMAIN s : /\ k <= n /\ s[n].at <= t /\ LastOf(AsOf(s, t)) = s[n]
<1> DEFINE rows == DOMAIN AsOf(s, t)
           itself == [n \in rows |-> n]
<1>1. rows = {n \in DOMAIN s : s[n].at <= t} /\ \A n \in rows : AsOf(s, t)[n] = s[n]
    BY DEF AsOf
<1>2. DOMAIN s = 1..Len(s) /\ Len(s) \in Nat
    OBVIOUS
<1>3. IsFiniteSet(rows) /\ k \in rows /\ rows \subseteq Int
  <2>1. rows \subseteq 1..Len(s) /\ k \in rows
      BY <1>1, <1>2
  <2>2. IsFiniteSet(1..Len(s))
      BY <1>2, FS_Interval
  <2> HIDE DEF rows
  <2>3. IsFiniteSet(rows)
      BY <2>1, <2>2, FS_Subset
  <2> QED BY <1>2, <2>1, <2>3
<1> HIDE DEF rows
<1>4. \A n \in rows : itself[n] \in Int /\ itself[n] = n
    BY <1>3
<1> HIDE DEF itself
<1>5. \E n \in rows : \A m \in rows : itself[n] >= itself[m]
    BY <1>3, <1>4, BestExists
<1>6. \E n \in rows : \A m \in rows : m <= n
    BY <1>3, <1>4, <1>5
<1> DEFINE last == CHOOSE n \in rows : \A m \in rows : m <= n
<1>7. last \in rows /\ \A m \in rows : m <= last
    BY <1>6
<1>8. LastOf(AsOf(s, t)) = AsOf(s, t)[last]
    BY DEF LastOf, rows
<1> HIDE DEF last
<1>9. /\ last \in DOMAIN s /\ s[last].at <= t /\ k <= last
      /\ AsOf(s, t)[last] = s[last]
    BY <1>1, <1>3, <1>7
<1> QED BY <1>8, <1>9

-----------------------------------------------------------------------------
(* The inventory: what is spoiled stays spoiled.                           *)

LEMMA ItemsMove ==
    ASSUME CorpusInv, Next
    PROVE  /\ CorpusInv'
           /\ \A i \in Items : /\ status[i] = "quarantined" => status'[i] = "quarantined"
                               /\ status[i] # "absent" => status'[i] # "absent"
           /\ contaminated \subseteq contaminated'
<1> DEFINE Moves ==
        /\ \A i \in Items : /\ status[i] = "quarantined" => status'[i] = "quarantined"
                            /\ status[i] # "absent" => status'[i] # "absent"
        /\ contaminated \subseteq contaminated'
<1>1. CorpusInv'
    BY CorpusNextKeepsInv
<1>2. ASSUME NEW S, NEW from, NEW to, Drop(S, from, to), contaminated \subseteq contaminated',
             "quarantined" \notin from, to # "absent"
      PROVE  Moves
    BY <1>2 DEF Drop
<1>3. ASSUME NEW S \in SUBSET Items, NEW valid \in BOOLEAN, Register(S, valid)
      PROVE  Moves
    BY <1>3 DEF Register
<1>4. ASSUME Recover
      PROVE  Moves
    BY <1>2, <1>4 DEF Recover
<1>5. ASSUME NEW o \in Owners, NEW s \in Students, NEW t \in Tokens,
             LeaseItem(o, s, t) \/ LeaseMatchedGroup(o, s, t)
      PROVE  Moves
  <2>1. PICK S \in SUBSET Leasable(s) : Grant(o, s, S, t)
      BY <1>5 DEF LeaseItem, LeaseMatchedGroup, Blocks
  <2>2. \A i \in S \union Expired : status[i] \in {"active", "leased"}
      BY <2>1 DEF Leasable, Expired
  <2> QED BY <2>1, <2>2 DEF Grant
<1>6. ASSUME NEW t \in Tokens, NEW i \in Items,
             \/ ReleaseLease(t, i) \/ RecordPromptAndReturn(t, i) \/ ReadSiblings(t, i)
             \/ \E answer \in BOOLEAN : RecordExposure(t, i, answer)
      PROVE  Moves
  <2>1. CASE ReleaseLease(t, i)
      BY <1>2, <2>1 DEF ReleaseLease
  <2>2. CASE RecordPromptAndReturn(t, i)
    <3>1. status[i] # "quarantined"
        BY <1>6, <2>2, OwnsIsLeased DEF RecordPromptAndReturn
    <3> QED BY <2>2, <3>1 DEF RecordPromptAndReturn, CorpusInv, RowsTyped
  <2>3. CASE UNCHANGED <<status, contaminated>>
      BY <2>3
  <2> QED BY <1>6, <2>1, <2>2, <2>3 DEF ReadSiblings, RecordExposure
<1>7. ASSUME NEW i \in Items, Retire(i) \/ Abort(i)
      PROVE  Moves
    BY <1>7 DEF Retire, Abort, RetireRows
<1>8. ASSUME NEW i \in Items, NEW closeFamily \in BOOLEAN, Quarantine(i, closeFamily)
      PROVE  Moves
  <2> DEFINE closed == IF closeFamily
                       THEN {j \in Items : FamilyOf[GroupOf[j]] = FamilyOf[GroupOf[i]]} ELSE {i}
  <2>1. /\ Drop(closed, {"active", "leased", "retired"}, "quarantined")
        /\ contaminated \subseteq contaminated'
      BY <1>8 DEF Quarantine
  <2> HIDE DEF closed
  <2> QED BY <1>2, <2>1
<1>9. ASSUME Tick
      PROVE  Moves
    BY <1>9 DEF Tick
<1> HIDE DEF Moves
<1>10. Moves
    BY <1>3, <1>4, <1>5, <1>6, <1>7, <1>8, <1>9 DEF Next
<1> QED BY <1>1, <1>10 DEF Moves

\* What the records as of t say of an item, if they say anything, is so.
LEMMA ViewFacts ==
    ASSUME NEW t, NEW i \in Items, registered[i] <= t, DOMAIN registered = Items
    PROVE  /\ SpoiledIn(MaterialEvidence(t).items, i) <=> Spoiled(i)
           /\ ShownIn(MaterialEvidence(t).items, i)
                 <=> status[i] \in {"active", "leased"} /\ ~Tainted(i)
<1> DEFINE seen == {x \in Items : registered[x] <= t}
           row(j) == <<j, status[j], Tainted(j)>>
           view == {row(j) : j \in seen}
<1>1. MaterialEvidence(t).items = view
  <2>1. StampedBy(registered, t) = seen
      BY DEF StampedBy
  <2> HIDE DEF seen
  <2> QED BY <2>1, Zenon DEF MaterialEvidence
<1>2. ASSUME NEW j
      PROVE  row(j)[1] = j /\ row(j)[2] = status[j] /\ row(j)[3] = Tainted(j)
    OBVIOUS
<1>3. i \in seen
    OBVIOUS
<1> HIDE DEF row, seen
<1>4. ASSUME NEW x \in view, x[1] = i
      PROVE  x = row(i)
    BY <1>2, <1>4
<1>5. row(i) \in view
    BY <1>3
<1> HIDE DEF view
<1>6. SpoiledIn(view, i) <=> row(i)[2] = "quarantined" \/ row(i)[3]
    BY <1>2, <1>4, <1>5, Zenon DEF SpoiledIn
<1>7. ShownIn(view, i) <=> row(i)[2] \in {"active", "leased"} /\ ~row(i)[3]
    BY <1>2, <1>4, <1>5, Zenon DEF ShownIn
<1>8. (row(i)[3] <=> Tainted(i)) /\ row(i)[2] = status[i]
    BY <1>2, Zenon
<1> QED BY <1>1, <1>6, <1>7, <1>8, Zenon DEF Spoiled

-----------------------------------------------------------------------------
(* What was written before the latest compilation is read as it was.       *)

LEMMA AppendedLater ==
    ASSUME NEW E, NEW s \in Seq(E), NEW e \in E, NEW t, ~(e.at <= t)
    PROVE  AsOf(Append(s, e), t) = AsOf(s, t)
<1> DEFINE r == Append(s, e)
           old == {n \in DOMAIN s : s[n].at <= t}
           new == {n \in DOMAIN r : r[n].at <= t}
<1>1. /\ DOMAIN r = (DOMAIN s) \union {Len(s) + 1} /\ r[Len(s) + 1] = e
      /\ \A n \in DOMAIN s : r[n] = s[n]
    OBVIOUS
<1> HIDE DEF r
<1>2. new = old
    BY <1>1
<1>3. \A n \in old : r[n] = s[n]
    BY <1>1
<1>4. AsOf(s, t) = [n \in old |-> s[n]] /\ AsOf(r, t) = [n \in new |-> r[n]]
    BY DEF AsOf
<1> HIDE DEF old, new
<1>5. [n \in old |-> r[n]] = [n \in old |-> s[n]]
    BY <1>3
<1> QED BY <1>2, <1>4, <1>5 DEF r

LEMMA StampedLater ==
    ASSUME Dated, NEW stamps, NEW rows, Stamps(stamps, rows), NEW x \in rows, Stamp(stamps, x),
           NEW t \in Nat, t < now, NEW new, new = [stamps EXCEPT ![x] = now]
    PROVE  \A y \in rows : new[y] <= t <=> stamps[y] <= t
BY ClockAssumption, CompilerAssumption DEF Dated, Stamps, Stamp

\* Whatever is recorded now is not among the material as of an earlier stamp.
Material == AttemptNext \/ SourceNext \/ UNCHANGED materialVars

LEMMA AttemptsStand ==
    ASSUME Dated, Material, NEW t \in Nat, t < now
    PROVE  /\ \A a \in Attempts : /\ attempted'[a] <= t <=> attempted[a] <= t
                                  /\ graded'[a] <= t <=> graded[a] <= t
           /\ \A m \in Demonstrations : demonstrated'[m] <= t <=> demonstrated[m] <= t
           /\ {v \in verdicts' : v.at <= t} = {v \in verdicts : v.at <= t}
<1> DEFINE Stands ==
        /\ \A a \in Attempts : /\ attempted'[a] <= t <=> attempted[a] <= t
                               /\ graded'[a] <= t <=> graded[a] <= t
        /\ \A m \in Demonstrations : demonstrated'[m] <= t <=> demonstrated[m] <= t
        /\ {v \in verdicts' : v.at <= t} = {v \in verdicts : v.at <= t}
<1>1. ASSUME NEW a \in Attempts, StoreAttempt(a)
      PROVE  Stands
  <2>1. \A y \in Attempts : attempted'[y] <= t <=> attempted[y] <= t
      BY <1>1, StampedLater DEF StoreAttempt, Dated
  <2> QED BY <1>1, <2>1 DEF StoreAttempt
<1>2. ASSUME NEW a \in Attempts, StoreGrade(a)
      PROVE  Stands
  <2>1. \A y \in Attempts : graded'[y] <= t <=> graded[y] <= t
      BY <1>2, StampedLater DEF StoreGrade, Dated
  <2> QED BY <1>2, <2>1 DEF StoreGrade
<1>3. ASSUME NEW v \in VerdictChoices, RecordVerdict(v)
      PROVE  Stands
  <2>1. ~(now <= t)
      BY DEF Dated
  <2> QED BY <1>3, <2>1 DEF RecordVerdict
<1>4. ASSUME NEW m \in Demonstrations, AdmitDemonstration(m)
      PROVE  Stands
  <2>1. \A y \in Demonstrations : demonstrated'[y] <= t <=> demonstrated[y] <= t
      BY <1>4, StampedLater DEF AdmitDemonstration, Dated
  <2> QED BY <1>4, <2>1 DEF AdmitDemonstration
<1>5. ASSUME SourceNext \/ UNCHANGED materialVars
      PROVE  Stands
    BY <1>5 DEF SourceNext, AdmitSource, DecideSource, materialVars
<1> HIDE DEF Stands
<1>6. Stands
    BY <1>1, <1>2, <1>3, <1>4, <1>5 DEF Material, AttemptNext
<1> QED BY <1>6 DEF Stands

LEMMA SourcesStand ==
    ASSUME Dated, Governed, Material, NEW t \in Nat, t < now, NEW d \in Documents
    PROVE  PretrainsOn(d, t)' <=> PretrainsOn(d, t)
<1> DEFINE E == [status : SourceStatuses, contaminated : BOOLEAN, at : Nat]
<1>1. ASSUME NEW to \in SourceStatuses, NEW tainted \in BOOLEAN
      PROVE  Ruling(to, tainted) \in E /\ ~(Ruling(to, tainted).at <= t)
    BY DEF Ruling, Dated
<1>2. \A x \in Documents : rulingsOn[x] \in Seq(E)
    BY DEF Governed
<1> HIDE DEF E
<1>3. ASSUME \A x \in Documents : RulingsBy(x, t)' = RulingsBy(x, t)
      PROVE  /\ \A x \in Documents : ActiveSource(x, t)' <=> ActiveSource(x, t)
             /\ admitted' = admitted => (PretrainsOn(d, t)' <=> PretrainsOn(d, t))
  <2>1. \A x \in Documents : ActiveSource(x, t)' <=> ActiveSource(x, t)
      BY <1>3 DEF ActiveSource
  <2>2. \A k \in DOMAIN admitted : admitted[k] \in Documents
      BY DEF Governed
  <2>3. LastOf(RulingsBy(d, t)').contaminated = LastOf(RulingsBy(d, t)).contaminated
      BY <1>3
  <2> QED BY <2>1, <2>2, <2>3 DEF PretrainsOn
<1>4. ASSUME NEW e \in Documents, NEW to \in SourceStatuses, NEW tainted \in BOOLEAN,
             DecideSource(e, to, tainted)
      PROVE  PretrainsOn(d, t)' <=> PretrainsOn(d, t)
  <2>1. \A x \in Documents : rulingsOn'[x] = IF x = e THEN Append(rulingsOn[e], Ruling(to, tainted))
                                                      ELSE rulingsOn[x]
      BY <1>4 DEF DecideSource, Governed
  <2>2. \A x \in Documents : RulingsBy(x, t)' = RulingsBy(x, t)
      BY <1>1, <1>2, <2>1, AppendedLater DEF RulingsBy
  <2> QED BY <1>3, <1>4, <2>2 DEF DecideSource
<1>5. ASSUME NEW e \in Documents, NEW to \in SourceStatuses, NEW tainted \in BOOLEAN,
             AdmitSource(e, to, tainted)
      PROVE  PretrainsOn(d, t)' <=> PretrainsOn(d, t)
  <2>1. \A x \in Documents : rulingsOn'[x] = IF x = e THEN Append(rulingsOn[e], Ruling(to, tainted))
                                                      ELSE rulingsOn[x]
      BY <1>5 DEF AdmitSource, Governed
  <2>2. \A x \in Documents : RulingsBy(x, t)' = RulingsBy(x, t)
      BY <1>1, <1>2, <2>1, AppendedLater DEF RulingsBy
  <2>3. ~ActiveSource(e, t) /\ ~ActiveSource(e, t)'
    <3>1. DOMAIN RulingsBy(e, t) = {}
        BY <1>5 DEF AdmitSource, RulingsBy, AsOf
    <3> QED BY <1>3, <2>2, <3>1 DEF ActiveSource
  <2>4. /\ DOMAIN admitted' = (DOMAIN admitted) \union {Len(admitted) + 1}
        /\ admitted'[Len(admitted) + 1] = e /\ \A k \in DOMAIN admitted : admitted'[k] = admitted[k]
        /\ \A k \in DOMAIN admitted : admitted[k] \in Documents
      BY <1>5 DEF AdmitSource, Governed
  <2>5. CASE d = e
      BY <2>3, <2>5 DEF PretrainsOn
  <2>6. CASE d # e
    <3>1. LastOf(RulingsBy(d, t)').contaminated = LastOf(RulingsBy(d, t)).contaminated
        BY <2>2
    <3>2. \A x \in Documents : ActiveSource(x, t)' <=> ActiveSource(x, t)
        BY <1>3, <2>2
    <3> QED BY <2>3, <2>4, <2>6, <3>1, <3>2 DEF PretrainsOn
  <2> QED BY <2>5, <2>6
<1>6. CASE UNCHANGED <<rulingsOn, admitted>>
    BY <1>3, <1>6 DEF RulingsBy
<1> QED BY <1>4, <1>5, <1>6 DEF Material, SourceNext, AttemptNext, StoreAttempt, StoreGrade,
            RecordVerdict, AdmitDemonstration, materialVars

LEMMA MaterialStands ==
    ASSUME Dated, Governed, Material, NEW t \in Nat, t < now \/ UNCHANGED materialVars, NEW items
    PROVE  MaterialFrom(items, t)' = MaterialFrom(items, t)
<1>0. /\ \A a \in Attempts : /\ attempted'[a] <= t <=> attempted[a] <= t
                             /\ graded'[a] <= t <=> graded[a] <= t
      /\ \A m \in Demonstrations : demonstrated'[m] <= t <=> demonstrated[m] <= t
      /\ {v \in verdicts' : v.at <= t} = {v \in verdicts : v.at <= t}
    BY AttemptsStand DEF materialVars
<1>1. ASSUME NEW a \in Attempts, NEW lane
      PROVE  EligibleFor(a, lane, t)' <=> EligibleFor(a, lane, t)
  <2>1. SaidOf(a, t) = {w.says : w \in {v \in {u \in verdicts : u.at <= t} : v.says.subject \in {a, TaskOf[a]}}}
      BY DEF SaidOf
  <2>2. SaidOf(a, t)' = {w.says : w \in {v \in {u \in verdicts' : u.at <= t} : v.says.subject \in {a, TaskOf[a]}}}
      BY DEF SaidOf
  <2>3. SaidOf(a, t)' = SaidOf(a, t)
      BY <2>1, <2>2, <1>0
  <2> QED BY <2>3 DEF EligibleFor
<1>2. ASSUME NEW a, NEW lane
      PROVE  TeachesFrom(items, a, lane, t)' <=> TeachesFrom(items, a, lane, t)
    BY <1>1, <1>0, ProductsAssumption DEF TeachesFrom
<1>3. Contrasts(t)' = Contrasts(t)
  <2> DEFINE outputs(p) == {a \in TargetOutputs : PromptOf[a] = p /\ graded[a] <= t}
             before(p) == {a \in TargetOutputs : PromptOf[a] = p /\ graded'[a] <= t}
  <2>1. \A p : before(p) = outputs(p)
      BY <1>0, ProductsAssumption
  <2>2. {before(PromptOf[a]) : a \in TargetOutputs} = {outputs(PromptOf[a]) : a \in TargetOutputs}
      BY <2>1
  <2> QED BY <2>2, Zenon DEF Contrasts
<1>4. \A d \in Documents : PretrainsOn(d, t)' <=> PretrainsOn(d, t)
  <2>1. ASSUME NEW d \in Documents, UNCHANGED <<rulingsOn, admitted>>
        PROVE  PretrainsOn(d, t)' <=> PretrainsOn(d, t)
      BY <2>1 DEF PretrainsOn, ActiveSource, RulingsBy
  <2> QED BY <2>1, SourcesStand DEF materialVars
<1>5. \A m \in Demonstrations : demonstrated'[m] <= t <=> demonstrated[m] <= t
    BY <1>0
<1> DEFINE taught == {y \in {"sft", "rlvr", "process"} \X Attempts : TeachesFrom(items, y[2], y[1], t)}
           pairs == {p \in Contrasts(t) : \A a \in p : TeachesFrom(items, a, "preference", t)}
           pretrained == {e \in Documents : PretrainsOn(e, t)}
           authored == {n \in Demonstrations : demonstrated[n] <= t /\ ShownIn(items, DemonstratedOn[n])}
<1>6. taught' = taught
    BY <1>2
<1>7. pairs' = pairs
    BY <1>2, <1>3
<1>8. pretrained' = pretrained
    BY <1>4
<1>9. authored' = authored
    BY <1>5
<1> HIDE DEF taught, pairs, pretrained, authored
<1>10. MaterialFrom(items, t) =
         {MaterialRow(x[1], {x[2]}) : x \in taught} \union {MaterialRow("preference", pair) : pair \in pairs}
         \union {MaterialRow("continued_pretraining", {d}) : d \in pretrained}
         \union {MaterialRow("authored_sft", {m}) : m \in authored}
    BY DEF MaterialFrom, taught, pairs, pretrained, authored
<1>11. MaterialFrom(items, t)' =
         {MaterialRow(x[1], {x[2]}) : x \in taught'} \union {MaterialRow("preference", pair) : pair \in pairs'}
         \union {MaterialRow("continued_pretraining", {d}) : d \in pretrained'}
         \union {MaterialRow("authored_sft", {m}) : m \in authored'}
    BY DEF MaterialFrom, taught, pairs, pretrained, authored, MaterialRow
<1> QED BY <1>6, <1>7, <1>8, <1>9, <1>10, <1>11

\* Nor is it among what the rollouts are taught by.
Learning == LearningNext \/ UNCHANGED learningVars

LEMMA AuthorityStands ==
    ASSUME Dated, Governed, Learning, NEW t \in Nat, t < now, NEW u \in Authorizations
    PROVE  StatusAt(u, t)' = StatusAt(u, t)
<1>1. ASSUME NEW to \in TrainingStatuses \union WithdrawnStatuses, AmberTransition(u, to)
      PROVE  AsOf(lifecycle[u], t)' = AsOf(lifecycle[u], t)
  <2> DEFINE e == [to |-> to, at |-> now]
  <2>1. lifecycle'[u] = Append(lifecycle[u], e)
      BY <1>1 DEF AmberTransition, Governed
  <2>2. e \in Event /\ ~(e.at <= t)
      BY DEF Event, Dated
  <2>3. lifecycle[u] \in Seq(Event)
      BY DEF Governed
  <2> HIDE DEF e
  <2>4. AsOf(lifecycle'[u], t) = AsOf(lifecycle[u], t)
      BY <2>1, <2>2, <2>3, AppendedLater
  <2> QED BY <2>4 DEF AsOf
<1>2. ASSUME lifecycle'[u] = lifecycle[u]
      PROVE  AsOf(lifecycle[u], t)' = AsOf(lifecycle[u], t)
    BY <1>2 DEF AsOf
<1>3. lifecycle'[u] = lifecycle[u]
      \/ \E to \in TrainingStatuses \union WithdrawnStatuses : AmberTransition(u, to)
    BY DEF Learning, LearningNext, learningVars, AmberTransition, Governed, EndRollout,
           RecordOutcome, RecordTrainingEligibility, Lapse
<1> QED BY <1>1, <1>2, <1>3 DEF StatusAt

LEMMA RulingsStand ==
    ASSUME Dated, Governed, Learning, NEW t \in Nat, t < now
    PROVE  /\ \A r \in LearningRollouts : Teachable(r, t)' <=> Teachable(r, t)
           /\ {d \in rulings' : d.at <= t} = {d \in rulings : d.at <= t}
<1>1. ~(now <= t)
    BY DEF Dated
<1>2. \A r \in LearningRollouts :
        ended'[r].status = "complete" /\ ended'[r].at <= t
            <=> ended[r].status = "complete" /\ ended[r].at <= t
  <2>1. ASSUME NEW q \in LearningRollouts, NEW how, EndRollout(q, how), NEW r \in LearningRollouts
        PROVE  ended'[r].status = "complete" /\ ended'[r].at <= t
                   <=> ended[r].status = "complete" /\ ended[r].at <= t
      BY <1>1, <2>1 DEF EndRollout, Governed
  <2>2. ended' = ended \/ \E q \in LearningRollouts, how \in {"complete", "abandoned"} : EndRollout(q, how)
      BY DEF Learning, LearningNext, learningVars, AmberTransition, RecordOutcome,
             RecordTrainingEligibility, Lapse
  <2> QED BY <2>1, <2>2
<1>3. \A r \in LearningRollouts : AuthorizationOf[r] \in Authorizations
    BY DEF Authorizations
<1>4. {d \in rulings' : d.at <= t} = {d \in rulings : d.at <= t}
  <2>1. rulings' = rulings
        \/ \E r \in LearningRollouts, lanes \in LaneChoices : RecordTrainingEligibility(r, lanes)
      BY DEF Learning, LearningNext, learningVars, AmberTransition, RecordOutcome, Lapse, EndRollout
  <2>2. ASSUME NEW r, NEW lanes, RecordTrainingEligibility(r, lanes)
        PROVE  {d \in rulings' : d.at <= t} = {d \in rulings : d.at <= t}
      BY <1>1, <2>2 DEF RecordTrainingEligibility
  <2> QED BY <2>1, <2>2
<1> QED BY <1>2, <1>3, <1>4, AuthorityStands DEF Teachable

LEMMA LearningStands ==
    ASSUME Dated, Governed, Learning, NEW t \in Nat, t < now \/ UNCHANGED learningVars
    PROVE  LearningRows(t)' = LearningRows(t)
<1>0. /\ \A r \in LearningRollouts : Teachable(r, t)' <=> Teachable(r, t)
      /\ {d \in rulings' : d.at <= t} = {d \in rulings : d.at <= t}
  <2>1. ASSUME NEW r \in LearningRollouts, UNCHANGED <<ended, lifecycle>>
        PROVE  Teachable(r, t)' <=> Teachable(r, t)
      BY <2>1 DEF Teachable, StatusAt
  <2> QED BY <2>1, RulingsStand DEF learningVars
<1>1. ASSUME NEW r, NEW lane
      PROVE  Admitted(r, lane, t)' <=> Admitted(r, lane, t)
    BY <1>0 DEF Admitted
<1>2. ASSUME NEW lane
      PROVE  LearningFrom(lane, t)' = LearningFrom(lane, t)
    BY <1>1, <1>0 DEF LearningFrom
<1>3. ReplicationReady(t)' <=> ReplicationReady(t)
    BY <1>2, Zenon DEF ReplicationReady
<1>4. ForkPairs(t)' = ForkPairs(t)
  <2> DEFINE candidates == {r \in LearningFrom("trajectory", t) : Admitted(r, "fork_preference", t)}
             siblings == {{r \in candidates : ForkOf[r] = f} : f \in {ForkOf[r] : r \in candidates}}
  <2>1. candidates' = candidates
      BY <1>1, <1>2
  <2> HIDE DEF candidates
  <2>2. siblings' = siblings
      BY <2>1
  <2>3. ForkPairs(t) = {BestAndWorst(S, ReturnOf) : S \in {T \in siblings : Uneven(T, ReturnOf)}}
      BY Zenon DEF ForkPairs, candidates
  <2>4. ForkPairs(t)' = {BestAndWorst(S, ReturnOf) : S \in {T \in siblings' : Uneven(T, ReturnOf)}}
      BY Zenon DEF ForkPairs, candidates
  <2> HIDE DEF siblings
  <2> QED BY <2>2, <2>3, <2>4
<1>5. LearningRows(t)' =
          IF ~ReplicationReady(t)' THEN {}
          ELSE {Row("pprl_trajectory", {r}) : r \in LearningFrom("trajectory", t)'}
               \union {Row("pprl_verifiable", {r}) : r \in LearningFrom("verifiable_replay", t)'}
               \union {Row("pprl_fork_preference", pair) : pair \in ForkPairs(t)'}
    BY DEF LearningRows, Row
<1>6. LearningRows(t) =
          IF ~ReplicationReady(t) THEN {}
          ELSE {Row("pprl_trajectory", {r}) : r \in LearningFrom("trajectory", t)}
               \union {Row("pprl_verifiable", {r}) : r \in LearningFrom("verifiable_replay", t)}
               \union {Row("pprl_fork_preference", pair) : pair \in ForkPairs(t)}
    BY DEF LearningRows
<1>7. /\ LearningFrom("trajectory", t)' = LearningFrom("trajectory", t)
      /\ LearningFrom("verifiable_replay", t)' = LearningFrom("verifiable_replay", t)
    BY <1>2
<1> QED BY <1>3, <1>4, <1>5, <1>6, <1>7, Zenon

-----------------------------------------------------------------------------
(* What is excluded for good stays excluded.                               *)

TrainingStep == TrainingNext \/ UNCHANGED <<corpusVars, trainingVars>>

LEMMA StepParts ==
    ASSUME TrainingStep
    PROVE  /\ Material /\ Learning
           /\ \/ Next /\ StampItems /\ UNCHANGED materialVars
              \/ UNCHANGED <<corpusVars, registered>>
           /\ \/ UNCHANGED compilerVars
              \/ CompilerNext /\ UNCHANGED <<corpusVars, registered, materialVars, learningVars>>
<1>1. CASE Next /\ StampItems /\ UNCHANGED <<materialVars, learningVars, compilerVars>>
    BY <1>1 DEF Material, Learning
<1>2. CASE /\ AttemptNext \/ SourceNext
           /\ UNCHANGED <<corpusVars, registered, learningVars, compilerVars>>
    BY <1>2 DEF Material, Learning
<1>3. CASE LearningNext /\ UNCHANGED <<corpusVars, registered, materialVars, compilerVars>>
    BY <1>3 DEF Material, Learning
<1>4. CASE CompilerNext /\ UNCHANGED <<corpusVars, registered, materialVars, learningVars>>
    BY <1>4 DEF Material, Learning
<1>5. CASE UNCHANGED <<corpusVars, trainingVars>>
    BY <1>5 DEF Material, Learning, trainingVars
<1> QED BY <1>1, <1>2, <1>3, <1>4, <1>5 DEF TrainingStep, TrainingNext

LEMMA CorpusMoves ==
    ASSUME CorpusInv, Next \/ UNCHANGED corpusVars
    PROVE  /\ CorpusInv'
           /\ \A i \in Items : /\ status[i] = "quarantined" => status'[i] = "quarantined"
                               /\ status[i] # "absent" => status'[i] # "absent"
           /\ contaminated \subseteq contaminated'
<1>1. CASE Next
    BY <1>1, ItemsMove
<1>2. CASE UNCHANGED corpusVars
    BY <1>2, CorpusNextKeepsInv DEF corpusVars
<1> QED BY <1>1, <1>2

LEMMA AttemptsStay ==
    ASSUME Dated, Material
    PROVE  /\ \A a \in Attempts : attempted[a] # Never => attempted'[a] = attempted[a]
           /\ verdicts \subseteq verdicts'
<1>1. ASSUME NEW b \in Attempts, StoreAttempt(b), NEW a \in Attempts, attempted[a] # Never
      PROVE  attempted'[a] = attempted[a]
    BY <1>1 DEF StoreAttempt, Stamp, Dated, Stamps
<1> QED BY <1>1 DEF Material, AttemptNext, SourceNext, StoreAttempt, StoreGrade, RecordVerdict,
            AdmitDemonstration, AdmitSource, DecideSource, materialVars

LEMMA SpoiledStays ==
    ASSUME TrainingInv, TrainingStep, NEW t \in Nat, t <= now, NEW u \in Nat, t <= u
    PROVE  SpoiledSources(t) \subseteq SpoiledSources(u)'
<1>1. \A i \in Items : Spoiled(i) => Spoiled(i)'
    BY CorpusMoves, StepParts DEF Spoiled, Tainted, TrainingInv
<1>2. \A a \in Attempts : attempted[a] <= t => attempted'[a] <= u
  <2>1. Dated /\ Material
      BY StepParts DEF TrainingInv
  <2>2. t < Never
      BY <2>1, CompilerAssumption, ClockAssumption DEF Dated
  <2> QED BY <2>1, <2>2, AttemptsStay, ClockAssumption DEF Dated, Stamps
<1>3. {w \in verdicts : w.at <= t} \subseteq {w \in verdicts' : w.at <= u}
    BY AttemptsStay, StepParts DEF TrainingInv, Dated
<1>4. (\A a \in Attempts : TaskOf[a] \in Items) /\ \A m \in Demonstrations : DemonstratedOn[m] \in Items
    BY ProductsAssumption
<1> QED BY <1>1, <1>2, <1>3, <1>4 DEF SpoiledSources

LEMMA WithdrawnStays ==
    ASSUME Governed, Governed', Learning, NEW t \in Nat, NEW u \in Nat, t <= u
    PROVE  WithdrawnSources(t) \subseteq WithdrawnSources(u)'
<1>1. ASSUME NEW a \in Authorizations, StatusAt(a, t) \in WithdrawnStatuses
      PROVE  StatusAt(a, u)' \in WithdrawnStatuses
  <2> DEFINE old == lifecycle[a]
             new == lifecycle'[a]
  <2>1. old \in Seq(Event) /\ new \in Seq(Event) /\ old # <<>> /\ old[1].at = 0
      BY DEF Governed
  <2>2. DOMAIN old \subseteq DOMAIN new /\ \A k \in DOMAIN old : new[k] = old[k]
    <3>1. CASE lifecycle'[a] = lifecycle[a]
        BY <3>1
    <3>2. ASSUME NEW to \in TrainingStatuses \union WithdrawnStatuses, AmberTransition(a, to)
          PROVE  lifecycle'[a] = Append(old, [to |-> to, at |-> now])
        BY <3>2 DEF AmberTransition, Governed
    <3>3. lifecycle'[a] = lifecycle[a]
          \/ \E to \in TrainingStatuses \union WithdrawnStatuses : AmberTransition(a, to)
        BY DEF Learning, LearningNext, learningVars, AmberTransition, Governed, EndRollout,
               RecordOutcome, RecordTrainingEligibility, Lapse
    <3>4. ASSUME NEW e, new = Append(old, e)
          PROVE  DOMAIN old \subseteq DOMAIN new /\ \A k \in DOMAIN old : new[k] = old[k]
        BY <2>1, <3>4
    <3> QED BY <3>1, <3>2, <3>3, <3>4
  <2>3. \A k, n \in DOMAIN new : k < n /\ new[k].to \in WithdrawnStatuses => new[n].to \in WithdrawnStatuses
      BY DEF Governed
  <2> HIDE DEF old, new
  <2>4. 1 \in DOMAIN old /\ old[1].at <= t /\ \A k \in DOMAIN old : k \in Int /\ old[k].at \in Nat
    <3>1. old \in [1..Len(old) -> Event] /\ Len(old) \in Nat /\ Len(old) # 0
        BY <2>1
    <3>2. \A e \in Event : e.at \in Nat
        BY DEF Event
    <3> QED BY <2>1, <3>1, <3>2
  <2>5. \A k \in DOMAIN new : k \in Int
      BY <2>1
  <2>6. PICK n \in DOMAIN old : old[n].at <= t /\ LastOf(AsOf(old, t)) = old[n]
      BY <2>1, <2>4, LastFacts
  <2>7. old[n].to \in WithdrawnStatuses
      BY <1>1, <2>6 DEF StatusAt, old
  <2>8. n \in DOMAIN new /\ new[n].at <= u /\ new[n].to \in WithdrawnStatuses
      BY <2>2, <2>4, <2>6, <2>7
  <2>9. PICK m \in DOMAIN new : n <= m /\ LastOf(AsOf(new, u)) = new[m]
      BY <2>1, <2>8, LastFacts
  <2>10. new[m].to \in WithdrawnStatuses
      BY <2>3, <2>5, <2>8, <2>9
  <2> QED BY <2>9, <2>10 DEF StatusAt, new
<1>2. \A r \in LearningRollouts : AuthorizationOf[r] \in Authorizations
    BY DEF Authorizations
<1> QED BY <1>1, <1>2 DEF WithdrawnSources

-----------------------------------------------------------------------------
(* No row is of what is excluded as of the same stamp.                     *)

Barred(kind, source, t) == <<kind, source>> \in SpoiledSources(t) \union WithdrawnSources(t)

LEMMA BarredFacts ==
    ASSUME NEW t, NEW kind, NEW source, Barred(kind, source, t)
    PROVE  \/ /\ kind \in AttemptLanes /\ source \in Attempts
              /\ attempted[source] <= t /\ Spoiled(TaskOf[source])
           \/ \E v \in verdicts :
                 /\ v.at <= t /\ kind \in v.says.excluded /\ source \in Attempts
                 /\ v.says.subject \in {source, TaskOf[source]}
           \/ /\ kind = "authored_sft" /\ source \in Demonstrations
              /\ Spoiled(DemonstratedOn[source])
           \/ /\ kind \in LearningKinds /\ source \in LearningRollouts
              /\ StatusAt(AuthorizationOf[source], t) \in WithdrawnStatuses
<1> DEFINE said == UNION {v.says.excluded \X {a \in Attempts : v.says.subject \in {a, TaskOf[a]}} :
                             v \in {w \in verdicts : w.at <= t}}
<1>1. <<kind, source>> \in said =>
        \E v \in verdicts : /\ v.at <= t /\ kind \in v.says.excluded /\ source \in Attempts
                            /\ v.says.subject \in {source, TaskOf[source]}
    OBVIOUS
<1>2. SpoiledSources(t) =
        (AttemptLanes \X {a \in Attempts : attempted[a] <= t /\ Spoiled(TaskOf[a])}) \union said
        \union ({"authored_sft"} \X {m \in Demonstrations : Spoiled(DemonstratedOn[m])})
    BY DEF SpoiledSources
<1> HIDE DEF said
<1> QED BY <1>1, <1>2 DEF Barred, WithdrawnSources

LEMMA AttemptNotBarred ==
    ASSUME Dated, NEW t, NEW a, NEW lane \in AttemptLanes, TeachesIn(a, lane, t)
    PROVE  ~Barred(lane, a, t)
<1>1. a \in Attempts /\ attempted[a] <= t /\ ~Spoiled(TaskOf[a]) /\ EligibleFor(a, lane, t)
    BY ProductsAssumption DEF TeachesIn
<1>2. lane # "authored_sft" /\ lane \notin LearningKinds
    BY DEF AttemptLanes, LearningKinds
<1>3. ASSUME NEW v \in verdicts, v.at <= t, v.says.subject \in {a, TaskOf[a]}
      PROVE  lane \notin v.says.excluded
    BY <1>1, <1>3 DEF EligibleFor, SaidOf
<1> QED BY <1>1, <1>2, <1>3, BarredFacts

LEMMA DocumentNotBarred ==
    ASSUME Dated, NEW t, NEW d \in Documents
    PROVE  ~Barred("continued_pretraining", d, t)
<1>1. d \notin Attempts
    BY ProductsAssumption
<1>2. "continued_pretraining" \notin AttemptLanes \union LearningKinds \union {"authored_sft"}
    BY DEF AttemptLanes, LearningKinds
<1> QED BY <1>1, <1>2, BarredFacts, ProductsAssumption DEF Dated

LEMMA DemonstrationNotBarred ==
    ASSUME Dated, NEW t, NEW m \in Demonstrations, DemonstratesAt(m, t)
    PROVE  ~Barred("authored_sft", m, t)
<1>1. ~Spoiled(DemonstratedOn[m])
    BY DEF DemonstratesAt, Spoiled
<1>2. "authored_sft" \notin AttemptLanes \union LearningKinds \union TrainingLanes
    BY DEF AttemptLanes, TrainingLanes, LearningKinds
<1>3. \A v \in verdicts : "authored_sft" \notin v.says.excluded
    BY <1>2, ProductsAssumption DEF Dated
<1> QED BY <1>1, <1>2, <1>3, BarredFacts

LEMMA RolloutNotBarred ==
    ASSUME Dated, NEW t, NEW lane, NEW r \in LearningFrom(lane, t), NEW kind \in LearningKinds
    PROVE  ~Barred(kind, r, t)
<1>1. StatusAt(AuthorizationOf[r], t) \notin WithdrawnStatuses
    BY DEF LearningFrom, Teachable, TrainingStatuses, WithdrawnStatuses
<1>2. kind \notin TrainingLanes \union {"authored_sft"} /\ AttemptLanes \subseteq TrainingLanes
    BY DEF AttemptLanes, TrainingLanes, LearningKinds
<1>3. \A v \in verdicts : kind \notin v.says.excluded
    BY <1>2, ProductsAssumption DEF Dated
<1> QED BY <1>1, <1>2, <1>3, BarredFacts

\* The two rollouts of a pair are of those that may teach.
LEMMA ForkPairFacts ==
    ASSUME NEW t, NEW pair \in ForkPairs(t)
    PROVE  pair \subseteq LearningFrom("trajectory", t)
<1> DEFINE candidates == {r \in LearningFrom("trajectory", t) : Admitted(r, "fork_preference", t)}
           siblings == {{r \in candidates : ForkOf[r] = f} : f \in {ForkOf[r] : r \in candidates}}
<1>1. PICK S \in siblings : Uneven(S, ReturnOf) /\ pair = BestAndWorst(S, ReturnOf)
    BY DEF ForkPairs
<1>2. S \subseteq LearningFrom("trajectory", t) /\ S \subseteq LearningRollouts /\ S # {}
    BY <1>1 DEF LearningFrom, Uneven
<1>3. IsFiniteSet(S) /\ \A x \in S : ReturnOf[x] \in Int
    BY <1>2, LearningAssumption, FS_Subset
<1> QED BY <1>1, <1>2, <1>3, PairFacts

LEMMA RowNotBarred ==
    ASSUME Dated, NEW t, NEW row \in Rows(t), NEW source \in row.from
    PROVE  ~Barred(row.kind, source, t)
<1>1. ASSUME NEW lane \in {"sft", "rlvr", "process"}, NEW a, TeachesIn(a, lane, t),
             row = MaterialRow(lane, {a})
      PROVE  ~Barred(row.kind, source, t)
  <2>1. lane \in AttemptLanes /\ row.kind = lane /\ source = a
      BY <1>1 DEF AttemptLanes, MaterialRow
  <2> QED BY <1>1, <2>1, AttemptNotBarred
<1>2. ASSUME NEW pair \in PreferencePairs(t), row = MaterialRow("preference", pair)
      PROVE  ~Barred(row.kind, source, t)
  <2>1. "preference" \in AttemptLanes /\ row.kind = "preference" /\ TeachesIn(source, "preference", t)
      BY <1>2 DEF AttemptLanes, MaterialRow, PreferencePairs
  <2> QED BY <2>1, AttemptNotBarred
<1>3. ASSUME NEW d \in Documents, row = MaterialRow("continued_pretraining", {d})
      PROVE  ~Barred(row.kind, source, t)
    BY <1>3, DocumentNotBarred DEF MaterialRow
<1>4. ASSUME NEW m \in Demonstrations, DemonstratesAt(m, t), row = MaterialRow("authored_sft", {m})
      PROVE  ~Barred(row.kind, source, t)
    BY <1>4, DemonstrationNotBarred DEF MaterialRow
<1>5. ASSUME row \in LearningRows(t)
      PROVE  ~Barred(row.kind, source, t)
  <2>1. PICK lane : source \in LearningFrom(lane, t)
    <3>1. CASE \E lane, r : r \in LearningFrom(lane, t) /\ row.from = {r}
        BY <3>1
    <3>2. CASE \E pair \in ForkPairs(t) : row.from = pair
        BY <3>2, ForkPairFacts
    <3> QED BY <1>5, <3>1, <3>2 DEF LearningRows, Row
  <2>2. row.kind \in LearningKinds
      BY <1>5 DEF LearningRows, Row, LearningKinds
  <2> QED BY <2>1, <2>2, RolloutNotBarred
<1>6. row \in MaterialRows(t) \union LearningRows(t)
    BY DEF Rows
<1> QED BY <1>1, <1>2, <1>3, <1>4, <1>5, <1>6 DEF MaterialRows

-----------------------------------------------------------------------------
(* The records keep their order.                                           *)

LEMMA Restamped ==
    ASSUME Dated, NEW stamps, NEW rows, Stamps(stamps, rows), NEW x \in rows, Stamp(stamps, x)
    PROVE  Stamps([stamps EXCEPT ![x] = now], rows)
BY DEF Dated, Stamps, Stamp

LEMMA ClockMoves ==
    ASSUME Dated, TrainingStep
    PROVE  now \in Nat /\ now' \in 0..MaxCompiles /\ now <= now'
<1>1. CASE UNCHANGED compilerVars
    BY <1>1 DEF compilerVars, Dated
<1>2. CASE CompilerNext
    BY <1>2, CompilerAssumption DEF CompilerNext, Compile, CompileProjection, Dated
<1> QED BY <1>1, <1>2, StepParts

LEMMA StampsLast ==
    ASSUME Dated, TrainingStep, NEW stamps, NEW rows, Stamps(stamps, rows)
    PROVE  stamps \in [rows -> Nat] /\ \A x \in rows : stamps[x] = Never \/ stamps[x] <= now'
BY ClockMoves, ClockAssumption DEF Stamps

LEMMA ItemStamps ==
    ASSUME CorpusInv, Dated, Cited, Next, StampItems
    PROVE  /\ Stamps(registered', Items)
           /\ \A i \in Items : /\ registered'[i] = registered[i] \/ registered[i] = Never
                               /\ registered'[i] = Never <=> status'[i] = "absent"
<1>1. now < Never /\ now \in Nat
    BY CompilerAssumption, ClockAssumption DEF Dated
<1>2. \A i \in Items : registered'[i] = IF status[i] = "absent" /\ status'[i] # "absent"
                                        THEN now ELSE registered[i]
    BY DEF StampItems
<1>3. registered' \in [Items -> Nat]
    BY <1>1 DEF StampItems, Dated, Stamps
<1> QED BY <1>1, <1>2, <1>3, ItemsMove DEF Dated, Stamps, Cited

LEMMA MaterialStamps ==
    ASSUME Dated, Material
    PROVE  /\ Stamps(attempted', Attempts) /\ Stamps(graded', Attempts)
           /\ Stamps(demonstrated', Demonstrations)
           /\ \A v \in verdicts' : v.says \in VerdictChoices /\ v.at \in Nat
<1> DEFINE Moved ==
        /\ Stamps(attempted', Attempts) /\ Stamps(graded', Attempts)
        /\ Stamps(demonstrated', Demonstrations)
        /\ \A v \in verdicts' : v.says \in VerdictChoices /\ v.at \in Nat
<1>1. ASSUME NEW a \in Attempts, StoreAttempt(a) \/ StoreGrade(a)
      PROVE  Moved
    BY <1>1, Restamped DEF StoreAttempt, StoreGrade, Dated
<1>2. ASSUME NEW v \in VerdictChoices, RecordVerdict(v)
      PROVE  Moved
    BY <1>2 DEF RecordVerdict, Dated
<1>3. ASSUME NEW m \in Demonstrations, AdmitDemonstration(m)
      PROVE  Moved
    BY <1>3, Restamped DEF AdmitDemonstration, Dated
<1>4. ASSUME SourceNext \/ UNCHANGED materialVars
      PROVE  Moved
    BY <1>4 DEF SourceNext, AdmitSource, DecideSource, materialVars, Dated
<1> HIDE DEF Moved
<1>5. Moved
    BY <1>1, <1>2, <1>3, <1>4 DEF Material, AttemptNext
<1> QED BY <1>5 DEF Moved

LEMMA DatedStays ==
    ASSUME CorpusInv, Dated, Cited, TrainingStep
    PROVE  Dated'
<1>1. now \in Nat /\ now' \in 0..MaxCompiles /\ now <= now'
    BY ClockMoves
<1>2. ASSUME NEW stamps, NEW rows, Stamps(stamps, rows)
      PROVE  stamps \in [rows -> Nat] /\ \A x \in rows : stamps[x] = Never \/ stamps[x] <= now'
    BY <1>2, StampsLast
<1>3. Stamps(registered', Items)
    BY StepParts, ItemStamps DEF Dated
<1>4. /\ Stamps(attempted', Attempts) /\ Stamps(graded', Attempts)
      /\ Stamps(demonstrated', Demonstrations)
      /\ \A v \in verdicts' : v.says \in VerdictChoices /\ v.at \in Nat
    BY StepParts, MaterialStamps
<1>5. /\ Stamps(registered, Items)' /\ Stamps(attempted, Attempts)' /\ Stamps(graded, Attempts)'
      /\ Stamps(demonstrated, Demonstrations)'
    BY <1>2, <1>3, <1>4 DEF Stamps
<1> QED BY <1>1, <1>4, <1>5 DEF Dated

LEMMA CitedStays ==
    ASSUME CorpusInv, Dated, Cited, TrainingStep
    PROVE  Cited'
<1>1. CASE Next /\ StampItems /\ UNCHANGED materialVars
  <2>1. \A i \in Items : /\ registered'[i] = registered[i] \/ registered[i] = Never
                         /\ registered'[i] = Never <=> status'[i] = "absent"
                         /\ registered'[i] \in Nat /\ (registered'[i] = Never \/ registered'[i] <= now)
      BY <1>1, ItemStamps DEF Stamps
  <2>2. now < Never /\ now \in Nat
      BY CompilerAssumption, ClockAssumption DEF Dated
  <2>3. \A i \in Items : registered'[i] <= registered[i]
      BY <2>1, <2>2 DEF Dated, Stamps
  <2> QED BY <1>1, <2>1, <2>3, ProductsAssumption DEF Cited, materialVars, Dated, Stamps
<1>2. ASSUME UNCHANGED <<corpusVars, registered>>
      PROVE  Cited'
  <2>1. \A i \in Items : registered[i] # Never => registered[i] <= now
      BY DEF Dated, Stamps
  <2>2. UNCHANGED <<status, registered>>
      BY <1>2 DEF corpusVars
  <2>3. \A a \in Attempts : attempted'[a] = attempted[a]
            \/ (attempted'[a] = now /\ status[TaskOf[a]] # "absent")
    <3>1. ASSUME NEW b \in Attempts, StoreAttempt(b)
          PROVE  \A a \in Attempts : attempted'[a] = attempted[a]
                     \/ (attempted'[a] = now /\ status[TaskOf[a]] # "absent")
        BY <3>1 DEF StoreAttempt, Dated, Stamps
    <3>2. attempted' = attempted \/ \E b \in Attempts : StoreAttempt(b)
        BY StepParts DEF Material, AttemptNext, SourceNext, StoreGrade, RecordVerdict, AdmitSource,
           DecideSource, AdmitDemonstration, materialVars
    <3> QED BY <3>1, <3>2
  <2>4. \A m \in Demonstrations : demonstrated'[m] = demonstrated[m]
            \/ (demonstrated'[m] = now /\ status[DemonstratedOn[m]] # "absent")
    <3>1. ASSUME NEW n \in Demonstrations, AdmitDemonstration(n)
          PROVE  \A m \in Demonstrations : demonstrated'[m] = demonstrated[m]
                     \/ (demonstrated'[m] = now /\ status[DemonstratedOn[m]] # "absent")
        BY <3>1 DEF AdmitDemonstration, Dated, Stamps
    <3>2. demonstrated' = demonstrated \/ \E n \in Demonstrations : AdmitDemonstration(n)
        BY StepParts DEF Material, AttemptNext, SourceNext, StoreAttempt, StoreGrade, RecordVerdict,
           AdmitSource, DecideSource, materialVars
    <3> QED BY <3>1, <3>2
  <2> QED BY <2>1, <2>2, <2>3, <2>4, ProductsAssumption DEF Cited
<1> QED BY <1>1, <1>2, StepParts

LEMMA GovernedStays ==
    ASSUME Dated, Governed, TrainingStep
    PROVE  Governed'
<1> DEFINE SourceRuling == [status : SourceStatuses, contaminated : BOOLEAN, at : Nat]
<1>0. now \in Nat /\ Material /\ Learning
    BY StepParts DEF Dated
<1>1. rulingsOn' \in [Documents -> Seq(SourceRuling)] /\ admitted' \in Seq(Documents)
  <2>1. ASSUME NEW to \in SourceStatuses, NEW tainted \in BOOLEAN
        PROVE  Ruling(to, tainted) \in SourceRuling
      BY <1>0 DEF Ruling
  <2>2. rulingsOn \in [Documents -> Seq(SourceRuling)] /\ admitted \in Seq(Documents)
      BY DEF Governed
  <2> HIDE DEF SourceRuling
  <2>3. ASSUME NEW d \in Documents, NEW to \in SourceStatuses, NEW tainted \in BOOLEAN,
               AdmitSource(d, to, tainted) \/ DecideSource(d, to, tainted)
        PROVE  rulingsOn' \in [Documents -> Seq(SourceRuling)] /\ admitted' \in Seq(Documents)
    <3> DEFINE r == Ruling(to, tainted)
    <3>1. r \in SourceRuling /\ <<r>> \in Seq(SourceRuling) /\ Append(rulingsOn[d], r) \in Seq(SourceRuling)
        BY <2>1, <2>2
    <3>2. admitted' = admitted \/ admitted' = Append(admitted, d)
        BY <2>3 DEF AdmitSource, DecideSource
    <3>3. \/ rulingsOn' = [rulingsOn EXCEPT ![d] = <<r>>]
          \/ rulingsOn' = [rulingsOn EXCEPT ![d] = Append(rulingsOn[d], r)]
        BY <2>3 DEF AdmitSource, DecideSource
    <3> HIDE DEF r
    <3>4. rulingsOn' \in [Documents -> Seq(SourceRuling)]
        BY <2>2, <3>1, <3>3
    <3>5. Append(admitted, d) \in Seq(Documents)
        BY <2>2, AppendProperties
    <3>6. admitted' \in Seq(Documents)
        BY <2>2, <3>2, <3>5
    <3> QED BY <3>4, <3>6
  <2>4. CASE UNCHANGED <<rulingsOn, admitted>>
      BY <2>2, <2>4
  <2> QED BY <1>0, <2>3, <2>4 DEF Material, SourceNext, AttemptNext, StoreAttempt, StoreGrade,
              RecordVerdict, AdmitDemonstration, materialVars
<1>2. /\ \A r \in LearningRollouts : ended'[r].status = "active" => ended'[r].at = Never
      /\ ended' \in [LearningRollouts -> [status : {"active", "complete", "abandoned"}, at : Nat]]
  <2>1. ASSUME NEW q \in LearningRollouts, NEW how \in {"complete", "abandoned"}, EndRollout(q, how)
        PROVE  /\ \A r \in LearningRollouts : ended'[r].status = "active" => ended'[r].at = Never
               /\ ended' \in [LearningRollouts -> [status : {"active", "complete", "abandoned"}, at : Nat]]
      BY <1>0, <2>1 DEF EndRollout, Governed
  <2>2. ended' = ended \/ \E q \in LearningRollouts, how \in {"complete", "abandoned"} : EndRollout(q, how)
      BY <1>0 DEF Learning, LearningNext, learningVars, AmberTransition, RecordOutcome,
             RecordTrainingEligibility, Lapse
  <2> QED BY <2>1, <2>2 DEF Governed
<1> DEFINE Ordered(s) ==
        /\ s \in Seq(Event) /\ s # <<>> /\ s[1].at = 0
        /\ \A k, n \in DOMAIN s : k < n /\ s[k].to \in WithdrawnStatuses => s[n].to \in WithdrawnStatuses
<1>3. lifecycle \in [Authorizations -> Seq(Event)] /\ \A u \in Authorizations : Ordered(lifecycle[u])
    BY DEF Governed
<1>4. ASSUME NEW s, Ordered(s), NEW to \in Successors(s[Len(s)].to),
             to \in TrainingStatuses \union WithdrawnStatuses
      PROVE  Ordered(Append(s, [to |-> to, at |-> now]))
  <2> DEFINE e == [to |-> to, at |-> now]
  <2>1. e \in Event /\ e.to = to
      BY <1>0, <1>4 DEF Event
  <2>2. s[Len(s)].to \in WithdrawnStatuses => to \in WithdrawnStatuses
      BY <1>4 DEF Successors, WithdrawnStatuses
  <2> HIDE DEF e
  <2>3. /\ DOMAIN Append(s, e) = 1..(Len(s) + 1) /\ DOMAIN s = 1..Len(s) /\ Len(s) \in Nat \ {0}
        /\ \A k \in DOMAIN s : Append(s, e)[k] = s[k]
        /\ Append(s, e)[Len(s) + 1] = e /\ Append(s, e) \in Seq(Event) /\ Append(s, e) # <<>>
      BY <1>4, <2>1
  <2>4. \A k \in DOMAIN s : s[k].to \in WithdrawnStatuses => s[Len(s)].to \in WithdrawnStatuses
      BY <1>4, <2>3
  <2>5. ASSUME NEW k \in DOMAIN Append(s, e), NEW n \in DOMAIN Append(s, e), k < n,
               Append(s, e)[k].to \in WithdrawnStatuses
        PROVE  Append(s, e)[n].to \in WithdrawnStatuses
    <3>1. k \in DOMAIN s
        BY <2>3, <2>5
    <3>2. CASE n \in DOMAIN s
        BY <1>4, <2>3, <2>5, <3>1, <3>2
    <3>3. CASE n = Len(s) + 1
        BY <2>1, <2>2, <2>3, <2>4, <2>5, <3>1, <3>3
    <3> QED BY <2>3, <2>5, <3>2, <3>3
  <2>6. Ordered(Append(s, e))
      BY <1>4, <2>3, <2>5
  <2> QED BY <2>6 DEF e
<1>5. ASSUME NEW u \in Authorizations, NEW to \in TrainingStatuses \union WithdrawnStatuses,
             AmberTransition(u, to)
      PROVE  lifecycle' \in [Authorizations -> Seq(Event)] /\ \A w \in Authorizations : Ordered(lifecycle'[w])
  <2> DEFINE longer == Append(lifecycle[u], [to |-> to, at |-> now])
  <2>1. lifecycle' = [lifecycle EXCEPT ![u] = longer]
      BY <1>5 DEF AmberTransition
  <2>2. Ordered(longer)
      BY <1>3, <1>4, <1>5 DEF AmberTransition, CurrentStatus
  <2> HIDE DEF longer
  <2>3. longer \in Seq(Event)
      BY <2>2
  <2> HIDE DEF Ordered
  <2> QED BY <1>3, <2>1, <2>2, <2>3
<1>6. lifecycle' = lifecycle
      \/ \E u \in Authorizations, to \in TrainingStatuses \union WithdrawnStatuses : AmberTransition(u, to)
    BY <1>0 DEF Learning, LearningNext, learningVars, EndRollout, RecordOutcome,
           RecordTrainingEligibility, Lapse
<1> HIDE DEF Ordered
<1>7. lifecycle' \in [Authorizations -> Seq(Event)] /\ \A u \in Authorizations : Ordered(lifecycle'[u])
    BY <1>3, <1>5, <1>6
<1> QED BY <1>1, <1>2, <1>7 DEF Governed, Ordered

-----------------------------------------------------------------------------
(* A bundle and the records it was read from.                              *)

LEMMA Reading ==
    ASSUME Dated, Cited, NEW t \in Nat
    PROVE  MaterialRows(t) = MaterialFrom(MaterialEvidence(t).items, t)
<1> DEFINE items == MaterialEvidence(t).items
<1>1. ASSUME NEW a, NEW lane
      PROVE  TeachesIn(a, lane, t) <=> TeachesFrom(items, a, lane, t)
  <2>1. ASSUME a \in Attempts, attempted[a] <= t
        PROVE  SpoiledIn(items, TaskOf[a]) <=> Spoiled(TaskOf[a])
    <3>1. TaskOf[a] \in Items /\ registered[TaskOf[a]] <= t /\ DOMAIN registered = Items
        BY <2>1, ProductsAssumption DEF Cited, Dated, Stamps
    <3> QED BY <3>1, ViewFacts
  <2> HIDE DEF items
  <2> QED BY <2>1, ProductsAssumption DEF TeachesIn, TeachesFrom
<1>2. ASSUME NEW m \in Demonstrations
      PROVE  DemonstratesAt(m, t) <=> demonstrated[m] <= t /\ ShownIn(items, DemonstratedOn[m])
  <2>1. ASSUME demonstrated[m] <= t
        PROVE  ShownIn(items, DemonstratedOn[m])
                 <=> status[DemonstratedOn[m]] \in {"active", "leased"} /\ ~Tainted(DemonstratedOn[m])
    <3>1. /\ DemonstratedOn[m] \in Items /\ registered[DemonstratedOn[m]] <= t
          /\ DOMAIN registered = Items
        BY <2>1, ProductsAssumption DEF Cited, Dated, Stamps
    <3> QED BY <3>1, ViewFacts
  <2> HIDE DEF items
  <2> QED BY <2>1 DEF DemonstratesAt
<1> HIDE DEF items
<1>3. {y \in {"sft", "rlvr", "process"} \X Attempts : TeachesIn(y[2], y[1], t)}
        = {y \in {"sft", "rlvr", "process"} \X Attempts : TeachesFrom(items, y[2], y[1], t)}
    BY <1>1
<1>4. PreferencePairs(t) = {p \in Contrasts(t) : \A a \in p : TeachesFrom(items, a, "preference", t)}
    BY <1>1 DEF PreferencePairs
<1>5. {n \in Demonstrations : DemonstratesAt(n, t)}
        = {n \in Demonstrations : demonstrated[n] <= t /\ ShownIn(items, DemonstratedOn[n])}
    BY <1>2
<1>6. MaterialRows(t) = MaterialFrom(items, t)
    BY <1>3, <1>4, <1>5, Zenon DEF MaterialRows, MaterialFrom
<1> QED BY <1>6 DEF items

LEMMA BundleFacts ==
    ASSUME Dated, Cited, NEW t \in Nat
    PROVE  /\ ReadFrom(Bundle(t)) /\ Bundle(t).asOf = t /\ Bundle(t).rows = Rows(t)
           /\ Bundle(t).excluded = SpoiledSources(t) \union WithdrawnSources(t)
           /\ Bundle(t).digest.developmental.items = MaterialEvidence(t).items
<1>1. /\ Bundle(t).asOf = t /\ Bundle(t).rows = Rows(t) /\ Bundle(t).digest = SnapshotDigest(t)
      /\ Bundle(t).excluded = SpoiledSources(t) \union WithdrawnSources(t)
    BY DEF Bundle
<1>2. SnapshotDigest(t).developmental = MaterialEvidence(t)
    BY DEF SnapshotDigest
<1> QED BY <1>1, <1>2, Reading DEF ReadFrom, Rows

\* However the records go on, a bundle has the rows they had, and what it
\* excludes is excluded.
LEMMA ReadingStands ==
    ASSUME Dated, Governed, TrainingStep, NEW b, b.asOf \in Nat, ReadFrom(b),
           b.asOf < now \/ UNCHANGED <<materialVars, learningVars>>
    PROVE  ReadFrom(b)'
BY StepParts, MaterialStands, LearningStands DEF ReadFrom

LEMMA ExclusionsStay ==
    ASSUME TrainingInv, TrainingStep, NEW b, b.asOf \in Nat, b.asOf <= now, Excludes(b)
    PROVE  Excludes(b)'
<1>1. now \in Nat /\ now' \in Nat /\ now <= now'
    BY ClockMoves DEF TrainingInv
<1>2. Governed /\ Governed' /\ Learning
    BY StepParts, GovernedStays DEF TrainingInv
<1>3. ASSUME NEW t \in Nat, b.asOf <= t, t <= now'
      PROVE  b.excluded \subseteq SpoiledSources(t)' \union WithdrawnSources(t)'
  <2>1. PICK s \in Nat : b.asOf <= s /\ s <= now /\ s <= t
    <3>1. CASE t <= now
        BY <1>3, <3>1
    <3>2. CASE now <= t
        BY <1>1, <1>3, <3>2
    <3> QED BY <1>1, <3>1, <3>2
  <2>2. b.excluded \subseteq SpoiledSources(s) \union WithdrawnSources(s)
      BY <2>1 DEF Excludes
  <2>3. SpoiledSources(s) \subseteq SpoiledSources(t)'
      BY <2>1, SpoiledStays
  <2>4. WithdrawnSources(s) \subseteq WithdrawnSources(t)'
      BY <1>2, <2>1, WithdrawnStays
  <2> QED BY <2>2, <2>3, <2>4
<1> QED BY <1>3 DEF Excludes

LEMMA CompileFacts ==
    ASSUME TrainingInv, TrainingStep
    PROVE  \/ bundles' = bundles
           \/ /\ UNCHANGED <<materialVars, learningVars>> /\ now' = now + 1
              /\ \E t \in Nat : t <= now /\ bundles' = Append(bundles, Bundle(t))
<1>1. ASSUME NEW t \in 0..MaxCompiles, Compile(t)
      PROVE  \/ bundles' = bundles
             \/ now' = now + 1 /\ t <= now /\ bundles' = Append(bundles, Bundle(t))
    BY <1>1 DEF Compile
<1>2. ASSUME CompilerNext
      PROVE  \/ bundles' = bundles
             \/ now' = now + 1 /\ \E t \in Nat : t <= now /\ bundles' = Append(bundles, Bundle(t))
  <2>1. CASE \E n \in DOMAIN bundles : CompileProjection(bundles[n])
      BY <2>1 DEF CompileProjection
  <2>2. CASE \E t \in 0..MaxCompiles : Compile(t)
      BY <1>1, <2>2, CompilerAssumption
  <2> QED BY <1>2, <2>1, <2>2 DEF CompilerNext
<1>3. CASE UNCHANGED compilerVars
    BY <1>3 DEF compilerVars
<1> QED BY <1>2, <1>3, StepParts

LEMMA CompiledStays ==
    ASSUME TrainingInv, TrainingStep
    PROVE  Compiled'
<1> DEFINE Sound(b) == b.asOf \in Nat /\ b.asOf < now' /\ ReadFrom(b)' /\ Excludes(b)'
<1>1. Dated /\ Cited /\ Governed /\ Governed' /\ Compiled /\ now \in Nat /\ now' \in Nat /\ now <= now'
    BY ClockMoves, GovernedStays DEF TrainingInv
<1>2. ASSUME NEW b \in Written
      PROVE  Sound(b)
    BY <1>1, ReadingStands, ExclusionsStay DEF Compiled
<1>3. ASSUME NEW t \in Nat, t <= now, UNCHANGED <<materialVars, learningVars>>, now' = now + 1,
             NEW b, b = Bundle(t)
      PROVE  Sound(b)
  <2>1. b.asOf = t /\ ReadFrom(b) /\ b.excluded = SpoiledSources(t) \union WithdrawnSources(t)
      BY <1>1, <1>3, BundleFacts
  <2>2. ReadFrom(b)'
      BY <1>1, <1>3, <2>1, ReadingStands
  <2>3. ASSUME NEW u \in Nat, t <= u
        PROVE  b.excluded \subseteq SpoiledSources(u)' \union WithdrawnSources(u)'
    <3>1. SpoiledSources(t) \subseteq SpoiledSources(u)'
        BY <1>3, <2>3, SpoiledStays
    <3>2. WithdrawnSources(t) \subseteq WithdrawnSources(u)'
        BY <1>1, <2>3, StepParts, WithdrawnStays
    <3> QED BY <2>1, <3>1, <3>2
  <2>4. Excludes(b)'
      BY <2>1, <2>3 DEF Excludes
  <2> QED BY <1>1, <1>3, <2>1, <2>2, <2>4
<1>4. \/ bundles' = bundles
      \/ \E b : Sound(b) /\ bundles' = Append(bundles, b)
  <2>1. CASE /\ UNCHANGED <<materialVars, learningVars>> /\ now' = now + 1
             /\ \E t \in Nat : t <= now /\ bundles' = Append(bundles, Bundle(t))
    <3>1. PICK t \in Nat : t <= now /\ bundles' = Append(bundles, Bundle(t))
        BY <2>1
    <3>2. PICK b : b = Bundle(t)
        OBVIOUS
    <3>3. Sound(b)
        BY <1>3, <2>1, <3>1, <3>2
    <3> QED BY <3>1, <3>2, <3>3
  <2> QED BY <2>1, CompileFacts
<1>5. bundles \in Seq(Written)
    BY <1>1 DEF Compiled
<1> HIDE DEF Sound
<1>6. CASE bundles' = bundles
  <2>1. Written' = Written /\ bundles' \in Seq(Written')
      BY <1>5, <1>6 DEF Written
  <2>2. \A b \in Written' : Sound(b)
      BY <1>2, <2>1
  <2> QED BY <2>1, <2>2 DEF Compiled, Sound
<1>7. ASSUME NEW b, Sound(b), bundles' = Append(bundles, b)
      PROVE  Compiled'
  <2>1. /\ DOMAIN bundles' = (DOMAIN bundles) \union {Len(bundles) + 1}
        /\ \A n \in DOMAIN bundles : bundles'[n] = bundles[n]
        /\ bundles'[Len(bundles) + 1] = b
      BY <1>5, <1>7
  <2>2. Written' = Written \union {b}
      BY <2>1 DEF Written
  <2>3. bundles \in Seq(Written \union {b})
    <3>1. /\ bundles \in [1..Len(bundles) -> Written] /\ Len(bundles) \in Nat
          /\ DOMAIN bundles = 1..Len(bundles)
        BY <1>5
    <3>2. bundles \in [1..Len(bundles) -> Written \union {b}]
        BY <3>1
    <3> QED BY <3>1, <3>2, SeqDef
  <2>4. bundles' \in Seq(Written')
      BY <1>7, <2>2, <2>3, AppendProperties
  <2>5. \A x \in Written' : Sound(x)
      BY <1>2, <1>7, <2>2
  <2> QED BY <2>4, <2>5 DEF Compiled, Sound
<1> QED BY <1>4, <1>6, <1>7

LEMMA ExclusionsLastStays ==
    ASSUME TrainingInv, TrainingStep
    PROVE  ExclusionsLast'
<1> DEFINE Apart(b, c) ==
        b.asOf <= c.asOf => \A row \in c.rows, x \in b.excluded : ~(row.kind = x[1] /\ x[2] \in row.from)
<1>1. Dated /\ Cited /\ Compiled /\ ExclusionsLast
    BY DEF TrainingInv
<1>2. ASSUME NEW t \in Nat, t <= now, NEW b \in Written
      PROVE  Apart(b, Bundle(t))
  <2>1. Bundle(t).asOf = t /\ Bundle(t).rows = Rows(t) /\ Excludes(b)
      BY <1>1, BundleFacts DEF Compiled
  <2>2. ASSUME b.asOf <= t, NEW row \in Rows(t), NEW x \in b.excluded, row.kind = x[1], x[2] \in row.from
        PROVE  FALSE
    <3>1. x \in SpoiledSources(t) \union WithdrawnSources(t)
        BY <1>2, <2>1, <2>2 DEF Excludes
    <3>2. x = <<x[1], x[2]>>
        BY <3>1 DEF SpoiledSources, WithdrawnSources
    <3> QED BY <1>1, <2>2, <3>1, <3>2, RowNotBarred DEF Barred
  <2> QED BY <2>1, <2>2
<1>3. \A m, n \in DOMAIN bundles : m < n => Apart(bundles[m], bundles[n])
    BY <1>1 DEF ExclusionsLast
<1> HIDE DEF Apart
<1>4. ASSUME \A m, n \in DOMAIN bundles' : m < n => Apart(bundles'[m], bundles'[n])
      PROVE  ExclusionsLast'
    BY <1>4 DEF ExclusionsLast, Apart
<1>5. CASE bundles' = bundles
    BY <1>3, <1>4, <1>5
<1>6. ASSUME NEW t \in Nat, t <= now, bundles' = Append(bundles, Bundle(t))
      PROVE  ExclusionsLast'
  <2>1. bundles \in Seq(Written)
      BY <1>1 DEF Compiled
  <2>2. /\ DOMAIN bundles' = 1..(Len(bundles) + 1) /\ DOMAIN bundles = 1..Len(bundles)
        /\ \A n \in DOMAIN bundles : bundles'[n] = bundles[n]
        /\ bundles'[Len(bundles) + 1] = Bundle(t) /\ Len(bundles) \in Nat
      BY <1>6, <2>1
  <2>3. ASSUME NEW m \in DOMAIN bundles', NEW n \in DOMAIN bundles', m < n
        PROVE  Apart(bundles'[m], bundles'[n])
    <3>1. m \in DOMAIN bundles /\ bundles[m] \in Written
        BY <2>2, <2>3 DEF Written
    <3>2. CASE n \in DOMAIN bundles
        BY <1>3, <2>2, <2>3, <3>1, <3>2
    <3>3. CASE n = Len(bundles) + 1
        BY <1>2, <1>6, <2>2, <3>1, <3>3
    <3> QED BY <2>2, <2>3, <3>2, <3>3
  <2> QED BY <1>4, <2>3
<1> QED BY <1>5, <1>6, CompileFacts

-----------------------------------------------------------------------------
LEMMA TrainingInitInv == Init /\ TrainingInit => TrainingInv
<1> SUFFICES ASSUME Init, TrainingInit
             PROVE  TrainingInv
    OBVIOUS
<1>1. now = 0 /\ bundles = <<>> /\ Never \in Nat
    BY ClockAssumption DEF TrainingInit
<1>2. CorpusInv
    BY CorpusInitInv
<1>3. Dated
    BY <1>1, CompilerAssumption DEF TrainingInit, MaterialInit, Dated, Stamps
<1>4. Cited
  <2>1. \A i \in Items : registered[i] = Never /\ status[i] = "absent"
      BY DEF TrainingInit, MaterialInit, Init
  <2>2. \A a \in Attempts : TaskOf[a] \in Items /\ attempted[a] = Never
      BY ProductsAssumption DEF TrainingInit, MaterialInit
  <2>3. \A m \in Demonstrations : DemonstratedOn[m] \in Items /\ demonstrated[m] = Never
      BY ProductsAssumption DEF TrainingInit, MaterialInit
  <2> QED BY <1>1, <2>1, <2>2, <2>3 DEF Cited
<1>5. Governed
  <2>1. [to |-> "active", at |-> 0] \in Event
      BY DEF Event, TrainingStatuses
  <2> DEFINE e == [to |-> "active", at |-> 0]
  <2>2. e \in Event /\ e.at = 0
      BY <2>1
  <2>3. lifecycle = [u \in Authorizations |-> <<e>>]
      BY DEF TrainingInit, LearningInit
  <2> HIDE DEF e
  <2>4. /\ lifecycle \in [Authorizations -> Seq(Event)]
        /\ \A u \in Authorizations : lifecycle[u] = <<e>>
      BY <2>2, <2>3
  <2>5. \A u \in Authorizations :
          /\ lifecycle[u] # <<>> /\ lifecycle[u][1].at = 0
          /\ \A k, n \in DOMAIN lifecycle[u] :
                k < n /\ lifecycle[u][k].to \in WithdrawnStatuses
                => lifecycle[u][n].to \in WithdrawnStatuses
      BY <2>2, <2>4
  <2>6. /\ rulingsOn = [d \in Documents |-> <<>>] /\ admitted = <<>>
        /\ ended = [r \in LearningRollouts |-> [status |-> "active", at |-> Never]]
      BY DEF TrainingInit, MaterialInit, LearningInit
  <2>7. /\ rulingsOn \in [Documents -> Seq([status : SourceStatuses, contaminated : BOOLEAN, at : Nat])]
        /\ admitted \in Seq(Documents)
      BY <2>6
  <2>8. /\ \A r \in LearningRollouts : ended[r].status = "active" => ended[r].at = Never
        /\ ended \in [LearningRollouts -> [status : {"active", "complete", "abandoned"}, at : Nat]]
      BY <1>1, <2>6
  <2> QED BY <2>4, <2>5, <2>7, <2>8 DEF Governed
<1>6. Compiled /\ ExclusionsLast
    BY <1>1 DEF Compiled, Written, ExclusionsLast
<1> QED BY <1>2, <1>3, <1>4, <1>5, <1>6 DEF TrainingInv

LEMMA TrainingStepKeepsInv == TrainingInv /\ TrainingStep => TrainingInv'
<1> SUFFICES ASSUME TrainingInv, TrainingStep
             PROVE  TrainingInv'
    OBVIOUS
<1>1. CorpusInv'
    BY StepParts, CorpusMoves DEF TrainingInv
<1>2. Dated' /\ Cited' /\ Governed'
    BY DatedStays, CitedStays, GovernedStays DEF TrainingInv
<1> QED BY <1>1, <1>2, CompiledStays, ExclusionsLastStays DEF TrainingInv

\* The inductive invariant of the training compilers.
THEOREM TrainingInvariance == TrainingSpec => []TrainingInv
<1>1. TrainingInv /\ [TrainingNext]_<<corpusVars, trainingVars>> => TrainingInv'
    BY TrainingStepKeepsInv DEF TrainingStep
<1> QED BY <1>1, TrainingInitInv, PTL DEF TrainingSpec

\* What a bundle excludes for a lasting reason comes back in no later bundle,
\* whatever is recorded and compiled in between.
THEOREM ExclusionsStand == TrainingSpec => []ExclusionsLast
<1>1. TrainingInv => ExclusionsLast
    BY DEF TrainingInv
<1> QED BY <1>1, TrainingInvariance, PTL

\* A bundle that verifies has the rows that compiling again as of its stamp
\* would write: the digest of the records stands for the rows.
THEOREM BundlesRecompile == TrainingSpec => []VerifiedBundlesRecompile
<1>1. ASSUME TrainingInv, NEW b \in Written, Verifies(b)
      PROVE  b.rows = Rows(b.asOf)
  <2>1. Dated /\ Cited /\ ReadFrom(b) /\ b.asOf \in Nat
      BY <1>1 DEF TrainingInv, Compiled
  <2>2. b.digest.developmental = MaterialEvidence(b.asOf)
      BY <1>1 DEF Verifies, SnapshotDigest
  <2> QED BY <2>1, <2>2, Reading DEF ReadFrom, Rows
<1>2. TrainingInv => VerifiedBundlesRecompile
    BY <1>1 DEF VerifiedBundlesRecompile, Written
<1> QED BY <1>2, TrainingInvariance, PTL

-----------------------------------------------------------------------------
(* What a reader is shown.                                                 *)

\* The minima, once met, are met among more rollouts.
LEMMA MoreReplicated ==
    ASSUME NEW T \in SUBSET LearningRollouts, NEW S \in SUBSET T, Replicated(S)
    PROVE  Replicated(T)
<1> DEFINE enough(X) == {i \in {InstanceOf[r] : r \in X} : Cardinality(RolloutsOf(X, i)) >= MinReplicates}
<1>1. IsFiniteSet(T) /\ IsFiniteSet(S)
    BY LearningAssumption, FS_Subset
<1>2. ASSUME NEW i
      PROVE  /\ Cardinality(RolloutsOf(S, i)) \in Nat /\ Cardinality(RolloutsOf(T, i)) \in Nat
             /\ Cardinality(RolloutsOf(S, i)) <= Cardinality(RolloutsOf(T, i))
  <2>1. /\ RolloutsOf(S, i) \subseteq RolloutsOf(T, i) /\ RolloutsOf(T, i) \subseteq T
      BY DEF RolloutsOf
  <2>2. IsFiniteSet(RolloutsOf(T, i)) /\ IsFiniteSet(RolloutsOf(S, i))
      BY <1>1, <2>1, FS_Subset
  <2> QED BY <2>1, <2>2, FS_Subset, FS_CardinalityType
<1>3. enough(S) \subseteq enough(T)
    BY <1>2, LearningAssumption
<1>4. IsFiniteSet(enough(T))
  <2> DEFINE instances == {InstanceOf[r] : r \in T}
             f == [r \in T |-> InstanceOf[r]]
  <2>1. IsFiniteSet(instances)
    <3>1. f \in Surjection(T, instances)
        BY DEF Surjection
    <3> HIDE DEF f, instances
    <3> QED BY <1>1, <3>1, FS_Surjection
  <2> QED BY <2>1, FS_Subset
<1>5. /\ Cardinality(enough(S)) <= Cardinality(enough(T))
      /\ Cardinality(enough(S)) \in Nat /\ Cardinality(enough(T)) \in Nat
  <2> HIDE DEF enough
  <2>1. IsFiniteSet(enough(S))
      BY <1>3, <1>4, FS_Subset
  <2> QED BY <1>3, <1>4, <2>1, FS_Subset, FS_CardinalityType
<1>6. Cardinality(enough(S)) >= MinInstances
    BY DEF Replicated
<1>7. Cardinality(enough(T)) >= MinInstances
  <2> HIDE DEF enough
  <2> QED BY <1>5, <1>6, LearningAssumption
<1> QED BY <1>7 DEF Replicated

LEMMA LearningRowFacts ==
    ASSUME NEW t, NEW row \in LearningRows(t)
    PROVE  row.from \subseteq LearningRollouts
<1>1. \A lane : LearningFrom(lane, t) \subseteq LearningRollouts
    BY DEF LearningFrom
<1> QED BY <1>1, ForkPairFacts DEF LearningRows, Row

\* The rows of a kind that are shown are those of one replicated part after
\* another.
LEMMA ReplicatedFacts ==
    ASSUME NEW rows, \A row \in rows : row.from \subseteq LearningRollouts,
           NEW r \in SourcesOf(ReplicatedRows(rows))
    PROVE  /\ \E row \in rows : r \in row.from
           /\ Replicated(SourcesOf(ReplicatedRows(rows)))
<1> DEFINE shown == ReplicatedRows(rows)
<1>1. shown \subseteq rows
    BY DEF ReplicatedRows
<1>2. PICK row \in shown : r \in row.from
    BY DEF SourcesOf
<1>3. PICK part \in SUBSET rows : SampleSuffices(part) /\ row \in part
    BY <1>2 DEF ReplicatedRows
<1>4. part \subseteq shown
    BY <1>3 DEF ReplicatedRows
<1> HIDE DEF shown
<1>5. r \in SourcesOf(part)
    BY <1>2, <1>3 DEF SourcesOf
<1>6. Replicated(SourcesOf(part))
    BY <1>3, <1>5 DEF SampleSuffices
<1>7. SourcesOf(part) \subseteq SourcesOf(shown) /\ SourcesOf(shown) \subseteq LearningRollouts
    BY <1>1, <1>4 DEF SourcesOf
<1>8. Replicated(SourcesOf(shown))
    BY <1>6, <1>7, MoreReplicated
<1> QED BY <1>1, <1>2, <1>8 DEF shown

\* A projection that is shown now is of rollouts whose authority is in force
\* now, and each of its products keeps the distribution's minima among them.
THEOREM ProjectionsAuthorised == TrainingSpec => []ShownUnderAuthority
<1>1. ASSUME NEW b, ArchiveStands(b), NEW kind \in LearningKinds,
             NEW r \in SourcesOf({row \in ProjectedRows(b) : row.kind = kind})
      PROVE  /\ InForceNow(r)
             /\ Replicated(SourcesOf({row \in ProjectedRows(b) : row.kind = kind}))
  <2> DEFINE of(k) == {row \in b.rows : row.kind = k /\ \A q \in row.from : Candidate(q)}
             shown == {row \in ProjectedRows(b) : row.kind = kind}
  <2>1. \A k, row : row \in ReplicatedRows(of(k)) => row.kind = k
      BY DEF ReplicatedRows
  <2>2. ProjectedRows(b) = UNION {ReplicatedRows(of(k)) : k \in LearningKinds}
      BY DEF ProjectedRows
  <2>3. shown = ReplicatedRows(of(kind))
    <3> HIDE DEF of
    <3> QED BY <2>1, <2>2
  <2>4. \A row \in of(kind) : row.from \subseteq LearningRollouts
      BY <1>1, LearningRowFacts DEF ArchiveStands
  <2> HIDE DEF shown, of
  <2>5. r \in SourcesOf(shown)
      BY <1>1 DEF shown
  <2>6. (\E row \in of(kind) : r \in row.from) /\ Replicated(SourcesOf(shown))
      BY <2>3, <2>4, <2>5, ReplicatedFacts
  <2>7. InForceNow(r)
      BY <2>6 DEF of, Candidate
  <2> QED BY <2>6, <2>7 DEF shown
<1>2. ASSUME NEW p, Readable(p)
      PROVE  ArchiveStands(p.bundle) /\ p.rows = ProjectedRows(p.bundle)
    BY <1>2 DEF Readable, Collect
<1>3. ShownUnderAuthority
  <2>1. ASSUME NEW p \in projections, Readable(p), NEW kind \in LearningKinds
        PROVE  LET shown == SourcesOf({row \in p.rows : row.kind = kind}) IN
               /\ \A r \in shown : InForceNow(r)
               /\ shown # {} => Replicated(shown)
      BY <1>1, <1>2, <2>1
  <2> QED BY <2>1 DEF ShownUnderAuthority
<1> QED BY <1>3, PTL
=============================================================================
