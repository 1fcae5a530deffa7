-------------------------- MODULE TrainingProducts --------------------------
(***************************************************************************)
(* What the developmental side may teach: attempts on corpus items, source *)
(* documents and authored demonstrations (padawan/training/compiler.py,    *)
(* sources.py, demonstrations.py, rewards/engine.py).                      *)
(*                                                                         *)
(* Attempts, grades, eligibility decisions and source decisions are only   *)
(* appended and are read as of a stamp.  An item's status and its family's *)
(* taint are columns: whatever the stamp, a compilation reads them as they *)
(* are now.  What never changes about an attempt (role, teacher influence, *)
(* rights, checkpoint, whether its grade is a success) is data: the lanes  *)
(* it is fit for.  Items are curriculum items, as in CorpusRegistry.       *)
(***************************************************************************)
EXTENDS CorpusRegistry, EvidenceClock, Sequences

CONSTANTS
    Attempts,
    TaskOf,             \* attempt -> its item
    PromptOf,           \* attempt -> its rendered prompt
    ScoreOf,            \* attempt -> the score of its grade, once it has one
    FitFor,             \* attempt -> the lanes its unchanging data admits
    TargetOutputs,      \* the attempts of the target, free of a teacher
    VerdictChoices,     \* bound: what one eligibility decision may say
    MaxVerdicts,        \* bound
    Documents,
    ContentOf,          \* document -> its content digest
    MaxDecisions,       \* bound: decisions on one document
    Demonstrations,
    DemonstratedOn      \* demonstration -> its source item

AttemptLanes   == {"sft", "preference", "rlvr", "process"}
TrainingLanes  == AttemptLanes \union {"continued_pretraining", "evaluation_only"}
SourceStatuses == {"active", "review_required", "quarantined", "retired"}

ASSUME ProductsAssumption ==
    /\ TaskOf \in [Attempts -> Items] /\ DemonstratedOn \in [Demonstrations -> Items]
    /\ FitFor \in [Attempts -> SUBSET AttemptLanes] /\ TargetOutputs \subseteq Attempts
    /\ Attempts \intersect Documents = {}
    /\ \A a, b \in Attempts : PromptOf[a] = PromptOf[b] => TaskOf[a] = TaskOf[b]
    /\ \A v \in VerdictChoices :
          /\ v.subject \in Attempts \union Items
          /\ v.allowed \union v.excluded \subseteq TrainingLanes
          /\ v.allowed \intersect v.excluded = {}

VARIABLES
    registered,     \* item -> stamp of its row
    attempted,      \* attempt -> stamp of its row
    graded,         \* attempt -> stamp of its GradeRow
    verdicts,       \* the TrainingEligibilityRows
    admitted,       \* the TrainingSourceDocumentRows, oldest first
    rulingsOn,      \* document -> its TrainingSourceDecisionRows, oldest first
    demonstrated    \* demonstration -> stamp of its row

materialVars == <<attempted, graded, verdicts, admitted, rulingsOn, demonstrated>>

MaterialInit ==
    /\ registered = [i \in Items |-> Never]
    /\ attempted = [a \in Attempts |-> Never] /\ graded = [a \in Attempts |-> Never]
    /\ verdicts = {} /\ admitted = <<>>
    /\ rulingsOn = [d \in Documents |-> <<>>]
    /\ demonstrated = [m \in Demonstrations |-> Never]

\* Taken with every step of the corpus: new items carry the stamp of the day.
StampItems ==
    registered' = [i \in Items |->
        IF status[i] = "absent" /\ status'[i] # "absent" THEN now ELSE registered[i]]

-----------------------------------------------------------------------------
\* store_attempt cites an item; its lease may be long gone.
StoreAttempt(a) ==
    /\ status[TaskOf[a]] # "absent" /\ Stamp(attempted, a)
    /\ attempted' = [attempted EXCEPT ![a] = now]
    /\ UNCHANGED <<graded, verdicts, admitted, rulingsOn, demonstrated>>

StoreGrade(a) ==
    /\ attempted[a] # Never /\ Stamp(graded, a)
    /\ graded' = [graded EXCEPT ![a] = now]
    /\ UNCHANGED <<attempted, verdicts, admitted, rulingsOn, demonstrated>>

\* record_training_eligibility, whose subjects are not looked up
RecordVerdict(v) ==
    /\ Cardinality(verdicts) < MaxVerdicts
    /\ verdicts' = verdicts \union {[says |-> v, at |-> now]}
    /\ UNCHANGED <<attempted, graded, admitted, rulingsOn, demonstrated>>

Ruling(to, tainted) == [status |-> to, contaminated |-> tainted, at |-> now]

AdmitSource(d, to, tainted) ==
    /\ rulingsOn[d] = <<>>
    /\ admitted' = Append(admitted, d)
    /\ rulingsOn' = [rulingsOn EXCEPT ![d] = <<Ruling(to, tainted)>>]
    /\ UNCHANGED <<attempted, graded, verdicts, demonstrated>>

ClosedSource(d) == rulingsOn[d][Len(rulingsOn[d])].status \in {"quarantined", "retired"}

\* Only the latest decision is asked for.
DecideSource(d, to, tainted) ==
    /\ rulingsOn[d] # <<>> /\ Len(rulingsOn[d]) < MaxDecisions
    /\ ~(ClosedSource(d) /\ to = "active")
    /\ rulingsOn' = [rulingsOn EXCEPT ![d] = Append(@, Ruling(to, tainted))]
    /\ UNCHANGED <<attempted, graded, verdicts, admitted, demonstrated>>

\* The family's taint is not asked here; the compiler asks.
AdmitDemonstration(m) ==
    /\ status[DemonstratedOn[m]] \in {"active", "leased"} /\ Stamp(demonstrated, m)
    /\ demonstrated' = [demonstrated EXCEPT ![m] = now]
    /\ UNCHANGED <<attempted, graded, verdicts, admitted, rulingsOn>>

AttemptNext ==
    \/ \E a \in Attempts : StoreAttempt(a) \/ StoreGrade(a)
    \/ \E v \in VerdictChoices : RecordVerdict(v)
    \/ \E m \in Demonstrations : AdmitDemonstration(m)

SourceNext ==
    \E d \in Documents, to \in SourceStatuses, tainted \in BOOLEAN :
        AdmitSource(d, to, tainted) \/ DecideSource(d, to, tainted)

-----------------------------------------------------------------------------
(* _load_snapshot and _compile_rows: the rows as of t.                     *)

Tainted(i) == FamilyOf[GroupOf[i]] \in contaminated

Spoiled(i) == status[i] = "quarantined" \/ Tainted(i)

\* _candidate_decisions: an attempt is also the subject of what is said of its item.
SaidOf(a, t) == {w.says : w \in {v \in verdicts : v.at <= t /\ v.says.subject \in {a, TaskOf[a]}}}

\* Mutated: whoever admits the lane is believed.
EligibleThoughExcluded(a, lane, t) == \E v \in SaidOf(a, t) : lane \in v.allowed

EligibleFor(a, lane, t) ==
    /\ \E v \in SaidOf(a, t) : lane \in v.allowed
    /\ \A v \in SaidOf(a, t) : lane \notin v.excluded

\* _attempt_reasons finds none.
TeachesIn(a, lane, t) ==
    /\ a \in TargetOutputs /\ attempted[a] <= t
    /\ lane \in FitFor[a] /\ ~Spoiled(TaskOf[a])
    /\ lane \in {"sft", "preference"} => graded[a] <= t
    /\ EligibleFor(a, lane, t)

\* The lowest and the highest of the target's graded outputs to one prompt, if
\* they differ.
Contrasts(t) ==
    LET outputs(p) == {a \in TargetOutputs : PromptOf[a] = p /\ graded[a] <= t}
        answers == {outputs(PromptOf[a]) : a \in TargetOutputs}
    IN {BestAndWorst(S, ScoreOf) : S \in {T \in answers : Uneven(T, ScoreOf)}}

\* Whether they may teach is asked of these two alone.
PreferencePairs(t) == {pair \in Contrasts(t) : \A a \in pair : TeachesIn(a, "preference", t)}

RulingsBy(d, t) == AsOf(rulingsOn[d], t)
ActiveSource(d, t) ==
    DOMAIN RulingsBy(d, t) # {} /\ LastOf(RulingsBy(d, t)).status = "active"

\* The newest active version of its content, and not contaminated: an older one
\* is a duplicate, whether the newest is contaminated or not.
PretrainsOn(d, t) ==
    /\ ActiveSource(d, t)
    /\ ~LastOf(RulingsBy(d, t)).contaminated
    /\ \A k, n \in DOMAIN admitted :
          admitted[k] = d /\ k < n /\ ContentOf[admitted[n]] = ContentOf[d]
          => ~ActiveSource(admitted[n], t)

DemonstratesAt(m, t) ==
    /\ demonstrated[m] <= t
    /\ status[DemonstratedOn[m]] \in {"active", "leased"} /\ ~Tainted(DemonstratedOn[m])

MaterialRow(kind, sources) == [kind |-> kind, from |-> sources]

MaterialRows(t) ==
    {MaterialRow(x[1], {x[2]}) : x \in {y \in {"sft", "rlvr", "process"} \X Attempts :
                                           TeachesIn(y[2], y[1], t)}}
    \union {MaterialRow("preference", pair) : pair \in PreferencePairs(t)}
    \union {MaterialRow("continued_pretraining", {d}) : d \in {e \in Documents : PretrainsOn(e, t)}}
    \union {MaterialRow("authored_sft", {m}) : m \in {n \in Demonstrations : DemonstratesAt(n, t)}}

StampedBy(stamps, t) == {x \in DOMAIN stamps : stamps[x] <= t}

EvidenceStatusOnly(t) ==
    [items |-> {<<i, status[i]>> : i \in StampedBy(registered, t)},
     attempted |-> StampedBy(attempted, t), graded |-> StampedBy(graded, t),
     verdicts |-> {v \in verdicts : v.at <= t},
     rulings |-> [d \in Documents |-> RulingsBy(d, t)],
     demonstrated |-> StampedBy(demonstrated, t)]

\* The records the snapshot digest covers: an item's with its present status
\* and its family's taint.
MaterialEvidence(t) ==
    [items |-> {<<i, status[i], Tainted(i)>> : i \in StampedBy(registered, t)},
     attempted |-> StampedBy(attempted, t), graded |-> StampedBy(graded, t),
     verdicts |-> {v \in verdicts : v.at <= t},
     rulings |-> [d \in Documents |-> RulingsBy(d, t)],
     demonstrated |-> StampedBy(demonstrated, t)]

\* Of the exclusions, those that no later record undoes.  A source document is
\* not among them.
SpoiledSources(t) ==
    (AttemptLanes \X {a \in Attempts : attempted[a] <= t /\ Spoiled(TaskOf[a])})
    \union (UNION {v.says.excluded \X {a \in Attempts : v.says.subject \in {a, TaskOf[a]}} :
                       v \in {w \in verdicts : w.at <= t}})
    \union ({"authored_sft"} \X {m \in Demonstrations : Spoiled(DemonstratedOn[m])})

-----------------------------------------------------------------------------
(* Properties.                                                             *)

\* "Quarantined or retired documents cannot return to active status in place".
ClosedSourcesStayClosed ==
    \A d \in Documents, k, n \in 1..MaxDecisions :
        k < n /\ n <= Len(rulingsOn[d]) =>
            ~(rulingsOn[d][k].status \in {"quarantined", "retired"} /\ rulingsOn[d][n].status = "active")
=============================================================================
