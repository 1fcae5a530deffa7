-------------------------- MODULE TrainingCompiler --------------------------
(***************************************************************************)
(* Compiling, verifying and projecting training bundles                    *)
(* (padawan/training/compiler.py, process_projection.py) over the material *)
(* of TrainingProducts and the rollouts of ProcessLearning.                *)
(*                                                                         *)
(* A bundle is immutable; the records it was read from go on.  Verification *)
(* rebuilds the digest of the snapshot as of the bundle's stamp.  A         *)
(* projection is the part of a bundle that may be shown to a learner: it is *)
(* collected anew at each read.  The archive's artifacts are taken to stay  *)
(* as written.  Checkpoint statuses are under the digest just as item       *)
(* statuses are and are left out, as are the contents of the rows.          *)
(***************************************************************************)
EXTENDS TrainingProducts, ProcessLearning

CONSTANTS MaxCompiles, MaxProjections       \* bounds

ASSUME CompilerAssumption == MaxCompiles \in Nat /\ MaxCompiles < Never

VARIABLES
    bundles,        \* the TrainingBundleRows with their products, oldest first
    projections     \* the ProcessTrainingProjectionRows

compilerVars == <<now, bundles, projections>>
trainingVars == <<registered, materialVars, learningVars, compilerVars>>

TrainingInit ==
    /\ MaterialInit /\ LearningInit
    /\ now = 0 /\ bundles = <<>> /\ projections = {}

-----------------------------------------------------------------------------
Rows(t) == MaterialRows(t) \union LearningRows(t)

SnapshotDigest(t) == [developmental |-> MaterialEvidence(t), pprl |-> LearningEvidence(t)]

\* The bundle compiled as of t.  Of its exclusion ledger the model keeps the
\* lasting ones.
Bundle(t) ==
    [asOf |-> t, digest |-> SnapshotDigest(t), rows |-> Rows(t),
     excluded |-> SpoiledSources(t) \union WithdrawnSources(t)]

\* compile: a new bundle, or the one written before from the same records.
Compile(t) ==
    /\ t <= now
    /\ LET bundle == Bundle(t) IN
       \/ /\ \E n \in DOMAIN bundles : bundles[n].asOf = t /\ bundles[n] = bundle
          /\ UNCHANGED <<now, bundles>>
       \/ /\ now < MaxCompiles
          /\ \A n \in DOMAIN bundles : bundles[n] # bundle
          /\ bundles' = Append(bundles, bundle)
          /\ now' = now + 1
    /\ UNCHANGED projections

\* verify
Verifies(b) == b.digest = SnapshotDigest(b.asOf)

-----------------------------------------------------------------------------
\* _candidate: the train split, under an authority in force at this moment.
InForceNow(r) ==
    /\ CurrentStatus(AuthorizationOf[r]) \in TrainingStatuses
    /\ AuthorizationOf[r] \notin lapsed

Candidate(r) == SplitOf[r] = "train" /\ InForceNow(r)

SourcesOf(rows) == UNION {row.from : row \in rows}

\* The minima hold around every rollout these rows are made of.
SampleSuffices(rows) ==
    LET sources == SourcesOf(rows) IN
    /\ \A r \in sources : Cardinality(RolloutsOf(sources, InstanceOf[r])) >= MinReplicates
    /\ sources # {} => Replicated(sources)

\* _replicated_rows, which drops rows until the rest suffices: the largest part
\* that does.
ReplicatedRows(rows) == UNION {part \in SUBSET rows : SampleSuffices(part)}

ProjectedRows(b) ==
    UNION {ReplicatedRows({row \in b.rows : row.kind = kind /\ \A r \in row.from : Candidate(r)}) :
              kind \in LearningKinds}

ArchiveStands(b) ==
    /\ Verifies(b)
    /\ {row \in b.rows : row.kind \in LearningKinds} = LearningRows(b.asOf)

\* _collect: the public rows and, of each source, its authority's sequence.
Collect(b) ==
    LET rows == ProjectedRows(b) IN
    [bundle |-> b, rows |-> rows,
     sequences |-> {<<r, Len(lifecycle[AuthorizationOf[r]])>> : r \in SourcesOf(rows)}]

\* ProcessTrainingProjectionStore.compile
CompileProjection(b) ==
    /\ Cardinality(projections) < MaxProjections
    /\ ArchiveStands(b)
    /\ projections' = projections \union {Collect(b)}
    /\ UNCHANGED <<now, bundles>>

ReadsStored(p) == ArchiveStands(p.bundle)

\* read_product, which writes nothing: whether p would be shown now.
Readable(p) == ArchiveStands(p.bundle) /\ p = Collect(p.bundle)

CompilerNext ==
    \/ \E t \in 0..MaxCompiles : Compile(t)
    \/ \E n \in DOMAIN bundles : CompileProjection(bundles[n])

-----------------------------------------------------------------------------
(* Properties.                                                             *)

\* Verification compares digests of records, not rows: a bundle that verifies
\* is still the one that compiling again would write, so none of its rows has
\* been quarantined, tainted or overtaken since.
VerifiedBundlesRecompile ==
    \A n \in DOMAIN bundles :
        Verifies(bundles[n]) => bundles[n].rows = Rows(bundles[n].asOf)

\* What a bundle excludes for a lasting reason is in no later bundle that is
\* read as of the same moment or a later one: neither the item, the lane nor the
\* lineage comes back.
ExclusionsLast ==
    \A m, n \in DOMAIN bundles :
        m < n /\ bundles[m].asOf <= bundles[n].asOf =>
            \A row \in bundles[n].rows, x \in bundles[m].excluded :
                ~(row.kind = x[1] /\ x[2] \in row.from)

\* "Reconstructs and revalidates current use": whatever was projected once,
\* nothing is shown now of a rollout whose authority is withdrawn or lapsed, and
\* each product shown keeps the distribution's minima among the rollouts still
\* in force.
ShownUnderAuthority ==
    \A p \in projections : Readable(p) =>
        \A kind \in LearningKinds :
            LET shown == SourcesOf({row \in p.rows : row.kind = kind}) IN
            /\ \A r \in shown : InForceNow(r)
            /\ shown # {} => Replicated(shown)
=============================================================================
