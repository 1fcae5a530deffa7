SPECIFICATION EvaluationSpec
CONSTANTS
    a1 = a1  a2 = a2  b1 = b1  gA = gA  gB = gB  f1 = f1  NULL = NULL  NoRow = NoRow
    k1 = k1  k2 = k2  s1 = s1  st1 = st1  st2 = st2  c1 = c1  c2 = c2  x1 = x1  x2 = x2
    y1 = y1  y2 = y2  d1 = d1  d2 = d2  m1 = m1  q1 = q1  q2 = q2  u1 = u1  u2 = u2
    Items = {a1, a2, b1}
    Groups = {gA, gB}
    GroupOf <- TwoGroups
    FamilyOf <- OneFamily
    Owners = {o1, k1, k2}
    Students = {s1}
    Tokens = {t1, t2}
    Count = 2
    LeaseFor = 1
    Studies = {st1, st2}
    Checkpoints = {c1, c2}
    PairedBlocks = {x1, x2}
    BlocksOf <- SharedBlock
    Comparable = {st1, st2}
    Parent <- NoParents
    Trials = {k1, k2}
    StudyOf <- OneStudy
    StudentOf <- OneStudent
    ItemOf <- OneItem
    SourceOf <- TwoSources
    Never = 9
    Attempts = {y1, y2}
    TaskOf <- BothOnA1
    PromptOf <- OnePrompt
    ScoreOf <- Scores
    FitFor <- FitForAll
    TargetOutputs = {y1, y2}
    VerdictChoices <- Verdicts
    MaxVerdicts = 2
    Documents = {d1, d2}
    ContentOf <- OneContent
    MaxDecisions = 2
    Demonstrations = {m1}
    DemonstratedOn <- ShownOnA1
    LearningRollouts = {q1, q2}
    InstanceOf <- OneInstance
    AuthorizationOf <- TwoAuthorities
    ForkOf <- OneFork
    ReturnOf <- Returns
    SplitOf <- TrainSplit
    MinReplicates = 2
    MinInstances = 1
    LaneChoices <- TwoLaneSets
    MaxLifecycle = 3
    MaxCompiles = 2
    MaxProjections = 1
SYMMETRY Interchangeable
CONSTRAINT OneSideAtATime
INVARIANTS LeasesMatchGrants TrialsHoldTheirItems SealedResultsStand PromotionsRecompute
    VerifiedBundlesRecompile ExclusionsLast ShownUnderAuthority
PROPERTIES OutcomesComeFromHolders
