SPECIFICATION CallsSpec
CONSTANTS
    q1 = q1  q2 = q2  q3 = q3  q4 = q4  c1 = c1  c2 = c2  s1 = s1
    k1 = k1  k2 = k2  a1 = a1  a2 = a2  NULL = NULL
    Requests <- AllRequests
    OwnerOf <- EachOwner
    Callers = {c1, c2}
    MaxSends = 2
    Sessions = {s1}
    SessionOf <- InS1
    Planned = 2
    MaxRetry = 1
    MinTrials = 1
    Precise <- FirstSucceeds
    Activations = {a1, a2}
    MaxInFlight <- OneThenTwo
    Controllers = {k1, k2}
    ControllerOf <- OneEach
SYMMETRY Exchanged
CONSTRAINT OneSideAtATime
INVARIANTS OneAnswerPerRequest EffectsHappenOnce DeletionIsComplete
    ReservationHolds OutcomesFollowTheLedger ScoredOutcomesStand CompleteSnapshotStands
PROPERTIES ConsentedEvidenceStays
CHECK_DEADLOCK FALSE
