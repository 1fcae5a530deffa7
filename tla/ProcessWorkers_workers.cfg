SPECIFICATION EffectsSpec
CONSTANTS
    r1 = r1  r2 = r2  w1 = w1  w2 = w2  b1 = b1  b2 = b2  q1 = q1  q2 = q2  NULL = NULL
    x1 = x1  x2 = x2
    Rollouts = {r1, r2}
    Workers = {w1, w2}
    Brokers = {b1, b2}
    Requests = {q1, q2}
    MaxRegistered = 1
    MaxRecords = 2
    MaxLeases = 2
    MaxDecisions = 1
    MaxTransitions = 2
    Executors = {x1, x2}
CONSTRAINTS OneSideAtATime OneWorkerAtATime OneTrouble DenialsEnd
SYMMETRY Symmetry
INVARIANTS LeasesAreAssigned DecidedAsObserved ReceiptsTellTheTruth
PROPERTIES RetriesAreAnswered OldWorkersAreFenced ImplementsEffect
