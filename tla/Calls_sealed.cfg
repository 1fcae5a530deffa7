SPECIFICATION CallsSpec
CONSTANTS
    q1 = q1  q2 = q2  q3 = q3  q4 = q4  c1 = c1  c2 = c2  s1 = s1
    k1 = k1  k2 = k2  a1 = a1  a2 = a2  NULL = NULL
    Requests = {q2}
    OwnerOf <- OneTurn
    Callers = {c1}
    MaxSends = 1
    Sessions = {s1}
    SessionOf <- InS1
    Planned = 1
    MaxRetry = 0
    MinTrials = 1
    Precise = {}
    Activations = {a1, a2}
    MaxInFlight <- OneThenTwo
    Controllers = {k1, k2}
    ControllerOf <- OneEach
CONSTRAINT OneSideAtATime
INVARIANT SealedTracesStand
CHECK_DEADLOCK FALSE
