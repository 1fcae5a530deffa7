SPECIFICATION CallsSpec
CONSTANTS
    q1 = q1  q2 = q2  q3 = q3  q4 = q4  c1 = c1  c2 = c2  s1 = s1
    k1 = k1  k2 = k2  a1 = a1  a2 = a2  NULL = NULL
    Requests <- TwoTrials
    OwnerOf <- OfAtlas
    Callers = {c1, c2}
    MaxSends = 1
    Sessions = {}
    SessionOf <- InS1
    Planned = 2
    MaxRetry = 0
    MinTrials = 2
    Precise <- FirstSucceeds
    Activations = {a1, a2}
    MaxInFlight <- OneThenTwo
    Controllers = {k1, k2}
    ControllerOf <- OneEach
INVARIANT RequestsWithinEnvelope
CHECK_DEADLOCK FALSE
