SPECIFICATION Spec
CONSTANTS
    r1 = r1  r2 = r2  w1 = w1  w2 = w2  NULL = NULL
    Rollouts = {r1, r2}
    Workers = {w1, w2}
    Kinds = {"tool", "model"}
    Capacity = 3
    Slots = 1
    ConcurrentWorkers = 1
    Usages = {1}
    Charges = {0, 2}
    MaxClaims = 3
    MaxDecisions = 2
    MaxTransitions = 4
CONSTRAINT AloneOrShort
SYMMETRY Symmetry
INVARIANTS FundingConserved OneEffectPerState AbandonmentStaysReadable
PROPERTIES StartedIsNeverRefunded
CHECK_DEADLOCK FALSE
