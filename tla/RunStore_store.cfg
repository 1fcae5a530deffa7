SPECIFICATION Spec
CONSTANTS
    r1 = r1  r2 = r2  s1 = s1  p1 = p1  p2 = p2  w1 = w1  w2 = w2  NULL = NULL
    Runs = {r1, r2}
    Students = {s1}
    StudentOf <- SameStudent
    Paths <- TwoPaths
    Budget <- BudgetFirst
    Controlled = {r1}
    Procs = {p1, p2}
    WorkerIds = {w1, w2}
    IdOf <- OwnIds
    Matching = {p1}
    Tokens = {t1, t2, t3}
    LeaseFor = 1
CONSTRAINT SecondRunInBrief
SYMMETRY TokenSymmetry
INVARIANTS OneActiveRunPerStudent SampledRunsContinue
PROPERTIES ChangesAreFenced LiveLeaseIsExclusive ImplementsLifecycle
