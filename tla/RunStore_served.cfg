SPECIFICATION FairSpec
CONSTANTS
    r1 = r1  r2 = r2  s1 = s1  p1 = p1  p2 = p2  w1 = w1  w2 = w2  NULL = NULL
    Runs = {r1, r2}
    Students = {s1}
    StudentOf <- NoStudent
    Paths <- OnePath
    Budget <- Budget0
    Controlled = {}
    Procs = {p1}
    WorkerIds = {w1}
    IdOf <- SameId
    Matching = {}
    Tokens = {t1, t2, t3}
    LeaseFor = 1
PROPERTIES EveryRunIsServed EveryRunEnds
