SPECIFICATION WorkflowSpec
CONSTANTS
    a1 = a1  a2 = a2  a3 = a3  b1 = b1  b2 = b2  b3 = b3  gA = gA  gB = gB
    f1 = f1  r1 = r1  r2 = r2  s1 = s1  s2 = s2  NULL = NULL
    Items = {a1, a2, a3, b1, b2, b3}
    Groups = {gA, gB}
    GroupOf <- TwoGroups
    FamilyOf <- OneFamily
    Students = {s1}
    Tokens = {t1, t2}
    Count = 3
    LeaseFor = 1
    Runs = {r1, r2}
    StudentOf <- OneStudent
    SeedOf <- OwnSeeds
    Domains = {"general", "algebra"}
    MaxLessons = 2
    Workers = {w1, w2}
    Faulty = TRUE
CONSTRAINTS SecondInBrief UntilBothEnd
SYMMETRY Interchangeable
INVARIANTS BlocksStayWhole OutcomeMatchesEpisode GroupSeenInOneRun LessonWrittenOnce CanonicalLineage CompletedGroupRetired
PROPERTIES EpisodeStaysClosed
