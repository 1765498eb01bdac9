\* Three sessions over one commitment.
SPECIFICATION Spec
CONSTANTS
    m1 = m1  m2 = m2  t1 = t1  s1 = s1  s2 = s2  s3 = s3
    Messages = {m1, m2}
    Threads = {t1}
    CommitmentIds = {1}
    Phrases = {"tomorrow", "vague"}
    Deadlines = {1, 3}
    AtRiskWindow = 0
    SentAt <- MCSentAt
    ResolveDeadline <- MCResolveDeadline
    NoMessage = NoMessage  NoThread = NoThread  NoPhrase = NoPhrase
    NoDeadline = NoDeadline
    Sessions = {s1, s2, s3}
    Thread = t1
    Reply = m2
    MaxTime = 2
SYMMETRY SessionSymmetry
INVARIANTS
    TypeOK
    OnlyStaleWritesMislead
PROPERTIES
    SettledReopensByStaleWrite
    RowsAreHandledWhole
CHECK_DEADLOCK FALSE
