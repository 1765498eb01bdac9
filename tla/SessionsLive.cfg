\* Liveness: two sessions over two commitments.
SPECIFICATION FairSpec
CONSTANTS
    m1 = m1  m2 = m2  t1 = t1  s1 = s1  s2 = s2  s3 = s3
    Messages = {m1, m2}
    Threads = {t1}
    CommitmentIds = {1, 2}
    Phrases = {"tomorrow"}
    Deadlines = {1}
    AtRiskWindow = 1
    SentAt <- MCSentAt
    ResolveDeadline <- MCResolveDeadline
    NoMessage = NoMessage  NoThread = NoThread  NoPhrase = NoPhrase
    NoDeadline = NoDeadline
    Sessions = {s1, s2}
    Thread = t1
    Reply = m2
    MaxTime = 0
PROPERTIES
    SessionsEnd
CHECK_DEADLOCK FALSE
