\* One commitment at a time, with long trails; safety and liveness.
SPECIFICATION FairSpec
CONSTANTS
    m1 = m1  m2 = m2  t1 = t1  c1 = c1  c2 = c2
    Messages = {m1, m2}
    Threads = {t1}
    CommitmentIds = {c1}
    Phrases = {"tomorrow", "vague"}
    Deadlines = {1, 2, 3}
    AtRiskWindow = 1
    SentAt <- MCSentAt
    ResolveDeadline <- MCResolveDeadline
    NoMessage = NoMessage  NoThread = NoThread  NoPhrase = NoPhrase
    NoDeadline = NoDeadline
    Conversation <- MCConversation
    NormalizerKeepsThread = TRUE
    MaxTime = 3
    MaxExtracted = 1
    MaxEvents = 4
INVARIANTS
    TypeOK
    StatusesAreCoherent
    EvidenceIsOnThread
PROPERTIES
    StatusChangesAreTold
    OverdueAwaitsUser
    SettledReopensNarrowly
    KeepsPromise
CHECK_DEADLOCK FALSE
