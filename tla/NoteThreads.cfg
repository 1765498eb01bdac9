\* The normalizers drop the thread, as in the code.
SPECIFICATION Spec
CONSTANTS
    m1 = m1  m2 = m2  t1 = t1  c1 = c1  c2 = c2
    Messages = {m1, m2}
    Threads = {t1}
    CommitmentIds = {c1}
    Phrases = {"tomorrow", "vague"}
    Deadlines = {1, 2, 3}
    AtRiskWindow = 1
    SentAt <- MCSentAt
    ResolveDeadline <- MCResolveDeadline
    NoMessage = NoMessage  NoThread = NoThread  NoPhrase = NoPhrase
    NoDeadline = NoDeadline
    Conversation <- MCConversation
    NormalizerKeepsThread = FALSE
    MaxTime = 3
    MaxExtracted = 1
    MaxEvents = 3
INVARIANTS
    ConversationsAreThreaded
CHECK_DEADLOCK FALSE
