\* Two commitments, both possibly from one message.
SPECIFICATION Spec
CONSTANTS
    m1 = m1  m2 = m2  t1 = t1  c1 = c1  c2 = c2
    Messages = {m1, m2}
    Threads = {t1}
    CommitmentIds = {c1, c2}
    Phrases = {"tomorrow", "vague"}
    Deadlines = {1, 2, 3}
    AtRiskWindow = 1
    SentAt <- MCSentAt
    ResolveDeadline <- MCResolveDeadline
    NoMessage = NoMessage  NoThread = NoThread  NoPhrase = NoPhrase
    NoDeadline = NoDeadline
    Conversation <- MCConversation
    NormalizerKeepsThread = TRUE
    MaxTime = 2
    MaxExtracted = 2
    MaxEvents = 2
SYMMETRY Ids
INVARIANTS
    LabelsComeFromCorrections
PROPERTIES
    DeletedSourceIsQuiet
    SweepIsComplete
    EveryPromiseIsKept
CHECK_DEADLOCK FALSE
