\* Sessions over two messages of one conversation.
SPECIFICATION Spec
CONSTANTS
    m1 = m1  m2 = m2  c1 = c1  h1 = h1  h2 = h2  s1 = s1  s2 = s2  s3 = s3  m3 = m3  p1 = p1  p2 = p2
    Sessions = {s1, s2, s3}
    Messages = {m1, m2, m3}
    Batches <- MCBatches
    Conversations = {c1}
    Conversation <- MCConversation
    Handles = {h1, h2}
    Sender <- MCSender
    Recipients <- MCRecipients
    Persons = {p1, p2}
    Mappings <- MCMappings
    NoConversation = NoConversation  NoRow = NoRow  NoPerson = NoPerson
SYMMETRY Symmetry
INVARIANTS
    TypeOK
    OneRowUnlessRaced
    RaisesAloneOnlyOverDuplicates
    ParticipantsAreKept
    UnknownSendersAreRecorded
CHECK_DEADLOCK FALSE
