\* Three sessions, two messages, pages of one.
SPECIFICATION Spec
CONSTANTS
    s1 = s1  s2 = s2  s3 = s3
    Sessions = {s1, s2, s3}
    MaxMessage = 2
    PageSize = 1
    NoCursor = NoCursor
SYMMETRY SessionSymmetry
INVARIANTS
    TypeOK
    
    PhantomsWereMissed
    SlackSyncIsComplete
CHECK_DEADLOCK FALSE
