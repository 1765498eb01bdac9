\* Two sessions of any kind over one old user and new ones.
SPECIFICATION Spec
CONSTANTS
    u1 = u1  e1 = e1  e2 = e2  e3 = e3  s1 = s1  s2 = s2
    Sessions = {s1, s2}
    Old = {u1}
    Emails = {e1, e2, e3}
    EmailOf <- MCEmailOf
    Synthetic = e2
    Blank = e3
    NoEmail = NoEmail
SYMMETRY SessionSymmetry
INVARIANTS
    TypeOK
    PurgedStaysGone
    RaisesNeedRaces
PROPERTIES
    StaysConnected
CHECK_DEADLOCK FALSE
