\* One background thread beside the event loop, over two days.
SPECIFICATION Spec
CONSTANTS
    loop = loop  w1 = w1
    Limit = 2
    Window = 2
    CostLimit = 3
    Costs = {1, 2}
    DayLength = 2
    Workers = {w1}
    Loop = loop
    Fixtures = 2
    NoMetrics = NoMetrics
    MaxTime = 3
    MaxTotal = 4
INVARIANTS
    TypeOK
    LimiterIsExact
    AcceptedWithinLimit
PROPERTIES
    ChargesAreJudged
CHECK_DEADLOCK FALSE
