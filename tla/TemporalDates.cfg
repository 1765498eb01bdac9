\* Phrases of every reading, sent around the ends of weeks, months and years.
SPECIFICATION Spec
CONSTANTS
    Anchors <- MCAnchors
    Phrases <- MCPhrases
    Inside <- MCInside
    Years = {2022, 2023, 2024, 2025}
    NoDeadline = NoDeadline
    Pending = Pending
INVARIANTS
    TypeOK
    WeeklyFit
    MonthlyFit
    BusinessDaysAreCounted
    PastOnlyToday
CHECK_DEADLOCK FALSE
