SPECIFICATION Spec
CONSTANTS
    Sources <- MCSources
    Unknown = Unknown
    MaxTickets = 2
    TTL = 2
    MostAttempts = 2
    LastTicket = 2
    MaxRuns = 3
    MaxClock = 3
CHECK_DEADLOCK FALSE
INVARIANTS
    EvaluationsAreBounded
    RerunIsOfNewSource
