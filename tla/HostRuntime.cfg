SPECIFICATION RuntimeSpec
CONSTANTS
    Hosts = {h1, h2}
    Clients = {c1, c2}
    Nobody = Nobody
CHECK_DEADLOCK FALSE
INVARIANTS
    OneHostRuns
    RunningHostIsFound
    DeniedMeansARace
PROPERTIES
    RecordHeals
