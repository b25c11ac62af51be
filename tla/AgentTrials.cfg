SPECIFICATION Spec
CONSTANTS
    LastTrial = 2
    Files = {"task", "guarded"}
    Protected = {"guarded"}
    Allowed = {}
    Checks <- MCChecks
    Threshold = 60
    Forking = {1}
CHECK_DEADLOCK FALSE
INVARIANTS
    PassedOnWhatWasSeen
    TrialsDoNotOverlap
PROPERTY
    EveryRunEnds
