SPECIFICATION Spec
CONSTANTS
    Sessions = {s1, s2, s3}
    NoSession = NoSession
    Instances = {i1}
    Profiles = {"read_only", "workspace_edit"}
    Retried = {"emacs_edit"}
    Keys <- MCKeys
    Fresh = Fresh
    SessionTTL = 1
    CacheTTL = 2
    CacheMax = 2
    StepTime = 1
    MaxClock = 2
SYMMETRY Symmetry
CHECK_DEADLOCK FALSE
INVARIANTS
    TypeOK
    OneMutatorPerInstance
    LeaseHasItsSession
PROPERTIES
    RetryIsNotReexecuted
