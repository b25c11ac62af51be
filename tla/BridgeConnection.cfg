SPECIFICATION Spec
CONSTANTS
    MaxRequests = 4
    MaxEpoch = 2
CHECK_DEADLOCK FALSE
INVARIANTS
    TypeOK
    NothingRunsTwice
    PromptRequestsAreAllServed
