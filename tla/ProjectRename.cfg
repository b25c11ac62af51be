SPECIFICATION Spec
CONSTANTS
    f1 = f1
    f2 = f2
    Files <- MCFiles
    Places <- MCPlaces
    Narrowed <- MCNarrowed
    Text0 <- MCText0
    MaxPlans = 1
    LastJournal = 2
    MaxSteps = 2
CHECK_DEADLOCK FALSE
INVARIANTS
    FlagIsHonest
PROPERTY
    RenameIsAtomic
