SPECIFICATION Spec
CONSTANTS
    Texts <- MCTexts
    Diffs <- MCDiffs
    Streams <- MCStreams
    LispTexts <- MCLispTexts
    Literals <- MCLiterals
    Symbols <- MCSymbols
    Modes <- MCModes
    Contents <- MCContents
    OldName <- MCOldName
    NewNames <- MCNewNames
    Forms <- MCForms
    Binders <- MCBinders
    MaxMessage = 4
    MaxHeader = 7
    MaxFiles = 2
    MaxBytes = 6
    MaxEdits = 3
    Variables = {"x", "y"}
INVARIANTS
    DiffMeansWhatItSays
    FramesSurviveChunking
    BalanceIsMatching
    QualificationIsKept
    RenameTouchesOnlyTheSymbol
    ParametersAreFreeVariables
\* One call and its answer: the behaviour ends there.
CHECK_DEADLOCK FALSE
