SPECIFICATION Spec
CONSTANTS
    Buffers = {b1}
    Files = {f1}
    NoFile = NoFile
    Segs = {s1, s2}
    Blank = Blank
    Draft = Draft
    Words = {Blank, Draft}
    InitTexts <- MCInitTexts
    MaxTick = 3
    Agents = {a1}
    Chk = {c1, c2}
    NoSnap = NoSnap
SYMMETRY Symmetry
CHECK_DEADLOCK FALSE
INVARIANTS
    TypeOK
    SeenIsFresh
PROPERTIES
    GuardedEditIsAsPlanned
    RollbackKeepsHumanText
    RollbackFlagIsHonest
