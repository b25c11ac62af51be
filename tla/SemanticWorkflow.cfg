SPECIFICATION WorkflowSpec
CONSTANTS
    Buffers = {b1}
    Files = {f1}
    NoFile = NoFile
    Segs = {s1, s2}
    Blank = Blank
    Draft = Draft
    Proposal = Proposal
    Result = Result
    Effect = Effect
    Words = {Blank, Draft, Proposal, Result, Effect}
    InitTexts <- MCInitTexts
    MaxTick = 4
    Agents = {a1}
    Chk = {c1}
    NoSnap = NoSnap
    NoText = NoText
    target = b1
    chk = c1
    Operations = {"repair_lisp", "refactor_defun", "rename_symbol", "extract_function", "move_form", "transform_sexp", "org_rewrite_subtree", "org_build_section"}
CHECK_DEADLOCK FALSE
INVARIANTS
    WorkflowTypeOK
    AnswerIsSettled
    ProposalIsGone
PROPERTIES
    CommitIsEarned
    EveryCallIsAnswered
