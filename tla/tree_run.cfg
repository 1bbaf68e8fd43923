SPECIFICATION MCSpec
CONSTANTS
    Grants = {}
    Interpreters = {}
    Rules = {}
    ExprRules = {}
    OpaqueRules = {}
    NoEnvelope = NoEnvelope
    NoDeadline = NoDeadline
    Sessions = {0, 1, 2, 3, 4}
    Root = 0
    NoSession = NoSession
    NoCount = NoCount
    MaxCount = 0
    Groups = {0, 1, 2, 3, 4}
    NoGroup = NoGroup
    Executor = TRUE
    Faults = {"crash", "record", "register"}
    Few = 3
INVARIANTS BranchDies EndedIsDying
PROPERTY EveryNodeEnds
CHECK_DEADLOCK FALSE
