SPECIFICATION MCSafeSpec
CONSTANTS
    Grants = {}
    Interpreters = {}
    Rules = {}
    ExprRules = {}
    OpaqueRules = {}
    NoEnvelope = NoEnvelope
    NoDeadline = NoDeadline
    Sessions = {0, 1, 2, 3}
    Root = 0
    NoSession = NoSession
    NoCount = NoCount
    MaxCount = 0
    Groups = {0, 1, 2, 3}
    NoGroup = NoGroup
    Executor = FALSE
    Faults = {}
    Few = 3
INVARIANT NoneLeft
CHECK_DEADLOCK FALSE
