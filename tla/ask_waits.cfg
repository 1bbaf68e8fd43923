SPECIFICATION Spec
CONSTANTS
    Gates = {g1, g2}
    Permanent = {g2}
    Names = {n1, n2}
    Operators = {o1}
    Timeout = 1
    MaxNow = 2
    Shared = FALSE
    None = None
INVARIANTS
    OwnAnswer
    PermanentConfirmed
    AskStays
    AnswerStays
    AskRetired
CHECK_DEADLOCK FALSE
