SPECIFICATION Spec
CONSTANTS
    Sentences = {s1, s2}
    Accounts = 2
    Callers = {k1}
    MaxCalls = 2
    MaxPauses = 1
    Mishaps = 2
    None = None
SYMMETRY Symmetry
INVARIANTS OneAccount IntentFirst UnknownTold HeardOnce LoggedOnce RestartInviteIsSafe
PROPERTY HeardIsNotDenied
CHECK_DEADLOCK FALSE
