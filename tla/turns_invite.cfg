SPECIFICATION Spec
CONSTANTS
    Sentences = {s1, s2}
    Accounts = 2
    Callers = {k1, k2}
    MaxCalls = 2
    MaxPauses = 1
    Mishaps = 0
    None = None
SYMMETRY Symmetry
INVARIANT InviteIsSafe
CHECK_DEADLOCK FALSE
