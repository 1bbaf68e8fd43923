SPECIFICATION Spec
CONSTANTS
    Labels = {1, 2}
    Entries = {1, 2}
    Slots = 1
    Budget = 2
    EndMeetsFreeze = TRUE
INVARIANT HeldWaits
CHECK_DEADLOCK FALSE
