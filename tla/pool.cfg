SPECIFICATION FairSpec
CONSTANTS
    Labels = {1, 2}
    Entries = {1}
    Slots = 1
    Budget = 1
    EndMeetsFreeze = FALSE
INVARIANTS
    HeldWaits
    OneProcess
    SlotsHold
    StoppedIsPaused
    QueueOnDisk
    BriefKept
PROPERTIES
    FinishedStays
    JobsMove
CHECK_DEADLOCK FALSE
