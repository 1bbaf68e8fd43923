SPECIFICATION FairSpec
CONSTANTS
    MaxLevel = 3
    NodeBytes = 3
    ViewMax = 24
    ViewMin = 9
    Unbuilt = 1
    Sizes = {1, 4}
    Answers = {3}
    Older = {0, 7}
    Lengths = {1, 2, 3, 8}
    MaxParts = 2
    MaxFaults = 2
INVARIANTS
    QueueInOrder
    OwnFilesUsable
    ViewIsReplay
PROPERTIES
    TakesMostDue
    AllInView
CHECK_DEADLOCK FALSE
