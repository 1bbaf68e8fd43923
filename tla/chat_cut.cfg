SPECIFICATION Spec
CONSTANTS
    MaxLevel = 3
    NodeBytes = 3
    ViewMax = 24
    ViewMin = 9
    Unbuilt = 1
    Sizes = {1, 4}
    Answers = {1, 3}
    Older = {0}
    Lengths = {1, 2}
    MaxParts = 1
    MaxFaults = 1
INVARIANT NoneSkipped
CHECK_DEADLOCK FALSE
