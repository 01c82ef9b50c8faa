CONSTANTS
    EntrySides <- MCBuy
    MaxQty = 1
    MaxOpen = 1
    MaxExecs = 3
    MaxCrashes = 0
SPECIFICATION Spec
INVARIANT FilledPositionHasStatus
CHECK_DEADLOCK FALSE
