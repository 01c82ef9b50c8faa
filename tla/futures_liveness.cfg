CONSTANTS
    EntrySides <- MCBuy
    MaxQty = 1
    MaxOpen = 1
    MaxExecs = 2
    MaxCrashes = 1
SPECIFICATION FairSpec
PROPERTY NakedPositionIsLeft
\* the loop ends for good on an answer 10004
CHECK_DEADLOCK FALSE
