CONSTANTS
    EntrySides <- MCBuy
    MaxQty = 1
    MaxOpen = 1
    MaxExecs = 3
    MaxCrashes = 1
SPECIFICATION Spec
INVARIANTS TypeOK MemoryMatchesExchange GhostRowIsLocked
PROPERTY KeepsProtectionContract
\* the loop ends for good on an answer 10004
CHECK_DEADLOCK FALSE
