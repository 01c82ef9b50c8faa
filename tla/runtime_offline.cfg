CONSTANTS
    spot = spot
    c1 = c1
    c2 = c2
    app = app
    none = none
    Runtimes <- MCRuntimes
    Callers <- MCCallers
    App <- app
    None <- none
    MaxProcs = 3
SPECIFICATION Spec
INVARIANT OfflineMeansNoProcess
CHECK_DEADLOCK FALSE
