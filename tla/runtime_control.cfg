CONSTANTS
    spot = spot
    c1 = c1
    c2 = c2
    app = app
    none = none
    Runtimes <- MCRuntimes
    Callers <- MCCallers
    App <- app
    None <- none
    MaxProcs = 3
SPECIFICATION FairSpec
INVARIANTS TypeOK TrackedIsAwaited StopFileIsForTrackedRun AbandonedIsTerminated
PROPERTY StopEndsRuntime
\* the app-service goes down and its runtimes end
CHECK_DEADLOCK FALSE
