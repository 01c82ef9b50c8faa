CONSTANTS
    j1 = j1
    j2 = j2
    c1 = c1
    c2 = c2
    app = app
    Jobs <- MCJobs
    ControlJobs <- MCControlJobs
    Stubborn <- MCJobs
    Callers <- MCCallers
    App <- app
    LineKinds <- MCLineKinds
    MaxLines = 2
    PipeCapacity = 1
SPECIFICATION Spec
INVARIANTS TypeOK SettledMeansOver TrackedIffAwaited StopSignalsAreAsked ShutdownMissesNobody
PROPERTIES KeepsContract
\* the app-service goes down and its workers end
CHECK_DEADLOCK FALSE
