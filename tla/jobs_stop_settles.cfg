CONSTANTS
    j1 = j1
    j2 = j2
    c1 = c1
    c2 = c2
    app = app
    Jobs <- MCOneJob
    ControlJobs <- MCControlJobs
    Stubborn <- MCNone
    Callers <- MCCallers
    App <- app
    LineKinds <- MCLineKinds
    MaxLines = 1
    PipeCapacity = 1
SPECIFICATION FairSpec
PROPERTIES StoppedJobIsSettled
\* the app-service goes down and its workers end
CHECK_DEADLOCK FALSE
