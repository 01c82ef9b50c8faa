CONSTANTS
    j1 = j1
    j2 = j2
    c1 = c1
    c2 = c2
    app = app
    Jobs <- MCOneJob
    ControlJobs <- MCNone
    Stubborn <- MCOneJob
    Callers <- MCTwoCallers
    App <- app
    LineKinds <- MCLineKinds
    MaxLines = 2
    PipeCapacity = 1
SPECIFICATION FairSpec
PROPERTIES FinishedJobIsSettled StopEndsTree
\* the app-service goes down and its workers end
CHECK_DEADLOCK FALSE
