CONSTANT Tasks <- AllTasks
SPECIFICATION FairForkSpec
INVARIANTS
    ReportsTheChild
    ChildDoesNotOutlive
    NoUnprovokedSignal
PROPERTY StopEndsRun
CHECK_DEADLOCK FALSE
