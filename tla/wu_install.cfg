SPECIFICATION Spec
CONSTANTS
    Steps = 2
    MaxLaunches = 2
INVARIANTS
    TypeOK
    StreamIsLog
    ResultIsWorkers
    OneInstall
PROPERTIES
    StoppedIsTrue
    LauncherEnds
CHECK_DEADLOCK FALSE
