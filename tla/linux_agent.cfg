SPECIFICATION Spec
CONSTANTS
    RetryAfter = 2
    RefreshAfter = 3
    MaxClockSteps = 1
    MaxCrashes = 1
INVARIANTS
    TypeOK
    RunningIsTrue
    AgeNeverFlatters
PROPERTIES
    TriesAreSpaced
    StaleIsTried
    ReportsGoOn
