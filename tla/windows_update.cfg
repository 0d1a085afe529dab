SPECIFICATION Spec
CONSTANTS
    RefreshAfter = 1
    FlagAfter = 1
    MaxClockSteps = 1
    MaxCrashes = 1
INVARIANTS
    TypeOK
    RunningIsTrue
    AgeNeverFlatters
PROPERTIES
    SearchesAreSpaced
    AgeStaysKnown
    Recovers
