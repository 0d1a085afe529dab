SPECIFICATION Spec
CONSTANTS
    RetryAfter = 2
    RefreshAfter = 3
    MaxClockSteps = 0
    MaxCrashes = 0
INVARIANT
    JournalDegrades
