SPECIFICATION Spec
CONSTANTS
    SaveEvery = 3
    MaxGap = 2
    Shift = 4
    MaxClockSteps = 1
    MaxTotal = 8
PROPERTIES
    ReadingsSurvive
    MeterSpec
