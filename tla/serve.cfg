SPECIFICATION Spec
CONSTANTS
    SaveEvery = 2
    MaxGap = 1
    MaxClock = 3
    Inode = {i1, i2}
    NoInode = NoInode
    Modes = {"serve", "live", "once"}
INVARIANTS
    TypeOK
    IntactUnlessOverlap
    ReadingsSurvive
    GracefulLoss
PROPERTIES
    MeterSpec
    StopTerminates
