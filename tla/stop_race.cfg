SPECIFICATION Spec
CONSTANTS
    SaveEvery = 2
    MaxGap = 1
    MaxClock = 2
    Inode = {i1, i2}
    NoInode = NoInode
    Modes = {"serve"}
INVARIANT
    StateFileParses
