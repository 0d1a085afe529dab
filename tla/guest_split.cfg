SPECIFICATION Spec
CONSTANTS
    Guest = {g1, g2}
    StandbyCheck = 3
    Horizon = 3
    MaxUsage = 1
SYMMETRY Interchangeable
INVARIANT
    GuestSplitWithinWhole
