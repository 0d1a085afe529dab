SPECIFICATION Spec
CONSTANTS
    MaxParts = 3
    MaxLines = 2
    MaxCount = 3
    MaxRange = 6
INVARIANT LoginsAreRecent
