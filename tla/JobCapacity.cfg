\* Two jobs of one persona compete for its one operation.
SPECIFICATION Spec
CONSTANTS
    None = None
    Jobs = {j1, j2}
    WaitBound = 1
    ClaimLimit = 2
    MaxLate = 0
    MaxCrashes = 0
    Faults = {}
SYMMETRY JobSymmetry
INVARIANT CapacityHeld
