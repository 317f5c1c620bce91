\* One terminal in two terms and its output; one room and one visit to it.
SPECIFICATION SessionsSpec
CONSTANTS
    Terms = {1, 2}
    MaxInputs = 1
    MaxEpoch = 2
    MaxLate = 1
    MaxBytes = 4
    MaxCuts = 1
    MaxFaults = 2
    Retain = 3
    Keep = 2
    Perils = {}
    Conns = {1, 2}
    MaxRooms = 2
    MaxHooks = 2
    MaxRepeats = 1
    CallPerils = {}
    Visits = {1}
    MaxClaims = 3
    Says = {1}
INVARIANTS  NoSilentLoss 
CHECK_DEADLOCK FALSE
