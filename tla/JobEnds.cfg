\* Every job ends, lost jobs are accounted for and their containers retired,
\* also across a restart.
SPECIFICATION FairSpec
CONSTANTS
    None = None
    Jobs = {j1}
    WaitBound = 2
    ClaimLimit = 2
    MaxLate = 1
    MaxCrashes = 1
    Faults = {"scope", "workspace", "invalid", "giveup", "launch"}
PROPERTY JobsEnd
