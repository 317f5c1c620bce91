\* One job, every fault, a late start and a restart: safety.
SPECIFICATION Spec
CONSTANTS
    None = None
    Jobs = {j1}
    WaitBound = 2
    ClaimLimit = 2
    MaxLate = 1
    MaxCrashes = 1
    Faults = {"scope", "invalid", "workspace", "call", "giveup", "output", "sweep", "launch", "docker", "move"}
INVARIANTS
    StartedAtMostOnce
    VerdictsTrue
    QuiescedMeansNoWriter
    SealedHasNoLiveJob
PROPERTIES
    VerdictFinal
