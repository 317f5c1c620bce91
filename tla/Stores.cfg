\* Two operations on two paths under each scene; a return of two files in
\* either mode over an install that may hold other or identical files; one
\* upload retried twice; two grants of a cloud browser; three personas that
\* sleep and a page of two.
SPECIFICATION StoresSpec
CONSTANTS
    a = a
    b = b
    Paths = {a, b}
    MaxOps = 2
    Requests <- Mixed
    Seeded = {a}
    MaxForeign = 1
    MaxRemovals = 1
    Scenes <- MCScenes
    Carried = {a, b}
    Modes = {"local", "cloud"}
    Befores = {"absent", "own", "cloud"}
    MaxCaptures = 2
    MaxEdits = 1
    MaxTokens = 2
    Tries = {1, 2, 3}
    Ids = {1, 2}
    Quota = 2
    SendRaces = FALSE
    Grants = {g1, g2}
    MaxClock = 2
    MaxLives = 2
    MaxSaves = 1
    CloudPerils = {}
    LastPersona = 3
    PageLimit = 2
    MinGap = 1
    MaxGap = 2
    MemoryGap = 2
INVARIANTS
    NothingLost
    
    
    AttachmentsSound
    
    WakesFairly
CHECK_DEADLOCK FALSE
