\* One input served by up to three turns of three generations held by two
\* competing writers: crashes, takeovers and seals at every step of a call.
SPECIFICATION Spec
CONSTANTS
    None = None
    send = send
    note = note
    bad = bad
    gone = gone
    Actions = {send, note, bad, gone}
    ElevatedOnly = {send}
    Invalid = {bad}
    Unknown = {gone}
    Inputs = {i1}
    Turns = {t1, t2, t3}
    Writers = {w1, w2}
    Decisions <- MCOneCall
    MaxCalls = 1
    MaxRounds = 2
    MaxGen = 3
    MaxDeciding = 1
SYMMETRY MCSymmetry
INVARIANTS
    AnsweredOnce
PROPERTIES
    SupersededTurnFrozen
    InactivePlacementIdle
CHECK_DEADLOCK FALSE
