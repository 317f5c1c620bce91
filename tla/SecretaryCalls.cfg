\* One input served by two turns of two generations: every way a planned call
\* can be claimed, refused, parked, decided (two decisions racing), replayed.
SPECIFICATION Spec
CONSTANTS
    None = None
    send = send
    note = note
    bad = bad
    gone = gone
    Actions = {send, note, bad, gone}
    ElevatedOnly = {send}
    Invalid = {bad}
    Unknown = {gone}
    Inputs = {i1}
    Turns = {t1, t2}
    Writers = {w1}
    Decisions <- MCDecisions
    MaxCalls = 2
    MaxRounds = 2
    MaxGen = 2
    MaxDeciding = 2
SYMMETRY MCSymmetry
INVARIANTS
    EffectOnce
    EffectConsented
    CutTells
PROPERTIES
    ImplementsContract
CHECK_DEADLOCK FALSE
