\* Two inputs sharing the queue: retries, approval waits and budget waits of
\* one while the other is served, receipts committed across inputs.
SPECIFICATION Spec
CONSTANTS
    None = None
    send = send
    note = note
    bad = bad
    gone = gone
    Actions = {send, note, bad, gone}
    ElevatedOnly = {send}
    Invalid = {bad}
    Unknown = {gone}
    Inputs = {i1, i2}
    Turns = {t1, t2}
    Writers = {w1}
    Decisions <- MCGatedCall
    MaxCalls = 1
    MaxRounds = 1
    MaxGen = 2
    MaxDeciding = 1
SYMMETRY MCSymmetry
INVARIANTS
    QueueSound
CHECK_DEADLOCK FALSE
