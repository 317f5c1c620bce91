SPECIFICATION MovesSpec
CONSTANTS
    Nothing = Nothing
    Cloud = C
    Home = H
    r1 = r1
    r2 = r2
    L = L
    Places = {C, H, L}
    Transfers = {m1, r1, r2}
    Moves = {m1}
    Returns = {r1, r2}
    Locals = {H, L}
    MoveScenes <- MovesAndReturns
INVARIANTS OneNewestActive LedgersAgree 
CHECK_DEADLOCK FALSE
