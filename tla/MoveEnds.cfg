SPECIFICATION MovesFairSpec
CONSTANTS
    Nothing = Nothing
    Cloud = C
    Home = H
    r1 = r1
    r2 = r2
    L = L
    Places = {C, H}
    Transfers = {m1, m2, r1}
    Moves = {m1, m2}
    Returns = {r1}
    Locals = {H}
    MoveScenes <- MovesOnly
PROPERTY SealEnds
CHECK_DEADLOCK FALSE
