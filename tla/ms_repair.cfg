\* One lost data frame, room for every frame in flight.
\* Two brokers, one of which crashes and starts again, and may be removed.
CONSTANTS
    End = {c, s}
    Writers = {c}
    Mode = "exactly_once"
    Window = 7
    Modulus = 8
    Capacity = 8
    MaxSeq = 3
    Losable = {"data"}
    MaxLoss = 1
    Node = {1, 2}
    NoLeader = NoLeader
    Removable = {1}
    MaxElect = 1
    MaxCrash = 1
    MaxRestart = 1
SPECIFICATION MCFairSpec
INVARIANT ElInv
PROPERTIES GapRepaired LeaderFound
CHECK_DEADLOCK FALSE
