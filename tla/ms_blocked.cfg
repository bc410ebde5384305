\* at_least_once, one writer, a connection of two frames.
CONSTANTS
    End = {c, s}
    Writers = {c}
    Mode = "at_least_once"
    Window = 9
    Modulus = 16
    Capacity = 2
    MaxSeq = 6
    Losable = {}
    MaxLoss = 0
SPECIFICATION FairSpec
PROPERTY LockReleased
CHECK_DEADLOCK FALSE
