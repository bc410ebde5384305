\* Both ends write, nothing is lost.
CONSTANTS
    End = {c, s}
    Writers = {c, s}
    Mode = "at_least_once"
    Window = 2
    Modulus = 16
    Capacity = 4
    MaxSeq = 4
    Losable = {}
    MaxLoss = 0
SPECIFICATION Spec
INVARIANT NothingOverwritten
CHECK_DEADLOCK FALSE
