SPECIFICATION Spec
CONSTANTS
    Messages = {m1, m2}
    Malformed = {}
    Invocations = {i1, i2}
    BatchSize = 1
    MaxReceive = 5
    FaultSets = {
        {"crash"}
    }
    NoMessage = NoMessage
    m1 = m1
    m2 = m2
    i1 = i1
    i2 = i2
INVARIANTS NothingLost
CHECK_DEADLOCK FALSE
