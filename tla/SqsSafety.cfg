SPECIFICATION Spec
CONSTANTS
    Messages = {m1, m2, m3}
    Malformed = {m3}
    Invocations = {i1, i2}
    BatchSize = 2
    MaxReceive = 3
    FaultSets = {
        {},
        {"process_fails", "release_fails", "mark_reply_lost", "crash", "duplicate_delivery"},
        {"acquire_fails", "acquire_reply_lost", "process_fails", "process_reply_lost", "mark_fails", "mark_reply_lost"},
        {"acquire_fails", "acquire_reply_lost", "process_fails"},
        {"acquire_fails", "acquire_reply_lost", "process_fails", "process_reply_lost", "mark_fails", "mark_reply_lost",
         "release_fails", "crash", "duplicate_delivery"},
        {"no_route"}
    }
    NoMessage = NoMessage
    m1 = m1
    m2 = m2
    m3 = m3
    i1 = i1
    i2 = i2
SYMMETRY Symmetry
INVARIANTS
    TypeOK
    AtMostOnce
    LockExclusive
    NoSilentLoss
    NoStuckLock
    PoisonIsolated
CHECK_DEADLOCK FALSE
