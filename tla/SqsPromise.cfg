SPECIFICATION FairSpec
CONSTANTS
    Messages = {m1, m2, m3}
    Malformed = {m3}
    Invocations = {i1, i2}
    BatchSize = 2
    MaxReceive = 2
    FaultSets = {
        {},
        {"acquire_fails", "acquire_reply_lost", "process_fails"},
        {"process_reply_lost", "mark_fails"},
        {"process_fails", "release_fails", "crash"},
        {"acquire_fails", "duplicate_delivery"}
    }
    NoMessage = NoMessage
    m1 = m1
    m2 = m2
    m3 = m3
    i1 = i1
    i2 = i2
PROPERTIES
    EventuallyProcessed
    KeepsPromise
CHECK_DEADLOCK FALSE
