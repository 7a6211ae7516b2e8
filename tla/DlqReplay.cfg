SPECIFICATION FairSpec
CONSTANTS
    Messages = {d1, d2}
    Replayers <- MCReplayers
    MaxMessages <- MCMaxMessages
    Cap = 3
    BatchMax = 2
    MaxDeliveries = 2
    FaultSets = {
        {},
        {"receive_fails", "send_fails", "delete_reply_lost"},
        {"dead_but_done", "slow_batch"},
        {"send_fails", "send_reply_lost", "delete_fails", "crash"}
    }
    NoMessage = NoMessage
    capped = capped
    unlimited = unlimited
    d1 = d1
    d2 = d2
INVARIANTS
    NothingDropped
    WorkDoneOnce
    CapHolds
PROPERTIES Drains
CHECK_DEADLOCK FALSE
