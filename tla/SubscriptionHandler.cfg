SPECIFICATION FairSpec
CONSTANTS
    Requests = {r1, r2, r3, r4, r5}
    Tenants <- MCTenants
    TenantOf <- MCTenantOf
    Verdicts <- MCVerdicts
    BadBody = {r5}
    BadCycle = {r3}
    FaultSets = {
        {},
        {"schema_fails", "check_fails", "insert_fails", "publish_reply_lost"},
        {"schema_fails", "check_fails", "insert_fails", "insert_reply_lost", "publish_fails", "publish_reply_lost", "crash"}
    }
    a = a
    b = b
    RequestsOfB = {r4, r5}
    r1 = r1
    r2 = r2
    r3 = r3
    r4 = r4
    r5 = r5
INVARIANTS
    TypeOK
    DuplicatesOnlyByOverlap
    AnswersTruthful
    CommittedIsAnnounced
PROPERTIES EventuallySubscribed
CHECK_DEADLOCK FALSE
