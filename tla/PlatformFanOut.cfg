SPECIFICATION PlatformFairSpec
CONSTANTS
    Requests <- MCRequests
    Tenants <- MCTenants
    TenantOf <- MCTenantOf
    Verdicts <- MCVerdicts
    BadBody = {}
    BadCycle = {}
    FaultSets = {
        {"insert_fails"}
    }
    MaxReceive = 2
    MaxCopies = 2
    MaxExtra = 1
    Struck = {"generate-invoice"}
    DeliveryFaultSets = {
        {"consumer_fails"},
        {"no_vpc", "delete_fails", "sns_duplicate"},
        {"mark_fails"},
        {"crash", "duplicate_delivery"}
    }
    a = a
    r1 = r1
    r2 = r2
INVARIANTS
    WorkedOnce
    NothingForgotten
PROPERTIES
    SubscriptionSettled
    QueuesKeepPromise
CHECK_DEADLOCK FALSE
