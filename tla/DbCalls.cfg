SPECIFICATION FairSpec
CONSTANTS
    Containers = {c1, c2}
    Tenants = {a, b}
    NoTenant = NoTenant
    Sessions = {s1}
    NoSession = NoSession
    PoolMax = 2
    MaxStatements = 2
    MaxRotations = 1
    FaultSets = {
        {"rotate"},
        {"rotate", "secret_fails", "connect_fails", "query_fails"},
        {"connection_lost", "commit_reply_lost", "crash"}
    }
    c1 = c1
    c2 = c2
    a = a
    b = b
    s1 = s1
INVARIANTS
    TypeOK
    TenantScoped
    ClientsReturned
    RefusedOnlyAfterRotation
PROPERTIES
    CallsAreAtomic
    CallsEnd
CHECK_DEADLOCK FALSE
