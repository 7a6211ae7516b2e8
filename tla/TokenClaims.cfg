SPECIFICATION FairSpec
CONSTANTS
    Users = {u1}
    Tenants = {a}
    NoTenant = NoTenant
    TenantPlans = {"free", "enterprise"}
    Statuses = {"active", "suspended"}
    Overrides = {a}
    Dates <- MCDates
    Offers <- MCOffers
    MaxSubscriptions = 2
    NoDetails = NoDetails
    FaultSets = {
        {"overlap", "timeout"},
        {"pool_fails", "query_fails"}
    }
    u1 = u1
    a = a
INVARIANTS
    PeriodsFit
PROPERTIES
    ClaimsWereTrue
    LoginsSucceed
CHECK_DEADLOCK FALSE
