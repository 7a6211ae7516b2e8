SPECIFICATION Spec
CONSTANTS
    Users = {u1}
    Tenants = {a}
    NoTenant = NoTenant
    TenantPlans = {"free"}
    Statuses = {"active"}
    Overrides = {}
    Dates <- MCDates
    Offers <- MCOffers
    MaxSubscriptions = 1
    NoDetails = NoDetails
    FaultSets = {{}}
    u1 = u1
    a = a
INVARIANT PaidFeatures
CHECK_DEADLOCK FALSE
