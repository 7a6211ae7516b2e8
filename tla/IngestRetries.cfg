SPECIFICATION Spec
CONSTANTS
    Events <- MCEvents
    TenantOf <- MCTenantOf
    KeyOf <- MCKeyOf
    TypeOf <- MCTypeOf
    QuantityOf <- MCQuantityOf
    Verdicts <- MCVerdicts
    SchemaTypes <- NoSchema
    MaxAttempts = 2
    FaultSets = {
        {"impatient"},
        {"schema_fails", "lookup_fails", "insert_fails"},
        {"lookup_fails", "insert_reply_lost", "crash", "impatient"}
    }
    NoKey = NoKey
    NoQuantity = NoQuantity
    BadQuantity = BadQuantity
    ta = ta
    tb = tb
    key = key
    ea = ea
    eb = eb
    plain = plain
    bad = bad
INVARIANTS
    TypeOK
    BilledOnce
    SuccessIsCounted
    FailureLeavesNothing
    EndedIsCounted
CHECK_DEADLOCK FALSE
