SPECIFICATION Spec
CONSTANTS
    Requests <- MCRequests
    Containers = {c1, c2}
    Names <- MCNames
    NameOf <- MCNameOf
    Lower <- MCLower
    KindsOf <- MCKindsOf
    Schemas = {v1}
    Rejects <- MCRejects
    BadRow = {odd}
    NoContainer = NoContainer
    NotLoaded = NotLoaded
    Missing = Missing
    FaultSets = {
        {},
        {"ssm_fails", "check_fails", "insert_fails"},
        {"crash", "insert_reply_lost"},
        {"schema_missing"}
    }
    c1 = c1
    c2 = c2
    first = first
    again = again
    variant = variant
    odd = odd
    v1 = v1
SYMMETRY Symmetry
INVARIANTS
    NamesUnique
    AnswersExplained
    JudgedByStoredSchema
CHECK_DEADLOCK FALSE
