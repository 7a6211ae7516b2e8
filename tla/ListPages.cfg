SPECIFICATION Spec
CONSTANTS
    Invoices <- MCInvoices
    Matching <- MCMatching
    MaxTime = 3
    TicksPerMs = 2
    AskedLimits <- MCAskedLimits
    DEFAULT_LIMIT = 2
    MAX_LIMIT = 3
INVARIANTS
    Descending
    MissesOnlyPageEnds
CHECK_DEADLOCK FALSE
