\* The last target's solve returns and the type checker stops.
CONSTANTS
    Pending = Pending
    None = None
    MaxSolutions = 3
    Targets = 2
SPECIFICATION MCSpec
CHECK_DEADLOCK FALSE
INVARIANTS
    ErrorReported
    DiagnosedByOne
PROPERTIES
    SolveReturns
