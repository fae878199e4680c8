CONSTANTS
    NoClass = "none"
    NoFunc = "none"
    NoType = NoType
    NoDecl = NoDecl
    CycleError = CycleError
    Pending = Pending
    Decls <- AllDeclarations

SPECIFICATION Spec
\* The type checker stops once it has its answer.
CHECK_DEADLOCK FALSE
INVARIANT StagesAgree
