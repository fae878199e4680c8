CONSTANTS
    NoClass = "none"
    NoFunc = "none"
    NoType = NoType
    NoDecl = NoDecl
    CycleError = CycleError
    Pending = Pending
    Decls <- Declarations

SPECIFICATION Spec
\* The type checker stops once it has its answer.
CHECK_DEADLOCK FALSE
INVARIANT ActorsInherited
INVARIANT ActorModifierHeeded
INVARIANT AsyncHandlersWellFormed
INVARIANT AsyncHandlersInferred
INVARIANT SuperclassIsClass
INVARIANT StagesAgree
INVARIANT InferenceUnambiguous
