CONSTANTS
    TInt = TInt
    TDbl = TDbl
    Unresolved = Unresolved
    fI = fI
    fI2 = fI2
    fD = fD
    fDis = fDis
    fAsync = fAsync
    gI = gI
    gD = gD
    TypeVar <- MCTypeVar
    Type <- MCType
    Decl <- MCDecl
    DeclType <- MCDeclType
    Disfavored <- MCDisfavored
    AsyncMismatch <- MCAsyncMismatch
    LiteralVar <- MCLiteralVar
    DefaultLiteralType = TInt
    Convertible <- MCConvertible
    FreeTypeVariableBinding = {"Disallow", "Allow", "UnresolvedType"}
    Problem <- MCProblem

SPECIFICATION Spec
CHECK_DEADLOCK FALSE
INVARIANT TypeOK
INVARIANT NoMissedWakeup
INVARIANT OverloadResolvedOnce
PROPERTY UndoSoundness
PROPERTY ScopeOpenedWithoutFailure
PROPERTY Termination
PROPERTY Refinement
