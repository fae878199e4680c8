CONSTANTS
    TInt = TInt
    TDbl = TDbl
    Unresolved = Unresolved
    fI = fI
    fD = fD
    fDis = fDis
    fAsync = fAsync
    fGen = fGen
    gI = gI
    gD = gD
    TypeVar <- MCTypeVar
    Type <- MCType
    Decl <- MCDecl
    DeclType <- MCDeclType
    Disfavored <- MCDisfavored
    AsyncMismatch <- MCAsyncMismatch
    LiteralVar <- MCLiteralVar
    DefaultLiteralType = TInt
    Convertible <- MCConvertible
    FreeTypeVariableBinding = {"Allow"}
    OSR <- MCOSR
    GenericDecl <- MCGenericDecl
    Expressions <- MCExpressions

SPECIFICATION Spec
CHECK_DEADLOCK FALSE
INVARIANT PruningSound
