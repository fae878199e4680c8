CONSTANTS
    Pending = Pending
    NoClass = NoClass
    Module = Module
    SuperActor = SuperActor
    MyActor = MyActor
    ActorExt = ActorExt
    Plain = Plain
    M = M
    LF = LF
    PM = PM
    Top = Top
    NoDecl = "none"
    DeclContexts <- MCDeclContexts
    Parent <- MCParent
    CtxKind <- MCCtxKind
    SelfClass <- MCSelfClass
    Actors <- MCActors
    DeclInfo <- MCDeclInfo
    Inputs <- MCUnboundInputs

SPECIFICATION Spec
CHECK_DEADLOCK FALSE

INVARIANT NoUnreachable
