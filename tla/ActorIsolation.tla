----------------------------- MODULE ActorIsolation -----------------------------
(***************************************************************************)
(* checkActorIsolation (TypeCheckConcurrency.cpp): ActorIsolationWalker   *)
(* walks an expression pre- and post-order, keeps a stack of the          *)
(* declaration contexts it is in (dc, then every closure it has entered), *)
(* and checks every declaration and member reference against             *)
(* IsolationRestriction::forDeclaration.                                 *)
(*                                                                         *)
(* The walk is the sequence work of pending visits [path, phase]: "pre"  *)
(* is walkToExprPre, "post" walkToExprPost.  ASTWalker visits a node's   *)
(* children between the two unless walkToExprPre answers false, in which *)
(* case neither the children nor walkToExprPost are visited.             *)
(***************************************************************************)
EXTENDS ActorAST

VARIABLES
    work,           \* the visits still to make, the next one last
    contextStack,   \* ActorIsolationWalker::contextStack
    diags,          \* the diagnostics emitted, in order
    crashed,        \* an llvm_unreachable was reached
    postAssertOK    \* walkToExprPost's assert(contextStack.back() == closure)

vars == <<expr, dc, work, contextStack, diags, crashed, postAssertOK>>

Pre(p) == [path |-> p, phase |-> "pre"]
Post(p) == [path |-> p, phase |-> "post"]

(* Variant: the children counted from zero.                               *)
KidsPreFromZero(p) ==
    LET k == Len(Node(p).kids) IN [i \in 1..k |-> Pre(Child(p, k - i))]

(* The children of p, to be visited first to last.                        *)
KidsPre(p) ==
    LET k == Len(Node(p).kids) IN [i \in 1..k |-> Pre(Child(p, k - i + 1))]

CurrentContext == Last(contextStack)

-----------------------------------------------------------------------------
(* getActorIsolatingMember: an instance member of an actor class that is *)
(* not an asynchronous function.                                          *)
GetActorIsolatingMember(d) ==
    IF /\ DeclInfo[d].instance
       /\ SelfClass[DeclInfo[d].ctx] \in Actors
       /\ ~(DeclInfo[d].kind \in {"func", "accessor"} /\ DeclInfo[d].async)
    THEN SelfClass[DeclInfo[d].ctx] ELSE NoClass

(* IsolationRestriction::forDeclaration.                                   *)
ForDeclaration(d) ==
    LET i == DeclInfo[d] IN
    CASE i.kind \in {"type", "ctor", "nonvalue", "dtor"} ->
              [kind |-> "Unrestricted"]
      [] i.kind \in {"param", "var"} /\ i.isLet ->
              [kind |-> "Unrestricted"]
      [] IsLocalContext(i.ctx) ->
              [kind |-> "LocalCapture", ctx |-> i.ctx]
      [] GetActorIsolatingMember(d) # NoClass ->
              [kind |-> "ActorSelf", actor |-> GetActorIsolatingMember(d)]
      [] OTHER -> [kind |-> "Unsafe"]

(* Variant: local functions are not taken to run concurrently.            *)
RECURSIVE MayExecuteConcurrentlyIgnoringLocalFuncs(_, _)
MayExecuteConcurrentlyIgnoringLocalFuncs(use, def) ==
    IF use = def THEN FALSE
    ELSE IF IsClosure(use) /\ Node(use).escaping THEN TRUE
    ELSE IF IsModuleScope(ParentOf(use)) THEN FALSE
    ELSE MayExecuteConcurrentlyIgnoringLocalFuncs(ParentOf(use), def)

(* mayExecuteConcurrentlyWith: walk from the use context towards the      *)
(* definition context; an escaping closure or a local function on the way *)
(* may run concurrently; reaching the module scope means it does not.    *)
RECURSIVE MayExecuteConcurrentlyWith(_, _)
MayExecuteConcurrentlyWith(use, def) ==
    IF use = def THEN FALSE
    ELSE IF IsClosure(use) /\ Node(use).escaping THEN TRUE
    ELSE IF use \in DeclContexts /\ CtxKind[use] = "localFunc" THEN TRUE
    ELSE IF IsModuleScope(ParentOf(use)) THEN FALSE
    ELSE MayExecuteConcurrentlyWith(ParentOf(use), def)

(* getNearestEnclosingActorContext.                                        *)
RECURSIVE GetNearestEnclosingActorContext(_)
GetNearestEnclosingActorContext(c) ==
    IF IsModuleScope(c) THEN NoClass
    ELSE IF c \in DeclContexts /\ CtxKind[c] \in {"class", "extension"}
            /\ SelfClass[c] \in Actors
    THEN SelfClass[c]
    ELSE GetNearestEnclosingActorContext(ParentOf(c))

(* getSelfReference: look through implicit conversions; 'super' acts on  *)
(* self; a reference to a self parameter is one.                          *)
RECURSIVE GetSelfReference(_)
GetSelfReference(p) ==
    CASE Node(p).kind = "conv"  -> GetSelfReference(Child(p, 1))
      [] Node(p).kind = "super" -> Node(p).decl
      [] Node(p).kind = "declref" /\ DeclInfo[Node(p).decl].isSelf -> Node(p).decl
      [] OTHER -> NoDecl

-----------------------------------------------------------------------------
(* What a check does: the diagnostics it emits, or an llvm_unreachable.   *)
Diag(p, what) == [at |-> p, what |-> what]
Emits(ds) == [diags |-> ds, crash |-> FALSE]
Unreachable == [diags |-> <<>>, crash |-> TRUE]

(* diagnoseReferenceToUnsafe.                                              *)
DiagnoseReferenceToUnsafe(d, p) ==
    IF GetNearestEnclosingActorContext(CurrentContext) = NoClass THEN Emits(<<>>)
    ELSE IF ~(DeclInfo[d].kind \in {"var", "param"} /\ DeclInfo[d].storage)
    THEN Emits(<<>>)
    ELSE Emits(<<Diag(p, "shared_mutable_state_access")>>)

(* checkNonMemberReference.                                                *)
CheckNonMemberReference(d, p) ==
    LET iso == ForDeclaration(d) IN
    CASE iso.kind = "Unrestricted" -> Emits(<<>>)
      [] iso.kind = "ActorSelf" -> Unreachable
      [] iso.kind = "LocalCapture" ->
            IF GetNearestEnclosingActorContext(CurrentContext) = NoClass
            THEN Emits(<<>>)
            ELSE IF MayExecuteConcurrentlyWith(CurrentContext, iso.ctx)
            THEN Emits(<<Diag(p, "concurrent_access_local")>>)
            ELSE Emits(<<>>)
      [] iso.kind = "Unsafe" -> DiagnoseReferenceToUnsafe(d, p)

(* checkMemberReference with the base expression at path base.           *)
CheckMemberReference(base, m, p) ==
    LET iso == ForDeclaration(m) IN
    CASE iso.kind = "Unrestricted" -> Emits(<<>>)
      [] iso.kind = "ActorSelf" ->
            IF GetSelfReference(base) = NoDecl
            THEN Emits(<<Diag(p, "actor_isolated_non_self_reference")>>)
            ELSE IF MayExecuteConcurrentlyWith(
                        CurrentContext, DeclInfo[GetSelfReference(base)].ctx)
            THEN Emits(<<Diag(p, "actor_isolated_concurrent_access")>>)
            ELSE Emits(<<>>)
      [] iso.kind = "LocalCapture" -> Unreachable
      [] iso.kind = "Unsafe" -> DiagnoseReferenceToUnsafe(m, p)

-----------------------------------------------------------------------------
CONSTANTS
    Pending,        \* no report yet
    Inputs          \* the <<expression, context>> pairs checked

(* checkActorIsolation: the walker starts with dc on its context stack.  *)
Init ==
    /\ \E in \in Inputs : expr = in[1] /\ dc = in[2]
    /\ work = <<Pre(<<>>)>>
    /\ contextStack = <<dc>>
    /\ diags = <<>>
    /\ crashed = FALSE
    /\ postAssertOK = TRUE

Visiting(phase) == work # <<>> /\ Last(work).phase = phase
At0 == Last(work).path

(* Continue after walkToExprPre answered true: walkToExprPost of the node *)
(* once its children are walked.                                          *)
Descend(p) == Front(work) \o <<Post(p)>> \o KidsPre(p)

(* Record a check's outcome; an llvm_unreachable ends the walk.           *)
Record(o, next) ==
    /\ diags' = diags \o o.diags
    /\ crashed' = o.crash
    /\ work' = IF o.crash THEN <<>> ELSE next

(* walkToExprPre on a closure: it becomes the current context.            *)
PreClosure ==
    /\ Visiting("pre") /\ Node(At0).kind = "closure"
    /\ contextStack' = Append(contextStack, At0)
    /\ work' = Descend(At0)
    /\ UNCHANGED <<expr, dc, diags, crashed, postAssertOK>>

(* walkToExprPre on a LookupExpr: check the member against its base.      *)
PreLookup ==
    /\ Visiting("pre") /\ Node(At0).kind = "lookup"
    /\ Record(CheckMemberReference(Child(At0, 1), Node(At0).decl, At0), Descend(At0))
    /\ UNCHANGED <<expr, dc, contextStack, postAssertOK>>

(* walkToExprPre on a DeclRefExpr.                                         *)
PreDeclRef ==
    /\ Visiting("pre") /\ Node(At0).kind = "declref"
    /\ Record(CheckNonMemberReference(Node(At0).decl, At0), Descend(At0))
    /\ UNCHANGED <<expr, dc, contextStack, postAssertOK>>

(* walkToExprPre on a SelfApplyExpr whose function is a DeclRefExpr or an *)
(* OtherConstructorDeclRefExpr: check the member against the argument,   *)
(* walk the argument, and answer false (the function is not walked).      *)
PreSelfApply ==
    /\ Visiting("pre") /\ Node(At0).kind = "selfapply"
    /\ Node(Child(At0, 1)).kind \in {"declref", "otherctor"}
    /\ Record(CheckMemberReference(Child(At0, 2), Node(Child(At0, 1)).decl, At0),
              Front(work) \o <<Pre(Child(At0, 2))>>)
    /\ UNCHANGED <<expr, dc, contextStack, postAssertOK>>

(* walkToExprPre on anything else answers true.                            *)
PreOther ==
    /\ Visiting("pre")
    /\ Node(At0).kind \notin {"closure", "lookup", "declref"}
    /\ ~(Node(At0).kind = "selfapply"
         /\ Node(Child(At0, 1)).kind \in {"declref", "otherctor"})
    /\ work' = Descend(At0)
    /\ UNCHANGED <<expr, dc, contextStack, diags, crashed, postAssertOK>>

(* Variant: the closure is not popped.                                    *)
PostClosureKeepingContext ==
    /\ Visiting("post") /\ Node(At0).kind = "closure"
    /\ postAssertOK' = (postAssertOK /\ Last(contextStack) = At0)
    /\ work' = Front(work)
    /\ UNCHANGED <<expr, dc, contextStack, diags, crashed>>

(* walkToExprPost on a closure: it must be the current context; pop it.  *)
PostClosure ==
    /\ Visiting("post") /\ Node(At0).kind = "closure"
    /\ postAssertOK' = (postAssertOK /\ Last(contextStack) = At0)
    /\ contextStack' = Front(contextStack)
    /\ work' = Front(work)
    /\ UNCHANGED <<expr, dc, diags, crashed>>

PostOther ==
    /\ Visiting("post") /\ Node(At0).kind # "closure"
    /\ work' = Front(work)
    /\ UNCHANGED <<expr, dc, contextStack, diags, crashed, postAssertOK>>

Next ==
    \/ PreClosure
    \/ PreLookup
    \/ PreDeclRef
    \/ PreSelfApply
    \/ PreOther
    \/ PostClosure
    \/ PostOther

(* The walk is an ordinary sequential recursion.                           *)
Spec == Init /\ [][Next]_vars /\ WF_vars(Next)
-----------------------------------------------------------------------------
(***************************************************************************)
(* Properties.                                                             *)
(***************************************************************************)
Visit == [path : Paths, phase : {"pre", "post"}]

TypeOK ==
    /\ \A i \in DOMAIN work : work[i] \in Visit
    /\ Len(contextStack) >= 1
    /\ \A i \in DOMAIN diags : diags[i].at \in Paths
    /\ crashed \in BOOLEAN
    /\ postAssertOK \in BOOLEAN

(* The context stack follows the tree: while a node is visited it holds  *)
(* dc and exactly the closures above the node (and the closure itself in *)
(* its walkToExprPost, where the code asserts it is on top); when the    *)
(* walk returns only dc is left.  This rests on every closure's          *)
(* walkToExprPre being matched by its walkToExprPost, also inside the    *)
(* argument a SelfApplyExpr walks by hand.                                *)
ExpectedContexts(v) ==
    <<dc>> \o ClosuresAbove(v.path)
           \o (IF v.phase = "post" /\ Node(v.path).kind = "closure"
               THEN <<v.path>> ELSE <<>>)

ContextStackMirrorsTree ==
    /\ postAssertOK
    /\ work # <<>> => contextStack = ExpectedContexts(Last(work))
    /\ work = <<>> /\ ~crashed => contextStack = <<dc>>

(* checkNonMemberReference and checkMemberReference never reach their    *)
(* llvm_unreachable ("non-member reference into an actor", "Locals       *)
(* cannot be referenced with member syntax").                            *)
NoUnreachable == ~crashed

(* The walk reports exactly the isolation violations ActorIsolationSpec  *)
(* describes, each once, and returns: the diagnostics, counted, are its  *)
(* Required set once the work is done.                                    *)
DiagnosticBag ==
    [x \in Range(diags) |-> Cardinality({i \in DOMAIN diags : diags[i] = x})]

Abstract == INSTANCE ActorIsolationSpec
    WITH expr <- expr, dc <- dc,
         reported <- IF work = <<>> /\ ~crashed THEN DiagnosticBag ELSE Pending

Isolation == Abstract!Spec
=============================================================================
