------------------------------- MODULE ActorAST -------------------------------
(***************************************************************************)
(* The part of the AST that checkActorIsolation (TypeCheckConcurrency.cpp)*)
(* looks at: the declaration contexts and declarations of a program, and  *)
(* one type-checked expression walked in a declaration context dc.        *)
(*                                                                         *)
(* An expression is a tree of records [kind, decl, escaping, kids]:       *)
(*   "closure"    AbstractClosureExpr (escaping: its function type is    *)
(*                escaping), kids = <<body>>                              *)
(*   "lookup"     LookupExpr (member and subscript references): decl is  *)
(*                the member, kids = <<base>>                             *)
(*   "declref"    DeclRefExpr to decl                                     *)
(*   "selfapply"  SelfApplyExpr, kids = <<fn, arg>>                       *)
(*   "otherctor"  OtherConstructorDeclRefExpr to decl                     *)
(*   "conv"       an implicit conversion of kids[1]                       *)
(*   "super"      SuperRefExpr; decl is the 'self' it acts on             *)
(*   "other"      any other expression (calls, tuples, type expressions) *)
(* A node is named by its path from the root; a closure is also a        *)
(* declaration context, named by its path.                                *)
(***************************************************************************)
EXTENDS Naturals, SequencesExt

CONSTANTS
    DeclContexts,   \* the declaration contexts of the program
    Parent,         \* DeclContext::getParent (a module is its own parent)
    CtxKind,        \* "module", "class", "extension", "func", "localFunc"
    SelfClass,      \* DeclContext::getSelfClassDecl, NoClass if none
    Actors,         \* the classes for which ClassDecl::isActor holds
    NoClass,
    DeclInfo,       \* decl -> [kind, ctx, isLet, instance, storage, async, isSelf]
    NoDecl

VARIABLES
    expr,           \* the expression being checked
    dc              \* the context checkActorIsolation is called with

Decls == DOMAIN DeclInfo

RECURSIVE At(_, _)
At(t, p) == IF p = <<>> THEN t ELSE At(t.kids[Head(p)], Tail(p))

Node(p) == At(expr, p)
Child(p, i) == Append(p, i)

RECURSIVE PathsFrom(_, _)
PathsFrom(t, p) ==
    {p} \cup UNION {PathsFrom(t.kids[i], Append(p, i)) : i \in DOMAIN t.kids}

Paths == PathsFrom(expr, <<>>)

IsClosure(c) == c \notin DeclContexts /\ Node(c).kind = "closure"

(* The closures strictly above the node at p, outermost first.             *)
ClosuresAbove(p) ==
    SelectSeq([i \in 1..Len(p) |-> SubSeq(p, 1, i - 1)],
              LAMBDA q : Node(q).kind = "closure")

(* The parent context of a context: a closure's is the nearest enclosing *)
(* closure or else dc.                                                    *)
ParentOf(c) ==
    IF c \in DeclContexts THEN Parent[c]
    ELSE LET above == ClosuresAbove(c)
         IN IF above = <<>> THEN dc ELSE Last(above)

IsModuleScope(c) == c \in DeclContexts /\ CtxKind[c] = "module"

(* A context that is a function body or a closure.                         *)
IsLocalContext(c) == ~(c \in DeclContexts) \/ CtxKind[c] \in {"func", "localFunc"}

(* The contexts from c up to, not including, the module scope.            *)
RECURSIVE ChainFrom(_)
ChainFrom(c) == IF IsModuleScope(c) THEN {} ELSE {c} \cup ChainFrom(ParentOf(c))
=============================================================================
