---------------------------- MODULE MC_ActorIsolation ----------------------------
(***************************************************************************)
(* The program of the concurrency test (part_001), reduced to the         *)
(* declarations its cases tell apart:                                     *)
(*                                                                         *)
(*   actor class SuperActor { var superState }                            *)
(*   actor class MyActor: SuperActor { let immutable; var text;           *)
(*       var computed { get }; func sync(); func asyncF() async;          *)
(*       static func staticF() }                                          *)
(*   extension MyActor { func m() { var localVar; let localConst;         *)
(*       func lf() {} } }                                                 *)
(*   class Plain { var plainVar; func pm() }                              *)
(*   var mutableGlobal; let immutableGlobal; func globalFunc();           *)
(*   let otherA: MyActor; let otherP: Plain; func top()                   *)
(*                                                                         *)
(* The expressions checked are every reference a body of m, lf, pm or   *)
(* top can make to these declarations (on self, through an implicit      *)
(* conversion of self, on super, on another instance, through a type),   *)
(* under zero, one or two closures, escaping or not, and pairs of such   *)
(* references where the first is inside a closure and the second after   *)
(* it.                                                                     *)
(***************************************************************************)
EXTENDS ActorIsolation

CONSTANTS Module, SuperActor, MyActor, ActorExt, Plain, M, LF, PM, Top

MCDeclContexts ==
    {Module, SuperActor, MyActor, ActorExt, Plain, M, LF, PM, Top}

MCParent ==
    [c \in MCDeclContexts |->
        CASE c = M -> ActorExt
          [] c = LF -> M
          [] c = PM -> Plain
          [] OTHER -> Module]

MCCtxKind ==
    [c \in MCDeclContexts |->
        CASE c = Module -> "module"
          [] c \in {SuperActor, MyActor, Plain} -> "class"
          [] c = ActorExt -> "extension"
          [] c = LF -> "localFunc"
          [] OTHER -> "func"]

MCSelfClass ==
    [c \in MCDeclContexts |->
        CASE c \in {SuperActor, MyActor, Plain} -> c
          [] c = ActorExt -> MyActor
          [] OTHER -> NoClass]

MCActors == {SuperActor, MyActor}

D(kind, ctx, isLet, instance, storage, async, isSelf) ==
    [kind |-> kind, ctx |-> ctx, isLet |-> isLet, instance |-> instance,
     storage |-> storage, async |-> async, isSelf |-> isSelf]

MCDeclInfo ==
    [selfM |-> D("param", M, TRUE, FALSE, FALSE, FALSE, TRUE),
     selfP |-> D("param", PM, TRUE, FALSE, FALSE, FALSE, TRUE),
     superState |-> D("var", SuperActor, FALSE, TRUE, TRUE, FALSE, FALSE),
     immutable |-> D("var", MyActor, TRUE, TRUE, TRUE, FALSE, FALSE),
     text |-> D("var", MyActor, FALSE, TRUE, TRUE, FALSE, FALSE),
     computed |-> D("var", MyActor, FALSE, TRUE, FALSE, FALSE, FALSE),
     sync |-> D("func", MyActor, FALSE, TRUE, FALSE, FALSE, FALSE),
     asyncF |-> D("func", MyActor, FALSE, TRUE, FALSE, TRUE, FALSE),
     staticF |-> D("func", MyActor, FALSE, FALSE, FALSE, FALSE, FALSE),
     plainVar |-> D("var", Plain, FALSE, TRUE, TRUE, FALSE, FALSE),
     mutableGlobal |-> D("var", Module, FALSE, FALSE, TRUE, FALSE, FALSE),
     immutableGlobal |-> D("var", Module, TRUE, FALSE, TRUE, FALSE, FALSE),
     globalFunc |-> D("func", Module, FALSE, FALSE, FALSE, FALSE, FALSE),
     otherA |-> D("var", Module, TRUE, FALSE, TRUE, FALSE, FALSE),
     otherP |-> D("var", Module, TRUE, FALSE, TRUE, FALSE, FALSE),
     localVar |-> D("var", M, FALSE, FALSE, TRUE, FALSE, FALSE),
     localConst |-> D("var", M, TRUE, FALSE, TRUE, FALSE, FALSE),
     lfDecl |-> D("func", M, FALSE, FALSE, FALSE, FALSE, FALSE)]

-----------------------------------------------------------------------------
E(kind, d, esc, kids) == [kind |-> kind, decl |-> d, escaping |-> esc, kids |-> kids]
Ref(d) == E("declref", d, FALSE, <<>>)
TypeRef == E("other", "none", FALSE, <<>>)
SuperRef(s) == E("super", s, FALSE, <<>>)
Conv(x) == E("conv", "none", FALSE, <<x>>)
Lookup(mem, base) == E("lookup", mem, FALSE, <<base>>)
Call(mem, base) == E("selfapply", "none", FALSE, <<Ref(mem), base>>)
Closure(esc, body) == E("closure", "none", esc, <<body>>)
Both(x, y) == E("other", "none", FALSE, <<x, y>>)
\* MyActor.sync written without a call: DotSyntaxBaseIgnoredExpr(type, sync)
Unbound(mem) == E("other", "none", FALSE, <<TypeRef, Ref(mem)>>)

SelfParam(c) == CASE c \in {M, LF} -> "selfM" [] c = PM -> "selfP" [] OTHER -> "none"
ClassOf(s) == IF s = "selfM" THEN MyActor ELSE Plain
SubclassOf(k) == IF k = SuperActor THEN {SuperActor, MyActor} ELSE {k}

(* The base expressions a member of class k can be referenced on in c.   *)
Bases(c, k) ==
    LET s == SelfParam(c) IN
    (IF s # "none" /\ ClassOf(s) \in SubclassOf(k)
     THEN {Ref(s), Conv(Ref(s))} ELSE {})
    \cup (IF s = "selfM" /\ k = SuperActor THEN {SuperRef(s)} ELSE {})
    \cup (IF k = Plain THEN {Ref("otherP")} ELSE {Ref("otherA")})

VarMembers == {"superState", "immutable", "text", "computed", "plainVar"}
FuncMembers == {"sync", "asyncF"}

References(c) ==
    {Ref(d) : d \in {"mutableGlobal", "immutableGlobal", "globalFunc", "otherA"}}
    \cup (IF c \in {M, LF} THEN {Ref(d) : d \in {"localVar", "localConst", "lfDecl"}}
          ELSE {})
    \cup UNION {{Lookup(v, b) : b \in Bases(c, DeclInfo[v].ctx)} : v \in VarMembers}
    \cup UNION {{Call(f, b) : b \in Bases(c, MyActor)} : f \in FuncMembers}
    \cup {Call("staticF", TypeRef)}

Wrapped(x) ==
    {x} \cup {Closure(e, x) : e \in BOOLEAN}
    \cup {Closure(e1, Closure(e2, x)) : e1, e2 \in BOOLEAN}

(* References whose diagnosis depends on the context they are made in.    *)
ContextRefs(c) ==
    {r \in References(c) :
        r \in {Lookup("text", Ref("selfM")), Ref("localVar"), Ref("mutableGlobal"),
               Call("sync", Ref("otherA"))}}

MCContexts == {M, LF, PM, Top}

ExprsIn(c) ==
    UNION {Wrapped(r) : r \in References(c)}
    \cup {Both(Closure(e, r1), r2) : e \in BOOLEAN, r1, r2 \in ContextRefs(c)}

MCInputs == UNION {{<<x, c>> : x \in ExprsIn(c)} : c \in MCContexts}

(* References to an instance method through the type, not called.       *)
MCUnboundInputs ==
    {<<x, c>> : x \in UNION {Wrapped(Unbound(f)) : f \in FuncMembers}, c \in MCContexts}
=============================================================================
