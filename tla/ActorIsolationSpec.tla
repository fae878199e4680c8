--------------------------- MODULE ActorIsolationSpec ---------------------------
(***************************************************************************)
(* The actor isolation rules the concurrency test (part_001, "Actor state  *)
(* isolation restrictions") states, over the whole expression at once:    *)
(* each reference that breaks one is diagnosed once, and nothing else is. *)
(*   - an actor-isolated member (mutable instance state, a synchronous    *)
(*     method or subscript of an actor) is only referenced on 'self' or   *)
(*     'super', and not from code that may run concurrently with that    *)
(*     self's method (an escaping closure or a local function between);   *)
(*   - inside actor code, a reference to mutable stored state that is    *)
(*     neither local nor actor-isolated is flagged as shared mutable      *)
(*     state, and a mutable local declaration is flagged when referenced *)
(*     from code that may run concurrently with the code declaring it.   *)
(* reported is the bag of diagnostics, Pending until the check returns.  *)
(***************************************************************************)
EXTENDS ActorAST, Bags

CONSTANT Pending

VARIABLE reported

Diagnostic(p, what) == [at |-> p, what |-> what]

UseContext(p) ==
    IF ClosuresAbove(p) = <<>> THEN dc ELSE Last(ClosuresAbove(p))

IsIsolatedMember(d) ==
    /\ DeclInfo[d].instance
    /\ SelfClass[DeclInfo[d].ctx] \in Actors
    /\ ~DeclInfo[d].isLet
    /\ DeclInfo[d].kind \in {"var", "func", "accessor", "subscript"}
    /\ ~(DeclInfo[d].kind \in {"func", "accessor"} /\ DeclInfo[d].async)

IsLocalMutable(d) ==
    /\ IsLocalContext(DeclInfo[d].ctx)
    /\ ~DeclInfo[d].isLet
    /\ DeclInfo[d].kind \in {"var", "param", "func", "accessor", "subscript"}

IsSharedMutable(d) ==
    /\ DeclInfo[d].kind \in {"var", "param"} /\ ~DeclInfo[d].isLet
    /\ DeclInfo[d].storage
    /\ ~IsLocalContext(DeclInfo[d].ctx)
    /\ ~IsIsolatedMember(d)

MayRunConcurrently(use, def) ==
    \E c \in ChainFrom(use) \ ChainFrom(def) :
        \/ IsClosure(c) /\ Node(c).escaping
        \/ c \in DeclContexts /\ CtxKind[c] = "localFunc"

InActorCode(use) ==
    \E c \in ChainFrom(use) :
        c \in DeclContexts /\ CtxKind[c] \in {"class", "extension"}
        /\ SelfClass[c] \in Actors

(* The self a base expression denotes, through implicit conversions.      *)
RECURSIVE SelfOf(_)
SelfOf(p) ==
    IF Node(p).kind = "conv" THEN SelfOf(Child(p, 1))
    ELSE IF Node(p).kind = "super"
            \/ (Node(p).kind = "declref" /\ DeclInfo[Node(p).decl].isSelf)
    THEN {Node(p).decl} ELSE {}

(* The function of a method call, which names the member called.          *)
IsCalledMember(p) ==
    /\ p # <<>>
    /\ Last(p) = 1
    /\ Node(Front(p)).kind = "selfapply"
    /\ Node(p).kind \in {"declref", "otherctor"}

(* Member references [at, member, base] and plain references [at, decl]. *)
MemberRefs ==
    {[at |-> p, member |-> Node(p).decl, base |-> Child(p, 1)] :
        p \in {p \in Paths : Node(p).kind = "lookup"}}
    \cup {[at |-> p, member |-> Node(Child(p, 1)).decl, base |-> Child(p, 2)] :
            p \in {p \in Paths : Node(p).kind = "selfapply"
                                 /\ IsCalledMember(Child(p, 1))}}
DeclRefs ==
    {p \in Paths : Node(p).kind = "declref" /\ ~IsCalledMember(p)}

Required ==
    {Diagnostic(r.at, "actor_isolated_non_self_reference") :
        r \in {r \in MemberRefs : IsIsolatedMember(r.member) /\ SelfOf(r.base) = {}}}
    \cup {Diagnostic(p, "actor_isolated_non_self_reference") :
            p \in {p \in DeclRefs : IsIsolatedMember(Node(p).decl)}}
    \cup {Diagnostic(r.at, "actor_isolated_concurrent_access") :
            r \in {r \in MemberRefs :
                     /\ IsIsolatedMember(r.member)
                     /\ \E s \in SelfOf(r.base) :
                            MayRunConcurrently(UseContext(r.at), DeclInfo[s].ctx)}}
    \cup {Diagnostic(r.at, "shared_mutable_state_access") :
            r \in {r \in MemberRefs : IsSharedMutable(r.member)
                                      /\ InActorCode(UseContext(r.at))}}
    \cup {Diagnostic(p, "shared_mutable_state_access") :
            p \in {p \in DeclRefs : IsSharedMutable(Node(p).decl)
                                    /\ InActorCode(UseContext(p))}}
    \cup {Diagnostic(p, "concurrent_access_local") :
            p \in {p \in DeclRefs :
                     /\ IsLocalMutable(Node(p).decl)
                     /\ InActorCode(UseContext(p))
                     /\ MayRunConcurrently(UseContext(p), DeclInfo[Node(p).decl].ctx)}}

Init == reported = Pending

Report ==
    /\ reported = Pending
    /\ reported' = SetToBag(Required)
    /\ UNCHANGED <<expr, dc>>

Spec == Init /\ [][Report]_<<expr, dc, reported>> /\ WF_<<expr, dc, reported>>(Report)
=============================================================================
