------------------------- MODULE MC_TypeCheckRequests -------------------------
(***************************************************************************)
(* The type checker's requests, each asked of every small world it can    *)
(* meet, and checked against a reference definition:                      *)
(*   - IsActorRequest over every superclass relation of three classes    *)
(*     (cycles included, as the evaluator may meet them in invalid code); *)
(*   - IsAsyncHandlerRequest over every program of one protocol          *)
(*     requirement R and two functions F and G that may witness R and    *)
(*     dynamically replace each other or themselves;                      *)
(*   - SuperclassTypeRequest and EnumRawTypeRequest at each resolution   *)
(*     stage, for every inheritance clause of up to two entries: each    *)
(*     entry cyclic, unresolvable, or of one of the kinds of type, generic *)
(*     or not, and, for a protocol, read from a module with a superclass *)
(*     bound of Self;                                                      *)
(*   - FunctionBuilderTypeRequest for a declaration D, in programs of two *)
(*     protocol requirements R1 and R2 (with a builder B1, a builder G    *)
(*     generic over the associated type, or none), a getter's storage S  *)
(*     and a declaration Rp that D (or S) may dynamically replace; D, S  *)
(*     and Rp may witness R1 and R2 under conformances that bind the     *)
(*     associated type to X or Y.  Separately, parameters and properties *)
(*     with up to two custom attributes.                                  *)
(* One behaviour asks one request of one world.                           *)
(***************************************************************************)
EXTENDS Naturals, Sequences, FiniteSets

CONSTANTS
    NoClass, NoFunc,        \* ConcurrencyRequests' null class and function
    NoType, NoDecl,         \* a null Type and ValueDecl
    CycleError,             \* the evaluator's answer to a cyclic request
    Pending,                \* no answer yet
    Decls                   \* the declarations SuperclassTypeRequest is asked of

CR == INSTANCE ConcurrencyRequests
IT == INSTANCE InheritedTypes
FB == INSTANCE FunctionBuilders

VARIABLES
    request,        \* [kind, w]: the request asked and the world it is asked in
    answer          \* its answers, Pending before evaluation

vars == <<request, answer>>

W == request.w
-----------------------------------------------------------------------------
(* IsActorRequest and IsAsyncHandlerRequest (TypeCheckConcurrency.cpp).     *)
Classes == {"A", "B", "C"}
Funcs == {"R", "F", "G"}

ActorWorlds ==
    [enabled : BOOLEAN, attr : SUBSET Classes, super : [Classes -> Classes \cup {NoClass}]]

Sig(v, t, a, i, m) == [voidResult |-> v, throws |-> t, async |-> a, inout |-> i, mutating |-> m]
Sigs == {Sig(TRUE, FALSE, FALSE, FALSE, FALSE), Sig(TRUE, TRUE, TRUE, FALSE, FALSE),
         Sig(TRUE, FALSE, FALSE, TRUE, TRUE), Sig(FALSE, FALSE, FALSE, FALSE, FALSE)}

RequirementInfo ==
    [explicit : BOOLEAN, sig : Sigs, inferable : {FALSE}, witnesses : {{}}, replaces : {NoFunc}]
WitnessInfo(f) ==
    [explicit : BOOLEAN, sig : Sigs, inferable : BOOLEAN, witnesses : SUBSET {"R"},
     replaces : {NoFunc, "F", "G"}]

FuncWorlds ==
    {[enabled |-> e, info |-> [R |-> r, F |-> f, G |-> g]] :
        e \in BOOLEAN, r \in RequirementInfo, f \in WitnessInfo("F"), g \in WitnessInfo("G")}
-----------------------------------------------------------------------------
(* SuperclassTypeRequest and EnumRawTypeRequest (TypeCheckRequestFunctions). *)
Ty(k, g) == [kind |-> k, generic |-> g, ctx |-> FALSE]
Types == {Ty(k, g) : k \in {"class", "struct", "existential", "classExistential"},
                     g \in BOOLEAN}

Entries == {[cyclic |-> TRUE]} \cup {[cyclic |-> FALSE, type |-> t] : t \in Types \cup {NoType}}
Clauses == {<<>>} \cup {<<e>> : e \in Entries} \cup {<<e, f>> : e, f \in Entries}

(* The superclass bounds a deserialized protocol's signature can give.   *)
Bounds == {NoType} \cup {Ty("class", g) : g \in BOOLEAN}

Decl(es, des, b) == [entries |-> es, deserialized |-> des, bound |-> b]

SourceDecls == {Decl(es, FALSE, NoType) : es \in Clauses}
DeserializedProtocols(bs) == {Decl(<<>>, TRUE, b) : b \in bs}

(* A bound that mentions no generic parameter.                            *)
Declarations == SourceDecls \cup DeserializedProtocols({b \in Bounds : b = NoType \/ ~b.generic})
AllDeclarations == SourceDecls \cup DeserializedProtocols(Bounds)
-----------------------------------------------------------------------------
(* FunctionBuilderTypeRequest (TypeCheckRequestFunctions.cpp).            *)
B(n, a) == [name |-> n, arg |-> a]
Attr(res, isB, ok, t) == [resolves |-> res, isBuilder |-> isB, typeOK |-> ok, type |-> t]
BuilderAttr(t) == Attr(TRUE, TRUE, TRUE, t)
PlainAttr == Attr(TRUE, FALSE, TRUE, B("Plain", "none"))
UnresolvedAttr == Attr(FALSE, FALSE, FALSE, B("Plain", "none"))
ErroneousAttr == Attr(TRUE, TRUE, FALSE, B("B2", "none"))

Info(kind, ctx, body, storage, attrs, wit, rep, fn, ac) ==
    [kind |-> kind, ctx |-> ctx, body |-> body, storage |-> storage, attrs |-> attrs,
     witnesses |-> wit, replaces |-> rep, paramFn |-> fn, autoclosure |-> ac]

NoWitness == [r \in {} |-> "X"]
Witnesses == UNION {[S -> {"X", "Y"}] : S \in SUBSET {"R1", "R2"}}
Requirement(attrs) == Info("func", "protocol", "none", NoDecl, attrs, NoWitness, NoDecl, FALSE, FALSE)
Blank == Info("func", "type", "plain", NoDecl, <<>>, NoWitness, NoDecl, FALSE, FALSE)

RequirementAttrs == {<<>>, <<BuilderAttr(B("B1", "none"))>>, <<BuilderAttr(B("G", "archetypeT"))>>}

(* A function of a type that witnesses and replaces.                       *)
Lookup(kind, self) ==
    {Info(kind, "type", "plain", NoDecl, <<>>, wit, rep, FALSE, FALSE) :
        wit \in Witnesses, rep \in {NoDecl, "Rp", self}}

Replaced ==
    {Info("func", "type", "plain", NoDecl, as, wit, NoDecl, FALSE, FALSE) :
        as \in {<<>>, <<BuilderAttr(B("B1", "none"))>>}, wit \in Witnesses}

(* D and S: D a function looked up itself, or a getter or setter of S.     *)
Subjects ==
    UNION {
      {[D |-> [l EXCEPT !.ctx = ctx, !.body = body, !.attrs = as], S |-> Blank] :
          l \in Lookup("func", "D"), ctx \in {"type", "protocol"}, body \in {"plain", "return"},
          as \in {<<>>, <<PlainAttr, BuilderAttr(B("B2", "none"))>>}},
      {[D |-> Info(acc, ctx, body, "S", as, NoWitness, NoDecl, FALSE, FALSE), S |-> s] :
          acc \in {"getter", "setter"}, ctx \in {"type", "protocol"}, body \in {"plain", "return"},
          as \in {<<>>, <<PlainAttr, BuilderAttr(B("B2", "none"))>>}, s \in Lookup("var", "S")}}

InferenceWorlds ==
    {[reqs |-> <<"R1", "R2">>,
      info |-> [R1 |-> Requirement(a1), R2 |-> Requirement(a2), Rp |-> rp,
                D |-> ds.D, S |-> ds.S]] :
        a1, a2 \in RequirementAttrs, rp \in Replaced, ds \in Subjects}

AttrChoices == {UnresolvedAttr, PlainAttr, ErroneousAttr,
                BuilderAttr(B("B1", "none")), BuilderAttr(B("G", "archetypeT"))}
AttrLists == {<<>>} \cup {<<a>> : a \in AttrChoices} \cup {<<a, b>> : a, b \in AttrChoices}

AttributeWorlds ==
    {[reqs |-> <<>>,
      info |-> [R1 |-> Blank, R2 |-> Blank, Rp |-> Blank, S |-> Blank,
                D |-> Info(kind, ctx, "none", NoDecl, as, NoWitness, NoDecl, fn, ac)]] :
        <<kind, ctx>> \in {<<"param", "local">>, <<"var", "type">>},
        as \in AttrLists, fn, ac \in BOOLEAN}
-----------------------------------------------------------------------------
Requests ==
    [kind : {"actor"}, w : ActorWorlds] \cup [kind : {"asyncHandler"}, w : FuncWorlds]
    \cup [kind : {"inheritedTypes"}, w : Decls]
    \cup [kind : {"functionBuilder"}, w : InferenceWorlds \cup AttributeWorlds]

Init == request \in Requests /\ answer = Pending

Ask(kind, a) == request.kind = kind /\ answer = Pending /\ answer' = a /\ UNCHANGED request

(* The type checker asks whether each class is an actor.                  *)
AskActor ==
    Ask("actor", [c \in Classes |-> [actor |-> CR!IsActor(c, W), diags |-> CR!ActorDiagnostics(c, W)]])

(* The type checker asks whether each function is an async handler.       *)
AskAsyncHandler ==
    Ask("asyncHandler", [f \in Funcs |-> CR!AsyncHandlerRequest(f, W, {f})])

(* The type checker asks both inherited-type requests at every stage.      *)
AskInheritedTypes ==
    Ask("inheritedTypes",
        [s \in IT!Stages |-> [super |-> IT!SuperclassTypeRequest(W, s),
                              raw |-> IT!EnumRawTypeRequest(W, s)]])

(* The type checker asks for D's function builder type.                    *)
AskFunctionBuilder == Ask("functionBuilder", FB!FunctionBuilderType("D", W))

Next == AskActor \/ AskAsyncHandler \/ AskInheritedTypes \/ AskFunctionBuilder

Spec == Init /\ [][Next]_vars
-----------------------------------------------------------------------------
(* Reference: a class is an actor when concurrency is enabled and the    *)
(* root of its superclass chain is written 'actor'; a class on a cycle   *)
(* is not.                                                                 *)
RECURSIVE Ancestors(_, _, _)
Ancestors(c, w, seen) ==
    IF w.super[c] = NoClass \/ w.super[c] \in seen THEN seen
    ELSE Ancestors(w.super[c], w, seen \cup {w.super[c]})

RootIsActor(c, w) ==
    \E r \in Ancestors(c, w, {c}) : w.super[r] = NoClass /\ r \in w.attr

(* IsActorRequest answers as the reference does: actor-ness is inherited *)
(* from the root class, through any depth of subclassing.                *)
ActorsInherited ==
    request.kind = "actor" /\ answer # Pending =>
        \A c \in Classes : answer[c].actor = (W.enabled /\ RootIsActor(c, W))

(* An 'actor' modifier never goes silently unheeded: a class written     *)
(* 'actor' that IsActorRequest does not make an actor (concurrency off,  *)
(* or a superclass that is not an actor) is diagnosed.                   *)
ActorModifierHeeded ==
    request.kind = "actor" /\ answer # Pending =>
        \A c \in W.attr : answer[c].actor \/ answer[c].diags # {}

(* Every function IsAsyncHandlerRequest accepts, explicit or inferred    *)
(* through a conformance or a dynamic replacement, is a well-formed      *)
(* async handler (void result, no throws, not async, no inout, not       *)
(* mutating); an invalid explicit attribute is diagnosed.                 *)
AsyncHandlersWellFormed ==
    request.kind = "asyncHandler" /\ answer # Pending =>
        \A f \in Funcs :
            /\ answer[f].result => CR!CheckAsyncHandler(W.info[f].sig) = "ok"
            /\ W.info[f].explicit /\ CR!CheckAsyncHandler(W.info[f].sig) # "ok"
                   => answer[f].diag # "ok"

(* Reference: the async handlers are the least set containing the valid  *)
(* explicit ones and every well-formed, inferable function (with         *)
(* concurrency on) that witnesses or replaces one.                       *)
Eligible(f, w) ==
    ~w.info[f].explicit /\ w.enabled /\ w.info[f].inferable
    /\ CR!CheckAsyncHandler(w.info[f].sig) = "ok"
Step(H, w) ==
    H \cup {f \in Funcs :
              Eligible(f, w)
              /\ (w.info[f].witnesses \cap H # {} \/ w.info[f].replaces \in H)}
RECURSIVE Closure(_, _)
Closure(H, w) == IF Step(H, w) = H THEN H ELSE Closure(Step(H, w), w)
Handlers(w) ==
    Closure({f \in Funcs : w.info[f].explicit /\ CR!CheckAsyncHandler(w.info[f].sig) = "ok"}, w)

(* IsAsyncHandlerRequest infers @asyncHandler exactly for the reference's *)
(* handlers, whatever cycles the replacements form.                       *)
AsyncHandlersInferred ==
    request.kind = "asyncHandler" /\ answer # Pending =>
        \A f \in Funcs : answer[f].result = (f \in Handlers(W))
-----------------------------------------------------------------------------
(* SuperclassTypeRequest answers a class type or none: never an          *)
(* existential, an error or a struct, even when the clause lists an       *)
(* existential with a class bound first.                                   *)
SuperclassIsClass ==
    request.kind = "inheritedTypes" /\ answer # Pending =>
        \A s \in IT!Stages : answer[s].super = NoType \/ answer[s].super.kind = "class"

MapOrNone(t) == IF t = NoType THEN NoType ELSE IT!MapTypeIntoContext(t)

(* The stages agree: the structural stage reads the same superclass and  *)
(* raw type as the interface stage, and the contextual stage reads them  *)
(* mapped into context (InheritedTypeRequest's comment at the contextual *)
(* stage), also when an entry's resolution is cyclic.                     *)
StagesAgree ==
    request.kind = "inheritedTypes" /\ answer # Pending =>
        /\ answer["structural"] = answer["interface"]
        /\ answer["contextual"].super = MapOrNone(answer["interface"].super)
        /\ answer["contextual"].raw = MapOrNone(answer["interface"].raw)
-----------------------------------------------------------------------------
Lookup0 == FB!LookupDecl("D", W)
Replacement == W.info[Lookup0].replaces

(* Inference never silently picks one builder over another: when D has   *)
(* no builder attribute and is inferred, every requirement its lookup    *)
(* declaration witnesses with a builder has that builder (substituted for *)
(* the conformance), and so has the declaration it dynamically replaces;  *)
(* when D gets no type although such a builder exists, the ambiguity is   *)
(* diagnosed.                                                              *)
Candidates ==
    {FB!Subst(FB!FunctionBuilderType(r, W).type, W.info[Lookup0].witnesses[r]) :
        r \in {r \in DOMAIN W.info[Lookup0].witnesses : FB!FunctionBuilderType(r, W).type # NoType}}
    \cup (IF Replacement \in {NoDecl, "D", "S"} \/ FB!FunctionBuilderType(Replacement, W).type = NoType
          THEN {} ELSE {FB!FunctionBuilderType(Replacement, W).type})

InferenceUnambiguous ==
    request.kind = "functionBuilder" /\ answer # Pending /\ FB!AttachedFunctionBuilder("D", W) = 0 /\ FB!InferenceEligible("D", W) =>
        /\ answer.type # NoType => Candidates \subseteq {answer.type}
        /\ answer.type = NoType /\ Candidates # {} => answer.diag = "function_builder_infer_ambig"

=============================================================================
