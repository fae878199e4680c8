---------------------------- MODULE FunctionBuilders ----------------------------
(***************************************************************************)
(* AttachedFunctionBuilderRequest, inferFunctionBuilderType and           *)
(* FunctionBuilderTypeRequest (TypeCheckRequestFunctions.cpp): which      *)
(* function builder type a declaration has, written as a custom attribute *)
(* or inferred from the protocol requirements it witnesses and the        *)
(* declaration it dynamically replaces.                                   *)
(*                                                                         *)
(* A builder type is [name, arg]: arg is "T" for a builder generic over   *)
(* the conformance's associated type (an interface type), "archetypeT"   *)
(* for the same mapped into context, the type substituted for it, or     *)
(* "none".  A world w has w.reqs, the protocol requirements in the order *)
(* the conformances are looked up, and w.info[d] for each declaration:    *)
(*   kind      "func", "getter", "setter", "param" or "var"              *)
(*   ctx       "type", "protocol" or "local" (its DeclContext)           *)
(*   body      "none" (no body, or not in a source file), "return" (a    *)
(*             return statement), "plain"                                 *)
(*   storage   for an accessor, the storage declaration                  *)
(*   attrs     its custom attributes in order, each [resolves (to a      *)
(*             nominal), isBuilder (that nominal has @functionBuilder),  *)
(*             typeOK (CustomAttrTypeRequest gives a type without        *)
(*             errors), type]                                             *)
(*   witnesses the requirements it is the witness of, each mapped to the *)
(*             type its conformance substitutes for the builder's "T"    *)
(*   replaces  the declaration it dynamically replaces, or NoDecl        *)
(*   paramFn, autoclosure   for a parameter: of function type,          *)
(*             @autoclosure                                               *)
(* A request is answered with [type, diag]; the evaluator answers a      *)
(* request met again while it is evaluated (a cycle) with NoType.         *)
(***************************************************************************)
EXTENDS Naturals, Sequences

CONSTANTS NoType, NoDecl

Answer(t, diag) == [type |-> t, diag |-> diag]

FirstOf(S) == CHOOSE i \in S : \A j \in S : i <= j

(* AttachedFunctionBuilderRequest: the index of the first custom         *)
(* attribute naming a function builder type, skipping unresolvable ones, *)
(* 0 if none.                                                              *)
AttachedFunctionBuilder(d, w) ==
    LET as == w.info[d].attrs
        builders == {i \in DOMAIN as : as[i].resolves /\ as[i].isBuilder}
    IN IF builders = {} THEN 0 ELSE FirstOf(builders)

(* Type::subst with the conformance's substitutions.                      *)
Subst(t, sub) == IF t.arg = "T" THEN [t EXCEPT !.arg = sub] ELSE t

RECURSIVE FunctionBuilderTypeRequest(_, _, _)

(* The builder type of d as getFunctionBuilderType asks it.               *)
BuilderOf(d, w, active) ==
    IF d \in active THEN NoType
    ELSE FunctionBuilderTypeRequest(d, w, active \cup {d}).type

(* addConformanceMatches: for each requirement, in lookup order, with a  *)
(* builder type and of which l is the witness, that type substituted.    *)
ConformanceMatches(l, w, active) ==
    LET rs == SelectSeq(w.reqs, LAMBDA r : r \in DOMAIN w.info[l].witnesses
                                            /\ BuilderOf(r, w, active) # NoType)
    IN [i \in DOMAIN rs |-> Subst(BuilderOf(rs[i], w, active), w.info[l].witnesses[rs[i]])]

(* The declaration whose witnesses and replacement are looked at: a     *)
(* getter's storage, otherwise d.                                          *)
LookupDecl(d, w) == IF w.info[d].kind = "getter" THEN w.info[d].storage ELSE d

(* The matches: the conformance matches of the lookup declaration, then, *)
(* through a dynamic replacement, the replaced declaration's builder type *)
(* or, if it has none, its conformance matches.                           *)
Matches(d, w, active) ==
    LET l == LookupDecl(d, w)
        r == w.info[l].replaces
    IN ConformanceMatches(l, w, active)
       \o (IF r = NoDecl THEN <<>>
           ELSE IF BuilderOf(r, w, active) # NoType THEN <<BuilderOf(r, w, active)>>
           ELSE ConformanceMatches(r, w, active))

(* Variant: the last match is not compared with the first.                *)
InferFromMatchesSkippingLast(ms) ==
    IF ms = <<>> THEN Answer(NoType, "none")
    ELSE IF \E i \in 1..(Len(ms) - 1) : ms[i] # ms[1]
    THEN Answer(NoType, "function_builder_infer_ambig")
    ELSE Answer(ms[1], "none")

(* The end of inferFunctionBuilderType: no match infers nothing; a match *)
(* of another type than the first is diagnosed as ambiguous.              *)
InferFromMatches(ms) ==
    IF ms = <<>> THEN Answer(NoType, "none")
    ELSE IF \E i \in DOMAIN ms : ms[i] # ms[1]
    THEN Answer(NoType, "function_builder_infer_ambig")
    ELSE Answer(ms[1], "none")

(* Whether inferFunctionBuilderType looks for matches at all: a function *)
(* with a body in a source file, in a type that is not a protocol,       *)
(* without return statements, and not an accessor other than a getter.    *)
InferenceEligible(d, w) ==
    LET i == w.info[d] IN
    /\ i.ctx = "type"
    /\ i.kind \in {"func", "getter", "setter"}
    /\ i.body = "plain"
    /\ i.kind # "setter"

InferFunctionBuilderType(d, w, active) ==
    IF InferenceEligible(d, w) THEN InferFromMatches(Matches(d, w, active))
    ELSE Answer(NoType, "none")

(* TypeBase::mapTypeOutOfContext: archetypes back to generic parameters. *)
MapTypeOutOfContext(t) == IF t.arg = "archetypeT" THEN [t EXCEPT !.arg = "T"] ELSE t

(* FunctionBuilderTypeRequest::evaluate: without an attached builder the *)
(* type is inferred; otherwise it is the attribute's type, if that       *)
(* resolves, and for a parameter only if it is of function type and not *)
(* @autoclosure (the attribute is then invalid).                          *)
FunctionBuilderTypeRequest(d, w, active) ==
    LET i == w.info[d]
        a == AttachedFunctionBuilder(d, w)
    IN
    IF a = 0 THEN InferFunctionBuilderType(d, w, active)
    ELSE IF ~i.attrs[a].typeOK THEN Answer(NoType, "none")
    ELSE IF i.kind = "param" /\ ~i.paramFn
    THEN Answer(NoType, "function_builder_parameter_not_of_function_type")
    ELSE IF i.kind = "param" /\ i.autoclosure
    THEN Answer(NoType, "function_builder_parameter_autoclosure")
    ELSE Answer(MapTypeOutOfContext(i.attrs[a].type), "none")

FunctionBuilderType(d, w) == FunctionBuilderTypeRequest(d, w, {d})
=============================================================================
