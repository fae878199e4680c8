----------------------------- MODULE InheritedTypes -----------------------------
(***************************************************************************)
(* InheritedTypeRequest, SuperclassTypeRequest and EnumRawTypeRequest     *)
(* (TypeCheckRequestFunctions.cpp): the types of a declaration's          *)
(* inheritance clause, and the superclass or raw type read off it.        *)
(*                                                                         *)
(* A type is [kind, generic, ctx]: kind is what the requests test         *)
(* ("class", "struct", "existential", "classExistential" for an           *)
(* existential whose layout has an explicit class superclass, "error"),   *)
(* generic whether it mentions generic parameters, ctx whether those     *)
(* have been mapped into context (archetypes).                            *)
(*                                                                         *)
(* A declaration d is [entries, deserialized, bound]: entries the        *)
(* inheritance clause in order, each [cyclic] (its resolution depends on *)
(* the request itself, which the evaluator reports as a                  *)
(* CyclicalRequestError) or [type] (what resolving its TypeRepr gives,   *)
(* or the TypeLoc's type when it has none; NoType when there is none);   *)
(* deserialized and bound describe a protocol read from a module  *)
(* and the superclass bound of Self in its generic signature.            *)
(***************************************************************************)
EXTENDS Naturals, Sequences

CONSTANTS NoType, CycleError

Stages == {"structural", "interface", "contextual"}

ErrorType == [kind |-> "error", generic |-> FALSE, ctx |-> FALSE]

(* GenericEnvironment::mapTypeIntoContext: generic parameters become     *)
(* archetypes; a type without them is unchanged.                          *)
MapTypeIntoContext(t) == IF t.generic THEN [t EXCEPT !.ctx = TRUE] ELSE t

(* Variant: the contextual stage answers an ErrorType when the interface *)
(* request failed.                                                         *)
InheritedTypeRequestErrorOnCycle(d, i, stage) ==
    LET e == d.entries[i] IN
    IF e.cyclic THEN (IF stage = "contextual" THEN ErrorType ELSE CycleError)
    ELSE IF stage = "contextual"
    THEN MapTypeIntoContext(IF e.type = NoType THEN ErrorType ELSE e.type)
    ELSE IF e.type = NoType THEN ErrorType ELSE e.type

(* InheritedTypeRequest::evaluate for entry i of d at stage.  The        *)
(* contextual stage asks the interface stage and maps the result into    *)
(* context, answering NoType if that request failed (on a cycle, which   *)
(* the interface request reports).  Otherwise a                          *)
(* TypeRepr is resolved (structural and interface resolution agree on   *)
(* these kinds) or the TypeLoc's type is taken; no type is an ErrorType.  *)
InheritedTypeRequest(d, i, stage) ==
    LET e == d.entries[i] IN
    IF e.cyclic THEN (IF stage = "contextual" THEN NoType ELSE CycleError)
    ELSE IF stage = "contextual"
    THEN MapTypeIntoContext(IF e.type = NoType THEN ErrorType ELSE e.type)
    ELSE IF e.type = NoType THEN ErrorType ELSE e.type

(* The indices of the inheritance clause whose request answered a type.  *)
Resolved(d, stage) ==
    {i \in DOMAIN d.entries : InheritedTypeRequest(d, i, stage) \notin {CycleError, NoType}}

FirstOf(S) == CHOOSE i \in S : \A j \in S : i <= j

(* Variant: an existential with a class bound is itself returned.        *)
SuperclassOfEntryKeepingExistential(t) ==
    IF t.kind \in {"class", "classExistential"} THEN t ELSE NoType

(* What SuperclassTypeRequest takes from one inherited type: a class, or  *)
(* the explicit class superclass of an existential's layout.             *)
SuperclassOfEntry(t) ==
    CASE t.kind = "class" -> t
      [] t.kind = "classExistential" -> [t EXCEPT !.kind = "class"]
      [] OTHER -> NoType

(* SuperclassTypeRequest::evaluate: a deserialized protocol answers its  *)
(* generic signature's superclass bound for Self; otherwise the first     *)
(* entry, skipping cycles, that yields a class.                           *)
SuperclassTypeRequest(d, stage) ==
    IF d.deserialized THEN d.bound
    ELSE LET found == {i \in Resolved(d, stage) :
                         SuperclassOfEntry(InheritedTypeRequest(d, i, stage)) # NoType}
         IN IF found = {} THEN NoType
            ELSE SuperclassOfEntry(InheritedTypeRequest(d, FirstOf(found), stage))

(* EnumRawTypeRequest::evaluate: the first entry, skipping cycles, that  *)
(* is not an existential.                                                  *)
EnumRawTypeRequest(d, stage) ==
    LET found == {i \in Resolved(d, stage) :
                    InheritedTypeRequest(d, i, stage).kind \notin {"existential", "classExistential"}}
    IN IF found = {} THEN NoType ELSE InheritedTypeRequest(d, FirstOf(found), stage)
=============================================================================
