--------------------------- MODULE ConcurrencyRequests ---------------------------
(***************************************************************************)
(* The requests of TypeCheckConcurrency.cpp that decide what a            *)
(* declaration is: IsActorRequest for a class, checkAsyncHandler and      *)
(* IsAsyncHandlerRequest for a function.  They are evaluated through the  *)
(* request evaluator, which answers a request already being evaluated     *)
(* (a cycle) with evaluateOrDefault's default, false.                     *)
(*                                                                         *)
(* A world w describes the declarations:                                  *)
(*   w.enabled   LangOpts.EnableExperimentalConcurrency                   *)
(*   w.attr      the classes written with the 'actor' modifier           *)
(*   w.super     each class's superclass, NoClass if none                *)
(*   w.info[f]   for each function: explicit (@asyncHandler written),    *)
(*               sig (its signature, see CheckAsyncHandler), inferable   *)
(*               (in a type context of a source file, not a protocol,    *)
(*               with a body), witnesses (the protocol requirements of   *)
(*               the context's conformances it is the witness of, with   *)
(*               its name and a FuncDecl), replaces (the function it     *)
(*               dynamically replaces, NoFunc if none)                   *)
(***************************************************************************)
EXTENDS Naturals, FiniteSets

CONSTANTS NoClass, NoFunc

(* IsActorRequest::evaluate: without concurrency there are no actors (an  *)
(* 'actor' modifier is diagnosed); a subclass is an actor exactly when   *)
(* its superclass is (an 'actor' modifier on a subclass of a non-actor is *)
(* diagnosed); a root class is one when written 'actor'.                  *)
RECURSIVE IsActorRequest(_, _, _)
IsActorRequestOwnAttr(c, w, active) == w.enabled /\ c \in w.attr

IsActorRequest(c, w, active) ==
    IF ~w.enabled THEN FALSE
    ELSE IF w.super[c] # NoClass
    THEN IF w.super[c] \in active THEN FALSE
         ELSE IsActorRequest(w.super[c], w, active \cup {c})
    ELSE c \in w.attr

IsActor(c, w) == IsActorRequest(c, w, {c})

ActorDiagnosticsWithoutSuperclassCheck(c, w) ==
    IF ~w.enabled /\ c \in w.attr THEN {"actor_without_concurrency"} ELSE {}

(* The diagnostics IsActorRequest emits for an 'actor' modifier that has *)
(* no effect.                                                              *)
ActorDiagnostics(c, w) ==
    IF ~w.enabled
    THEN IF c \in w.attr THEN {"actor_without_concurrency"} ELSE {}
    ELSE IF w.super[c] # NoClass /\ ~IsActor(w.super[c], w) /\ c \in w.attr
    THEN {"actor_with_nonactor_superclass"} ELSE {}

(* checkAsyncHandler: the first of its conditions a function breaks, in  *)
(* the order the code tests them, or "ok".                                *)
CheckAsyncHandler(sig) ==
    CASE ~sig.voidResult -> "asynchandler_returns_value"
      [] sig.throws      -> "asynchandler_throws"
      [] sig.async       -> "asynchandler_async"
      [] sig.inout       -> "asynchandler_inout_parameter"
      [] sig.mutating    -> "asynchandler_mutating"
      [] OTHER           -> "ok"

(* IsAsyncHandlerRequest::evaluate.  The result, the diagnostic its      *)
(* well-formedness check gives, and whether an implicit @asyncHandler is *)
(* added.                                                                  *)
RECURSIVE AsyncHandlerRequest(_, _, _)
AsyncHandlerRequestUnchecked(f, w, active) ==
    LET i == w.info[f]
        Handler(g) == g \notin active /\ AsyncHandlerRequest(g, w, active \cup {g}).result
    IN IF ~i.explicit /\ w.enabled /\ i.inferable
              /\ \E r \in i.witnesses \cup ({i.replaces} \ {NoFunc}) : Handler(r)
       THEN [result |-> TRUE, diag |-> "ok", implicit |-> TRUE]
       ELSE [result |-> i.explicit /\ CheckAsyncHandler(i.sig) = "ok",
             diag |-> IF i.explicit THEN CheckAsyncHandler(i.sig) ELSE "ok",
             implicit |-> FALSE]
AsyncHandlerRequestNoReplacement(f, w, active) ==
    LET i == w.info[f]
        Handler(g) == g \notin active /\ AsyncHandlerRequest(g, w, active \cup {g}).result
    IN IF ~i.explicit /\ w.enabled /\ i.inferable /\ CheckAsyncHandler(i.sig) = "ok"
              /\ \E r \in i.witnesses : Handler(r)
       THEN [result |-> TRUE, diag |-> "ok", implicit |-> TRUE]
       ELSE [result |-> i.explicit /\ CheckAsyncHandler(i.sig) = "ok",
             diag |-> IF i.explicit THEN CheckAsyncHandler(i.sig) ELSE "ok",
             implicit |-> FALSE]

AsyncHandlerRequest(f, w, active) ==
    LET i == w.info[f]
        Answer(r, d, implicit) == [result |-> r, diag |-> d, implicit |-> implicit]
        Handler(g) == g \notin active /\ AsyncHandlerRequest(g, w, active \cup {g}).result
    IN
    IF i.explicit
    THEN IF CheckAsyncHandler(i.sig) # "ok"
         THEN Answer(FALSE, CheckAsyncHandler(i.sig), FALSE)
         ELSE Answer(TRUE, "ok", FALSE)
    ELSE IF ~w.enabled \/ ~i.inferable THEN Answer(FALSE, "ok", FALSE)
    ELSE IF CheckAsyncHandler(i.sig) # "ok" THEN Answer(FALSE, "ok", FALSE)
    ELSE IF \E r \in i.witnesses : Handler(r) THEN Answer(TRUE, "ok", TRUE)
    ELSE IF i.replaces # NoFunc /\ Handler(i.replaces) THEN Answer(TRUE, "ok", TRUE)
    ELSE Answer(FALSE, "ok", FALSE)

IsAsyncHandler(f, w) == AsyncHandlerRequest(f, w, {f}).result
=============================================================================
