------------------------------ MODULE MC_Shrink ------------------------------
(***************************************************************************)
(* Expressions for Shrink, with the candidates ExprCollector picks in     *)
(* them.  Type variable 1 is the overload set of the callee f (each f     *)
(* takes and returns its declared type), 2 the overload set of g, 3 the   *)
(* integer literal passed to g.                                            *)
(*                                                                         *)
(*   f([g(1)])      the array literal is not walked: g(1) is a candidate  *)
(*                  of visitCollectionExpr (no contextual type), g's set  *)
(*                  is not in Domains; the primary apply is the second    *)
(*                  candidate.                                             *)
(*   k(f(g(1)))     k is a plain function whose parameter is Double       *)
(*                  (converted to, or bound exactly for inout); f(g(1))   *)
(*                  counts two overload sets and is a candidate, then the *)
(*                  primary.                                               *)
(*   k(f(g(1)),{}) the same with a closure argument: the primary bails.   *)
(***************************************************************************)
EXTENDS Shrink

CONSTANTS TInt, TDbl, fI, fD, fDis, fAsync, fGen, gI, gD

MCTypeVar == {1, 2, 3}
MCType == {TInt, TDbl}
MCDecl == {fI, fD, fDis, fAsync, fGen, gI, gD}
MCDeclType == [d \in MCDecl |-> IF d \in {fD, fAsync, gD} THEN TDbl ELSE TInt]
MCDisfavored == {fDis}
MCAsyncMismatch == {fAsync}
MCLiteralVar == {3}
MCConvertible == {<<TInt, TInt>>, <<TDbl, TDbl>>, <<TInt, TDbl>>}
MCOSR == {1, 2}
MCGenericDecl == {fGen}

Ref(o) == [kind |-> "OSR", first |-> o]
Cand(cons, closure, genFails) == [cons |-> cons, closure |-> closure, genFails |-> genFails]

FDomains == {<<fDis, fD>>, <<fI, fD>>, <<fGen, fD>>, <<fD, fAsync>>}
GDomains == {<<gI, gD>>, <<gD, gI>>}

(* g(1) and f(g(1)) as constraint generation emits them.                  *)
GOfLiteral == <<Ref(2), Bind(2, 3)>>
FOfG == GOfLiteral \o <<Ref(1), Bind(1, 2)>>

InCollection(F, G, ctx, gf) ==
    [original |-> (1 :> F) @@ (2 :> G), walked |-> {1},
     candidates |-> <<Cand(GOfLiteral, FALSE, gf), Cand(FOfG \o ctx, FALSE, FALSE)>>,
     primaryLast |-> TRUE, full |-> FOfG \o ctx]

Nested(F, G, param, closure, gf) ==
    [original |-> (1 :> F) @@ (2 :> G), walked |-> {1, 2},
     candidates |-> <<Cand(FOfG, FALSE, gf), Cand(FOfG \o param, closure, FALSE)>>,
     primaryLast |-> TRUE, full |-> FOfG \o param]

MCExpressions ==
    {InCollection(F, G, ctx, gf) : F \in FDomains, G \in GDomains,
                                   ctx \in {<<>>, <<Conversion(1, TDbl)>>}, gf \in BOOLEAN}
    \cup
    {Nested(F, G, param, closure, gf) : F \in FDomains, G \in GDomains,
                                        param \in {<<Conversion(1, TDbl)>>, <<Bind(1, TDbl)>>},
                                        closure \in BOOLEAN, gf \in BOOLEAN}
=============================================================================
