------------------------- MODULE MC_ConstraintSolver -------------------------
(***************************************************************************)
(* Model of a small expression for ConstraintSolver: three type variables *)
(* (3 is anchored on an integer literal), two nominal types with Int      *)
(* converting to Double, and constraint lists built from a few base       *)
(* constraints plus optional overload and literal disjunctions.           *)
(***************************************************************************)
EXTENDS ConstraintSolver

CONSTANTS TInt, TDbl, fI, fI2, fD, fDis, fAsync, gI, gD

MCTypeVar == {1, 2, 3}
MCType == {TInt, TDbl}
MCDecl == {fI, fI2, fD, fDis, fAsync, gI, gD}
MCDeclType == [d \in MCDecl |-> IF d \in {fD, fAsync, gD} THEN TDbl ELSE TInt]
MCDisfavored == {fDis}
MCAsyncMismatch == {fAsync}
MCLiteralVar == {3}
MCConvertible == {<<TInt, TInt>>, <<TDbl, TDbl>>, <<TInt, TDbl>>}

(* Constraints generation may emit before any disjunction.                *)
Base == <<Bind(2, 3), Bind(1, 2), Conversion(3, 1), Bind(3, TDbl), Bind(2, TInt)>>

(* The order-preserving selections of at most three base constraints.     *)
BaseLists == {SelectSeq([i \in 1..Len(Base) |-> <<i, Base[i]>>], LAMBDA e : e[1] \in S) :
                 S \in {S \in SUBSET (1..Len(Base)) : Cardinality(S) <= 3}}
Strip(l) == [i \in 1..Len(l) |-> l[i][2]]

(* An overload set for the callee at type variable 1.                      *)
OverloadSet(ds) == Disjunction(1, [i \in 1..Len(ds) |-> BindOverload(1, ds[i])])
CalleeChoices == {<<>>} \cup
    {<<OverloadSet(ds)>> : ds \in {<<fI, fD>>, <<fD, fI>>, <<fI, fI2>>,
                                   <<fDis, fI>>, <<fAsync, fD>>}}
(* The literal's default-type disjunction on type variable 3.             *)
LiteralChoices == {<<>>, <<Disjunction(3, <<Bind(3, TInt), Bind(3, TDbl)>>)>>}
(* An argument overload set at type variable 2.                            *)
ArgumentChoices == {<<>>, <<Disjunction(2, <<BindOverload(2, gI), BindOverload(2, gD)>>)>>}

MCProblem == {Strip(b) \o c \o l \o a : b \in BaseLists, c \in CalleeChoices,
                                        l \in LiteralChoices, a \in ArgumentChoices}
=============================================================================
