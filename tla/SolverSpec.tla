------------------------------ MODULE SolverSpec ------------------------------
(***************************************************************************)
(* What ConstraintSystem::solve promises for one constraint list, stated  *)
(* without union-find, worklists, scopes or search order (spec.md 4, 7).  *)
(*                                                                         *)
(* A solution picks one alternative of every disjunction.  The Bind       *)
(* constraints of the picked list (a BindOverload binds its locator to    *)
(* the declaration's type) partition type variables and types into        *)
(* classes, the connected components of the equation graph.  The pick is *)
(* valid when no class holds two types, every Conversion between two      *)
(* concrete sides is allowed, and, under the Disallow policy, every type  *)
(* variable has a type.  Its score counts async mismatches, disfavored    *)
(* choices and a literal whose class has a concrete type other than its  *)
(* default (finalize takes the score before free variables are bound to  *)
(* the unresolved type, so that binding does not count).  The answer is  *)
(* the set of best-scoring valid solutions: none is an undiagnosed error, *)
(* one is solved, several are ambiguous.                                   *)
(***************************************************************************)
EXTENDS ConstraintTypes, Graphs

CONSTANT Problem

(* The score of a literal is decided by its one equivalence class.         *)
ASSUME Cardinality(LiteralVar) <= 1

VARIABLES problem, allowFreeTypeVariables, result

Pending == [kind |-> "Pending", best |-> {}]

Node == TypeVar \cup Type

DisjunctionIndices(p) == {i \in 1..Len(p) : p[i].kind = "Disjunction"}

(* One alternative of every disjunction.                                   *)
Selections(p) ==
    {sel \in [DisjunctionIndices(p) ->
               UNION {DOMAIN p[i].second : i \in DisjunctionIndices(p)}] :
        \A i \in DisjunctionIndices(p) : sel[i] <= Len(p[i].second)}

Picked(p, sel) ==
    {p[i] : i \in (1..Len(p)) \ DisjunctionIndices(p)}
    \cup {p[i].second[sel[i]] : i \in DisjunctionIndices(p)}

Equation(c) ==
    CASE c.kind = "Bind"         -> {<<c.first, c.second>>, <<c.second, c.first>>}
      [] c.kind = "BindOverload" -> {<<c.first, DeclType[c.second]>>,
                                     <<DeclType[c.second], c.first>>}
      [] OTHER                   -> {}

(* The connected components of the (symmetric) equation graph.             *)
Classes(cs) ==
    LET connected == ConnectionsIn([node |-> Node,
                                    edge |-> UNION {Equation(c) : c \in cs}])
    IN {{y \in Node : connected[x, y]} : x \in Node}

ClassOf(classes, x) == CHOOSE k \in classes : x \in k

(* The type a type variable stands for in a solution.                      *)
BindingOf(classes, tv) ==
    LET k == ClassOf(classes, tv) IN
    IF k \cap Type # {} THEN CHOOSE t \in k \cap Type : TRUE
    ELSE IF allowFreeTypeVariables = "Allow"
         THEN CHOOSE v \in k : \A w \in k : v <= w
         ELSE Unresolved

TypeOf(classes, x) == IF x \in TypeVar THEN BindingOf(classes, x) ELSE x

Valid(cs, classes) ==
    /\ \A k \in classes : Cardinality(k \cap Type) <= 1
    /\ \A c \in cs : c.kind = "Conversion" =>
          LET a == TypeOf(classes, c.first)
              b == TypeOf(classes, c.second)
          IN a \in Type /\ b \in Type => <<a, b>> \in Convertible
    /\ allowFreeTypeVariables = "Disallow" =>
          \A k \in classes : k \cap Type # {}

Overloads(cs) == {<<c.first, c.second>> : c \in {c \in cs : c.kind = "BindOverload"}}

SolutionScore(cs, classes) ==
    LET Chosen(D) == Cardinality({o \in Overloads(cs) : o[2] \in D})
    IN [k \in ScoreKinds |->
          CASE k = SK_AsyncSyncMismatch  -> Chosen(AsyncMismatch)
            [] k = SK_DisfavoredOverload -> Chosen(Disfavored)
            [] k = SK_NonDefaultLiteral  ->
                 Cardinality({lv \in LiteralVar :
                                 BindingOf(classes, lv) \in Type \ {DefaultLiteralType}})]

ValidSolutions(p) ==
    UNION {LET cs == Picked(p, sel)
               classes == Classes(cs)
           IN IF Valid(cs, classes)
              THEN {[bindings  |-> [tv \in TypeVar |-> BindingOf(classes, tv)],
                     overloads |-> Overloads(cs),
                     score     |-> SolutionScore(cs, classes)]}
              ELSE {} : sel \in Selections(p)}

BestSolutions(S) == {x \in S : \A y \in S : ~ScoreLess(y.score, x.score)}

Answer(p) ==
    LET best == BestSolutions(ValidSolutions(p)) IN
    [kind |-> CASE best = {}              -> "UndiagnosedError"
                [] Cardinality(best) = 1 -> "Solved"
                [] OTHER                 -> "Ambiguous",
     best |-> best]

Init == problem \in Problem /\ allowFreeTypeVariables \in FreeTypeVariableBinding /\ result = Pending

Solve == result = Pending /\ result' = Answer(problem) /\ UNCHANGED <<problem, allowFreeTypeVariables>>

Spec == Init /\ [][Solve]_<<problem, allowFreeTypeVariables, result>>
=============================================================================
