--------------------------- MODULE ConstraintTypes ---------------------------
(***************************************************************************)
(* Vocabulary shared by the solver model (ConstraintSolver) and the        *)
(* reference specification of its answer (SolverSpec): the constraints a  *)
(* ConstraintSystem holds, and the Score vector with its order.           *)
(*                                                                         *)
(* A constraint is a record with a kind and two operands.  The operands   *)
(* of Bind and Conversion are type variables or concrete types; a         *)
(* BindOverload binds the type variable at its locator to the type of a  *)
(* declaration; a Disjunction carries its locator and the sequence of its *)
(* alternative constraints.                                                *)
(***************************************************************************)
EXTENDS Naturals, Sequences, FiniteSets

(* With(v, LAMBDA x : e) is e with x bound to the value of v.  A handler *)
(* that threads the system state through several calls names each        *)
(* intermediate state this way, so that it is evaluated once however     *)
(* often the rest of the handler reads it.                               *)
With(v, Op(_)) == Op(v)

CONSTANTS
    TypeVar,                 \* ids of the type variables (naturals)
    Type,                    \* concrete nominal types
    Unresolved,              \* ctx.TheUnresolvedType
    Decl,                    \* overload candidates
    DeclType,                \* [Decl -> Type]: the type a reference to it has
    Disfavored,              \* candidates marked @_disfavoredOverload
    AsyncMismatch,           \* candidates whose async-ness differs from the use
    LiteralVar,              \* type variables anchored on a literal expression
    DefaultLiteralType,      \* the default type of that literal's protocol
    Convertible,             \* <<S, T>>: S converts to T
    FreeTypeVariableBinding  \* the policies solve() is called with, of
                             \* "Disallow", "Allow", "UnresolvedType"

ASSUME /\ TypeVar \subseteq Nat
       /\ DeclType \in [Decl -> Type]
       /\ Disfavored \cup AsyncMismatch \subseteq Decl
       /\ LiteralVar \subseteq TypeVar
       /\ DefaultLiteralType \in Type
       /\ Unresolved \notin Type
       /\ Convertible \subseteq Type \X Type
       /\ FreeTypeVariableBinding \subseteq {"Disallow", "Allow", "UnresolvedType"}

Bind(x, y)             == [kind |-> "Bind", first |-> x, second |-> y]
Conversion(x, y)       == [kind |-> "Conversion", first |-> x, second |-> y]
BindOverload(tv, d)    == [kind |-> "BindOverload", first |-> tv, second |-> d]
Disjunction(loc, alts) == [kind |-> "Disjunction", first |-> loc, second |-> alts]

(* The type variables a constraint mentions, directly or in a nested      *)
(* alternative: the adjacency the constraint graph indexes.               *)
OperandVars(c) == {c.first, c.second} \cap TypeVar
Mentions(c) ==
    IF c.kind = "Disjunction"
    THEN {c.first} \cup UNION {OperandVars(c.second[i]) : i \in 1..Len(c.second)}
    ELSE OperandVars(c)

(***************************************************************************)
(* Score: one counter per ScoreKind the solver increases, most important  *)
(* first, compared lexicographically (smaller is better).                 *)
(***************************************************************************)
SK_AsyncSyncMismatch  == 1
SK_DisfavoredOverload == 2
SK_NonDefaultLiteral  == 3
ScoreKinds == {SK_AsyncSyncMismatch, SK_DisfavoredOverload, SK_NonDefaultLiteral}

ZeroScore == [k \in ScoreKinds |-> 0]

IncreaseScore(score, k) == [score EXCEPT ![k] = @ + 1]

ScoreLess(a, b) ==
    \E k \in ScoreKinds : /\ a[k] < b[k]
                          /\ \A j \in ScoreKinds : j < k => a[j] = b[j]
=============================================================================
