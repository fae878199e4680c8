-------------------------- MODULE ConstraintSolver --------------------------
(***************************************************************************)
(* One ConstraintSystem solving one expression: the union-find of type    *)
(* variables with its journal of saved bindings, the active and inactive  *)
(* constraint lists, simplification, overload resolution, the scoped undo *)
(* of SolverScope, and the depth-first search over disjunctions that      *)
(* records a Solution at every successful leaf and picks the best.        *)
(*                                                                         *)
(* Sources: the CSSolver.cpp and ConstraintSystem.cpp parts of            *)
(* src/unnamed/part_000.  The union-find representation, the constraint   *)
(* graph, matchTypes and the CSStep search steps live in files that are   *)
(* not part of src/; those definitions follow spec.md and are marked so   *)
(* in PROJECT.json.                                                        *)
(***************************************************************************)
EXTENDS ConstraintTypes, SequencesExt

CONSTANT Problem   \* the constraint lists constraint generation hands over

VARIABLES
    problem,            \* the input constraint list (never changes)
    allowFreeTypeVariables, \* SolverState::AllowFreeTypeVariables (never changes)
    cs,                 \* the ConstraintSystem's mutable state (see Sys)
    bestScore,          \* SolverState::BestScore: {} or {score}
    solutions,          \* the Solutions recorded so far
    scopes,             \* open SolverScopes, outermost first
    steps,              \* open DisjunctionSteps: [disj, next choice]
    pc,                 \* where the search driver is
    result              \* what solve() reports

vars == <<problem, allowFreeTypeVariables, cs, bestScore, solutions, scopes, steps, pc, result>>

Pending == [kind |-> "Pending", best |-> {}]

-----------------------------------------------------------------------------
(* The mutable part of the ConstraintSystem, one record, so that a        *)
(* handler that makes several calls is written as a composition of them:  *)
(*   pf       TypeVariableType::Implementation::ParentOrFixed of each var *)
(*   saved    SavedBindings: <<tv, previous ParentOrFixed>> in order      *)
(*   active   ActiveConstraints, in list order                            *)
(*   inactive InactiveConstraints, in list order                          *)
(*   retired  SolverState's retired constraints, in order                 *)
(*   resolved ResolvedOverloads: <<locator, decl>> in order               *)
(*   score    CurrentScore                                                *)
(*   failed   failedConstraint # nullptr                                  *)
Sys == cs

SetSys(s) == cs' = s

(* What a SolverScope promises to restore.                                 *)
Observable(s) ==
    [pf |-> s.pf, constraints |-> ToSet(s.active) \cup ToSet(s.inactive),
     resolved |-> s.resolved, score |-> s.score, failed |-> s.failed]

-----------------------------------------------------------------------------
(***************************************************************************)
(* Union-find of type variables (TypeVariableType::Implementation).       *)
(***************************************************************************)
RECURSIVE RepOf(_, _)
RepOf(pf, tv) == IF pf[tv] \in TypeVar /\ pf[tv] # tv THEN RepOf(pf, pf[tv]) ELSE tv

EquivalenceClass(pf, tv) == {v \in TypeVar : RepOf(pf, v) = RepOf(pf, tv)}

(* simplifyType: a type variable stands for its class's fixed type, or    *)
(* for its representative when the class is unbound.                      *)
SimplifiedType(pf, x) ==
    IF x \in TypeVar
    THEN LET r == RepOf(pf, x) IN IF pf[r] \in TypeVar THEN r ELSE pf[r]
    ELSE x

(* getRepresentative(record): path compression, each re-parenting saved.  *)
RECURSIVE CompressPath(_, _, _)
CompressPath(s, tv, rep) ==
    LET next == s.pf[tv] IN
    IF next \in TypeVar /\ next # rep
    THEN CompressPath([s EXCEPT !.pf = [@ EXCEPT ![tv] = rep],
                                !.saved = Append(@, <<tv, next>>)], next, rep)
    ELSE s

GetRepresentative(s, tv) == CompressPath(s, tv, RepOf(s.pf, tv))

(* getFixedTypeRecursive on an operand: looks the variable up.            *)
LookUp(s, x) == IF x \in TypeVar THEN GetRepresentative(s, x) ELSE s

(* Variant: the higher id becomes the representative.                    *)
UnionClassesHigherWins(s, tv1, tv2) ==
    LET lo == IF tv1 < tv2 THEN tv1 ELSE tv2
        hi == IF tv1 < tv2 THEN tv2 ELSE tv1
    IN With(GetRepresentative(s, lo), LAMBDA s1 :
            [s1 EXCEPT !.saved = Append(@, <<lo, s1.pf[lo]>>),
                       !.pf = [@ EXCEPT ![lo] = hi]])

(* Implementation::mergeEquivalenceClasses: the lower id stays the        *)
(* representative; the other representative is re-parented, saved.       *)
UnionClasses(s, tv1, tv2) ==
    LET lo == IF tv1 < tv2 THEN tv1 ELSE tv2
        hi == IF tv1 < tv2 THEN tv2 ELSE tv1
    IN With(GetRepresentative(s, hi), LAMBDA s1 :
            [s1 EXCEPT !.saved = Append(@, <<hi, s1.pf[hi]>>),
                       !.pf = [@ EXCEPT ![hi] = lo]])

(* Implementation::assignFixedType: the representative takes the type.    *)
BindRepresentative(s, tv, t) ==
    With(GetRepresentative(s, tv), LAMBDA s1 :
        LET r == RepOf(s1.pf, tv)
        IN [s1 EXCEPT !.saved = Append(@, <<r, s1.pf[r]>>),
                      !.pf = [@ EXCEPT ![r] = t]])

(* Variant: the journal replayed oldest first.                            *)
RestoreOldestFirst(s, n) ==
    LET last == Len(s.saved)
        RECURSIVE Undo(_, _)
        Undo(pf, i) == IF i > last THEN pf
                       ELSE Undo([pf EXCEPT ![s.saved[i][1]] = s.saved[i][2]], i + 1)
    IN [s EXCEPT !.pf = Undo(s.pf, last - n + 1), !.saved = SubSeq(@, 1, last - n)]

(* restoreTypeVariableBindings: undo the last n saved bindings, newest    *)
(* first, and drop them from the journal.                                 *)
RestoreTypeVariableBindings(s, n) ==
    LET last == Len(s.saved)
        RECURSIVE Undo(_, _)
        Undo(pf, i) == IF i <= last - n THEN pf
                       ELSE Undo([pf EXCEPT ![s.saved[i][1]] = s.saved[i][2]], i - 1)
    IN [s EXCEPT !.pf = Undo(s.pf, last), !.saved = SubSeq(@, 1, last - n)]

-----------------------------------------------------------------------------
(***************************************************************************)
(* Constraint graph and worklist.                                          *)
(***************************************************************************)
(* Variant: only the constraints that mention tv itself.                  *)
GatherDirectMentions(s, tv) ==
    {c \in ToSet(s.active) \cup ToSet(s.inactive) : tv \in Mentions(c)}

(* gatherConstraints(tv, AllMentions): every constraint still in the      *)
(* system that mentions a member of tv's equivalence class.               *)
GatherConstraints(s, tv) ==
    {c \in ToSet(s.active) \cup ToSet(s.inactive) :
        Mentions(c) \cap EquivalenceClass(s.pf, tv) # {}}

(* addTypeVariableConstraintsToWorkList: move the gathered inactive       *)
(* constraints to the end of the active list.                             *)
AddTypeVariableConstraintsToWorkList(s, tv) ==
    LET gathered == GatherConstraints(s, tv)
        woken    == SelectSeq(s.inactive, LAMBDA c : c \in gathered)
    IN [s EXCEPT !.inactive = SelectSeq(@, LAMBDA c : c \notin gathered),
                 !.active = @ \o woken]

(* ConstraintSystem::mergeEquivalenceClasses, updateWorkList = true.      *)
MergeEquivalenceClasses(s, tv1, tv2) ==
    AddTypeVariableConstraintsToWorkList(UnionClasses(s, tv1, tv2), tv1)

(* ConstraintSystem::assignFixedType, updateState = true: binding a class *)
(* that holds a literal to a type other than the literal's default type   *)
(* costs SK_NonDefaultLiteral.                                             *)
AssignFixedType(s, tv, t) ==
    With(BindRepresentative(s, tv, t), LAMBDA s1 :
        AddTypeVariableConstraintsToWorkList(
            IF /\ EquivalenceClass(s1.pf, tv) \cap LiteralVar # {}
               /\ t # DefaultLiteralType
            THEN [s1 EXCEPT !.score = IncreaseScore(@, SK_NonDefaultLiteral)]
            ELSE s1,
            tv))

RetireConstraint(s, c) ==
    [s EXCEPT !.active = Remove(@, c), !.inactive = Remove(@, c),
              !.retired = Append(@, c)]

-----------------------------------------------------------------------------
(***************************************************************************)
(* Simplification of one constraint.                                       *)
(***************************************************************************)
(* matchTypes for Bind: two unbound classes merge, an unbound class takes *)
(* a concrete type, two concrete types must be the same.                  *)
MatchBind(s, c) ==
    With(LookUp(LookUp(s, c.first), c.second), LAMBDA s1 :
        LET a == SimplifiedType(s1.pf, c.first)
            b == SimplifiedType(s1.pf, c.second)
        IN CASE a \in TypeVar /\ b \in TypeVar ->
                  [sys |-> IF a = b THEN s1 ELSE MergeEquivalenceClasses(s1, a, b),
                   outcome |-> "Solved"]
             [] a \in TypeVar -> [sys |-> AssignFixedType(s1, a, b), outcome |-> "Solved"]
             [] b \in TypeVar -> [sys |-> AssignFixedType(s1, b, a), outcome |-> "Solved"]
             [] OTHER -> [sys |-> s1, outcome |-> IF a = b THEN "Solved" ELSE "Error"])

(* matchTypes for Conversion: decided once both sides are concrete.       *)
MatchConversion(s, c) ==
    With(LookUp(LookUp(s, c.first), c.second), LAMBDA s1 :
        LET a == SimplifiedType(s1.pf, c.first)
            b == SimplifiedType(s1.pf, c.second)
        IN [sys |-> s1,
            outcome |-> IF a \in TypeVar \/ b \in TypeVar THEN "Unsolved"
                        ELSE IF <<a, b>> \in Convertible THEN "Solved" ELSE "Error"])

(* addConstraint of a Bind: simplified at once; a failure is recorded.    *)
AddBindConstraint(s, x, y) ==
    With(MatchBind(s, Bind(x, y)), LAMBDA r :
        IF r.outcome = "Error" THEN [r.sys EXCEPT !.failed = TRUE] ELSE r.sys)

(* Variant: the choice is recorded under the declaration's type.         *)
ResolveOverloadRecordingType(s, locator, d) ==
    LET s1 == IF d \in AsyncMismatch
              THEN [s EXCEPT !.score = IncreaseScore(@, SK_AsyncSyncMismatch)]
              ELSE s
    IN With(AddBindConstraint([s1 EXCEPT !.resolved = Append(@, <<DeclType[d], d>>)],
                              locator, DeclType[d]), LAMBDA s3 :
            IF d \in Disfavored
            THEN [s3 EXCEPT !.score = IncreaseScore(@, SK_DisfavoredOverload)]
            ELSE s3)

(* Variant: a disfavored choice costs nothing.                            *)
ResolveOverloadIgnoringDisfavored(s, locator, d) ==
    LET s1 == IF d \in AsyncMismatch
              THEN [s EXCEPT !.score = IncreaseScore(@, SK_AsyncSyncMismatch)]
              ELSE s
    IN AddBindConstraint([s1 EXCEPT !.resolved = Append(@, <<locator, d>>)],
                         locator, DeclType[d])

(* resolveOverload: score an async mismatch, record the choice for the    *)
(* locator, bind the locator's type variable to the reference type, and   *)
(* score a disfavored choice.                                              *)
ResolveOverload(s, locator, d) ==
    LET s1 == IF d \in AsyncMismatch
              THEN [s EXCEPT !.score = IncreaseScore(@, SK_AsyncSyncMismatch)]
              ELSE s
    IN With(AddBindConstraint([s1 EXCEPT !.resolved = Append(@, <<locator, d>>)],
                              locator, DeclType[d]), LAMBDA s3 :
            IF d \in Disfavored
            THEN [s3 EXCEPT !.score = IncreaseScore(@, SK_DisfavoredOverload)]
            ELSE s3)

(* simplifyConstraint: dispatch on the kind.                               *)
SimplifyConstraint(s, c) ==
    CASE c.kind = "Bind"         -> MatchBind(s, c)
      [] c.kind = "Conversion"   -> MatchConversion(s, c)
      [] c.kind = "BindOverload" -> [sys |-> ResolveOverload(s, c.first, c.second),
                                     outcome |-> "Solved"]
      [] c.kind = "Disjunction"  -> [sys |-> s, outcome |-> "Unsolved"]

(* worseThanBestSolution.                                                  *)
WorseThanBestSolution(score) == \E b \in bestScore : ScoreLess(b, score)

HasFreeTypeVariables(pf) == \E tv \in TypeVar : pf[tv] = tv

-----------------------------------------------------------------------------
(***************************************************************************)
(* Disjunction selection.                                                  *)
(***************************************************************************)
(* selectBestBindingDisjunction: among disjunctions whose alternatives    *)
(* bind a still-unbound type variable, prefer one whose variable is the   *)
(* right-hand side of a Conversion; otherwise the first of them.          *)
SelectBestBindingDisjunction(s, disjs) ==
    LET AsTypeVar(x) == SimplifiedType(s.pf, x)
        binding == SelectSeq(disjs, LAMBDA d :
                      /\ d.second[1].kind = "Bind"
                      /\ AsTypeVar(d.second[1].first) \in TypeVar)
        preferred == SelectSeq(binding, LAMBDA d :
                      LET tv == AsTypeVar(d.second[1].first) IN
                      \E c \in GatherConstraints(s, tv) :
                          c.kind = "Conversion" /\ AsTypeVar(c.second) = tv)
    IN IF preferred # <<>> THEN {Head(preferred)}
       ELSE IF binding # <<>> THEN {Head(binding)} ELSE {}

(* selectDisjunction: the best binding disjunction, else the first one    *)
(* with the fewest enabled alternatives.  Returns {} or {disjunction}.    *)
SelectDisjunction(s) ==
    LET disjs == SelectSeq(s.inactive, LAMBDA c : c.kind = "Disjunction")
        n(i) == Len(disjs[i].second)
        fewest == CHOOSE i \in 1..Len(disjs) :
                     \A j \in 1..Len(disjs) : n(i) < n(j) \/ (n(i) = n(j) /\ i <= j)
    IN IF disjs = <<>> THEN {}
       ELSE LET best == SelectBestBindingDisjunction(s, disjs)
            IN IF best # {} THEN best ELSE {disjs[fewest]}

-----------------------------------------------------------------------------
(***************************************************************************)
(* SolverScope.                                                            *)
(***************************************************************************)
(* Constructor: remember the lengths of the journals and the score.       *)
OpenScope(s) ==
    [numSaved |-> Len(s.saved), numResolved |-> Len(s.resolved),
     numRetired |-> Len(s.retired), prevScore |-> s.score,
     snap |-> Observable(s)]

(* SolverState::rollback: constraints retired since the scope return.     *)
Rollback(s, sc) ==
    [s EXCEPT !.inactive = @ \o SubSeq(s.retired, sc.numRetired + 1, Len(s.retired)),
              !.retired = SubSeq(@, 1, sc.numRetired)]

(* Variant: the overload choices made inside the scope are kept.         *)
CloseScopeKeepingOverloads(s, sc) ==
    With(RestoreTypeVariableBindings(s, Len(s.saved) - sc.numSaved), LAMBDA s2 :
        [Rollback([s2 EXCEPT !.inactive = @ \o s2.active, !.active = <<>>], sc)
            EXCEPT !.score = sc.prevScore, !.failed = FALSE])

(* Variant: the failure of the abandoned alternative is not cleared.      *)
CloseScopeKeepingFailure(s, sc) ==
    With(RestoreTypeVariableBindings([s EXCEPT !.resolved = SubSeq(@, 1, sc.numResolved)],
                                     Len(s.saved) - sc.numSaved), LAMBDA s2 :
        [Rollback([s2 EXCEPT !.inactive = @ \o s2.active, !.active = <<>>], sc)
            EXCEPT !.score = sc.prevScore])

(* Destructor, in the order of ~SolverScope.                               *)
CloseScope(s, sc) ==
    With(RestoreTypeVariableBindings([s EXCEPT !.resolved = SubSeq(@, 1, sc.numResolved)],
                                     Len(s.saved) - sc.numSaved), LAMBDA s2 :
        [Rollback([s2 EXCEPT !.inactive = @ \o s2.active, !.active = <<>>], sc)
            EXCEPT !.score = sc.prevScore, !.failed = FALSE])

-----------------------------------------------------------------------------
(***************************************************************************)
(* finalize: the Solution of a leaf.                                       *)
(***************************************************************************)
(* Variant: every type variable, fixed or not, gets the unresolved type.  *)
BindAllTypeVariables(s) ==
    LET order == SetToSortSeq(TypeVar, <)
        RECURSIVE Go(_, _)
        Go(t, i) ==
            IF i > Len(order) THEN t
            ELSE Go(IF allowFreeTypeVariables = "UnresolvedType"
                    THEN AssignFixedType(GetRepresentative(t, order[i]), order[i], Unresolved)
                    ELSE GetRepresentative(t, order[i]),
                    i + 1)
    IN Go(s, 1)

(* Free type variables, in creation order, are looked up and, under       *)
(* UnresolvedType, bound to the unresolved type.                           *)
BindFreeTypeVariables(s) ==
    LET order == SetToSortSeq(TypeVar, <)
        RECURSIVE Go(_, _)
        Go(t, i) ==
            IF i > Len(order) THEN t
            ELSE With(GetRepresentative(t, order[i]), LAMBDA t1 :
                     Go(IF /\ SimplifiedType(t1.pf, order[i]) \in TypeVar
                           /\ allowFreeTypeVariables = "UnresolvedType"
                        THEN AssignFixedType(t1, order[i], Unresolved) ELSE t1,
                        i + 1))
    IN Go(s, 1)

Finalize(s) ==
    With(BindFreeTypeVariables(s), LAMBDA s1 :
        [sys |-> s1,
         solution |-> [bindings  |-> [tv \in TypeVar |-> SimplifiedType(s1.pf, tv)],
                       overloads |-> ToSet(s.resolved),
                       score     |-> s.score]])

(* filterSolutions + the classification of solveImpl(target).             *)
BestOf(S) == {x \in S : \A y \in S : ~ScoreLess(y.score, x.score)}

SolveResult(sols) ==
    IF sols = <<>> THEN [kind |-> "UndiagnosedError", best |-> {}]
    ELSE IF \E b \in 1..Len(sols) : \A i \in 1..Len(sols) :
                 sols[i] = sols[b] \/ ScoreLess(sols[b].score, sols[i].score)
         THEN [kind |-> "Solved", best |-> BestOf(ToSet(sols))]
         ELSE [kind |-> "Ambiguous", best |-> BestOf(ToSet(sols))]

-----------------------------------------------------------------------------
(***************************************************************************)
(* The search driver.                                                      *)
(***************************************************************************)
Unwind == IF steps = <<>> THEN "finish" ELSE "backtrack"

(* A fresh ConstraintSystem holding the constraints p.                    *)
InitialSys(p) ==
    [pf |-> [tv \in TypeVar |-> tv], saved |-> <<>>, active |-> p,
     inactive |-> <<>>, retired |-> <<>>, resolved |-> <<>>,
     score |-> ZeroScore, failed |-> FALSE]

Init ==
    /\ problem \in Problem
    /\ allowFreeTypeVariables \in FreeTypeVariableBinding
    /\ cs = InitialSys(problem)
    /\ bestScore = {}
    /\ solutions = <<>>
    /\ scopes = <<OpenScope(Sys)>>
    /\ steps = <<>>
    /\ pc = "simplify"
    /\ result = Pending

(* One iteration of ConstraintSystem::simplify.                            *)
SimplifyStep ==
    /\ pc = "simplify"
    /\ cs.active # <<>>
    /\ LET c == Head(cs.active) IN
       \E r \in {SimplifyConstraint([Sys EXCEPT !.active = Tail(@),
                                               !.inactive = Append(@, c)], c)} :
       \E s1 \in {CASE r.outcome = "Error"    -> [RetireConstraint(r.sys, c) EXCEPT !.failed = TRUE]
                   [] r.outcome = "Solved"   -> RetireConstraint(r.sys, c)
                   [] r.outcome = "Unsolved" -> r.sys} :
          /\ SetSys(s1)
          /\ pc' = IF s1.failed \/ WorseThanBestSolution(s1.score) THEN Unwind ELSE "simplify"
    /\ UNCHANGED <<problem, allowFreeTypeVariables, bestScore, solutions, scopes, steps, result>>

SimplifyDone ==
    /\ pc = "simplify"
    /\ cs.active = <<>>
    /\ pc' = "component"
    /\ UNCHANGED <<problem, allowFreeTypeVariables, cs, bestScore, solutions, scopes, steps, result>>

(* ComponentStep::take after simplification: give up on a failed or       *)
(* outscored branch, branch on the selected disjunction, or finalize.     *)
ComponentStep ==
    /\ pc = "component"
    /\ \E d \in {SelectDisjunction(Sys)} :
       CASE cs.failed \/ WorseThanBestSolution(cs.score) ->
              /\ pc' = Unwind
              /\ UNCHANGED <<cs, bestScore, solutions, steps>>
         [] d = {} /\ allowFreeTypeVariables = "Disallow"
                   /\ HasFreeTypeVariables(cs.pf) ->
              /\ pc' = Unwind
              /\ UNCHANGED <<cs, bestScore, solutions, steps>>
         [] d = {} ->
              \E f \in {Finalize(Sys)} :
              /\ SetSys(f.sys)
              /\ bestScore' = IF \E b \in bestScore : ScoreLess(b, cs.score)
                              THEN bestScore ELSE {cs.score}
              /\ solutions' = Append(solutions, f.solution)
              /\ pc' = Unwind
              /\ UNCHANGED steps
         [] OTHER ->
              LET dj == CHOOSE x \in d : TRUE IN
              /\ SetSys(RetireConstraint(Sys, dj))
              /\ steps' = Append(steps, [disj |-> dj, next |-> 1])
              /\ pc' = "attempt"
              /\ UNCHANGED <<bestScore, solutions>>
    /\ UNCHANGED <<problem, allowFreeTypeVariables, scopes, result>>

(* DisjunctionStep: open a scope and attempt the next alternative         *)
(* (DisjunctionChoice::attempt).                                           *)
AttemptChoice ==
    /\ pc = "attempt"
    /\ LET f == Last(steps) IN
       /\ f.next <= Len(f.disj.second)
       /\ \E r \in {SimplifyConstraint(Sys, f.disj.second[f.next])} :
          \E s1 \in {IF r.outcome = "Error" THEN [r.sys EXCEPT !.failed = TRUE] ELSE r.sys} :
             /\ scopes' = Append(scopes, OpenScope(Sys))
             /\ SetSys(s1)
             /\ pc' = IF s1.failed THEN "backtrack" ELSE "simplify"
    /\ UNCHANGED <<problem, allowFreeTypeVariables, bestScore, solutions, steps, result>>

(* Every alternative has been tried: the step, and the component that     *)
(* created it, are done.                                                   *)
DisjunctionExhausted ==
    /\ pc = "attempt"
    /\ Last(steps).next > Len(Last(steps).disj.second)
    /\ steps' = Front(steps)
    /\ pc' = IF Len(steps) = 1 THEN "finish" ELSE "backtrack"
    /\ UNCHANGED <<problem, allowFreeTypeVariables, cs, bestScore, solutions, scopes, result>>

(* Variant: the scope is left but the same alternative is tried again.    *)
BacktrackWithoutAdvance ==
    /\ pc = "backtrack"
    /\ SetSys(CloseScope(Sys, Last(scopes)))
    /\ scopes' = Front(scopes)
    /\ pc' = "attempt"
    /\ UNCHANGED <<problem, allowFreeTypeVariables, bestScore, solutions, steps, result>>

(* Leave the alternative's scope and move to the next alternative.        *)
Backtrack ==
    /\ pc = "backtrack"
    /\ SetSys(CloseScope(Sys, Last(scopes)))
    /\ scopes' = Front(scopes)
    /\ steps' = [steps EXCEPT ![Len(steps)].next = @ + 1]
    /\ pc' = "attempt"
    /\ UNCHANGED <<problem, allowFreeTypeVariables, bestScore, solutions, result>>

(* End of solveImpl (the root scope closes), ~SolverState (initially      *)
(* active constraints are re-activated), filterSolutions and the          *)
(* classification of the result.                                           *)
Finish ==
    /\ pc = "finish"
    /\ \E s1 \in {CloseScope(Sys, Last(scopes))} :
       LET back == SelectSeq(problem, LAMBDA c : c \notin ToSet(s1.active))
       IN SetSys([s1 EXCEPT !.active = @ \o back,
                            !.inactive = SelectSeq(@, LAMBDA c : c \notin ToSet(back))])
    /\ scopes' = Front(scopes)
    /\ result' = SolveResult(solutions)
    /\ pc' = "done"
    /\ UNCHANGED <<problem, allowFreeTypeVariables, bestScore, solutions, steps>>

Next ==
    \/ SimplifyStep
    \/ SimplifyDone
    \/ ComponentStep
    \/ AttemptChoice
    \/ DisjunctionExhausted
    \/ Backtrack
    \/ Finish

(* The solver is synchronous and runs on one thread to completion, so it  *)
(* is weakly fair: WF_vars(Next).  ENABLED <<Next>>_vars is written out as *)
(* the union of the actions' guards, which cover every pc but "done"; the *)
(* actions' bodies have no further guard (every CASE has a catch-all).    *)
CanStep == pc # "done"
Fairness == <>[]CanStep => []<><<Next>>_vars

Spec == Init /\ [][Next]_vars /\ Fairness

-----------------------------------------------------------------------------
(***************************************************************************)
(* Properties.                                                             *)
(***************************************************************************)
AtomicConstraint ==
    [kind : {"Bind", "Conversion"}, first : TypeVar \cup Type, second : TypeVar \cup Type]
    \cup [kind : {"BindOverload"}, first : TypeVar, second : Decl]
IsConstraint(c) ==
    \/ c \in AtomicConstraint
    \/ /\ c.kind = "Disjunction" /\ c.first \in TypeVar
       /\ \A i \in DOMAIN c.second : c.second[i] \in AtomicConstraint
IsConstraintList(l) == \A i \in DOMAIN l : IsConstraint(l[i])
Score == [ScoreKinds -> Nat]

TypeOK ==
    /\ problem \in Problem
    /\ allowFreeTypeVariables \in FreeTypeVariableBinding
    /\ cs.pf \in [TypeVar -> TypeVar \cup Type \cup {Unresolved}]
    /\ cs.saved \in Seq(TypeVar \X (TypeVar \cup Type \cup {Unresolved}))
    /\ IsConstraintList(cs.active) /\ IsConstraintList(cs.inactive)
    /\ IsConstraintList(cs.retired)
    /\ cs.resolved \in Seq(TypeVar \X Decl)
    /\ cs.score \in Score
    /\ cs.failed \in BOOLEAN
    /\ bestScore \subseteq Score /\ Cardinality(bestScore) <= 1
    /\ pc \in {"simplify", "component", "attempt", "backtrack", "finish", "done"}
    /\ result.kind \in {"Pending", "UndiagnosedError", "Solved", "Ambiguous"}

(* ~SolverScope (restoreTypeVariableBindings, the truncation of           *)
(* ResolvedOverloads, SolverState::rollback, the score reset and the      *)
(* clearing of failedConstraint) puts back exactly the bindings, the set  *)
(* of constraints, the overload choices, the score and the failure flag   *)
(* the scope's constructor saw, however many merges, assignments and path *)
(* compressions happened inside it.                                        *)
UndoSoundness ==
    [][Len(scopes') < Len(scopes) => Observable(Sys)' = Last(scopes).snap]_vars

(* When simplification reaches a fixed point without failing, no inactive *)
(* non-disjunction constraint could make progress: every binding and      *)
(* merge re-activated the constraints of the whole equivalence class      *)
(* (addTypeVariableConstraintsToWorkList), so none is left stale.          *)
NoMissedWakeup ==
    pc = "component" /\ ~cs.failed =>
        \A c \in ToSet(cs.inactive) :
            c.kind # "Disjunction" => SimplifyConstraint(Sys, c).outcome = "Unsolved"

(* SolverScope's constructor asserts "Unexpected failed constraint!": an  *)
(* alternative is only ever attempted from a consistent system, because   *)
(* the scope of the previously failed alternative cleared the failure.    *)
ScopeOpenedWithoutFailure ==
    [][Len(scopes') > Len(scopes) => ~cs.failed]_vars

(* resolveOverload asserts "Already resolved this overload?": along any   *)
(* path of the search, a locator's overload set is resolved at most once,  *)
(* which needs ~SolverScope to truncate ResolvedOverloads before the next  *)
(* alternative of the same disjunction is attempted.                       *)
OverloadResolvedOnce ==
    \A i, j \in 1..Len(cs.resolved) : cs.resolved[i][1] = cs.resolved[j][1] => i = j

(* solve() computes what SolverSpec says it should: whatever order the     *)
(* disjunctions are selected in and however branches are pruned by        *)
(* worseThanBestSolution, the reported outcome and the set of best         *)
(* solutions are those of the declarative definition.                      *)
Abstract == INSTANCE SolverSpec
Refinement == Abstract!Spec

(* solve() returns: the depth-first search over the disjunctions ends.    *)
Termination == <>(pc = "done")
=============================================================================
