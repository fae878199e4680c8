------------------------------- MODULE Shrink -------------------------------
(***************************************************************************)
(* ConstraintSystem::shrink, Candidate::solve and Candidate::applySolutions *)
(* (part_000): before code completion solves an expression, sub-expressions *)
(* the ExprCollector picked out (the candidates) are solved one by one in  *)
(* fresh constraint systems, and the overload choices their solutions use   *)
(* become the reduced domains of the expression's overload sets.           *)
(*                                                                         *)
(* Each candidate's solveImpl is the ConstraintSolver state machine itself *)
(* (under the Allow policy, as Candidate::solve's SolverState says), so    *)
(* the solutions applySolutions reads are its unfiltered solution list.    *)
(*                                                                         *)
(* An overload set (OverloadSetRefExpr) is named by the type variable it   *)
(* is anchored on.  A constraint list may hold [kind |-> "OSR", first |-> o] *)
(* for the Disjunction constraint generation makes of o's current decls.   *)
(* An expression e is a record:                                            *)
(*   original   [overload sets of e -> their decls in order]               *)
(*   walked     the overload sets ExprCollector entered in its Domains map  *)
(*              (not those inside a collection, closure, tap or coercion)  *)
(*   candidates the Candidates in collection order, each [cons, closure,   *)
(*              genFails]: its constraints (with the contextual conversion *)
(*              when it has a contextual type), whether it contains a      *)
(*              closure, whether generateConstraints fails for it          *)
(*   primaryLast whether the last candidate is the whole expression        *)
(*   full       the constraints of the whole expression                    *)
(***************************************************************************)
EXTENDS ConstraintTypes, SequencesExt

CONSTANTS
    OSR,            \* type variables anchored on an OverloadSetRefExpr
    GenericDecl,    \* decls whose interface type is a GenericFunctionType
    Expressions     \* the expressions shrink is called on

VARIABLES
    problem, allowFreeTypeVariables, cs, bestScore, solutions, scopes, steps, pc, result,
    expr,           \* the expression being shrunk
    domains,        \* each OverloadSetRefExpr's current decls (OSR->getDecls())
    shrunkExprs,    \* shrink's shrunkExprs set
    next,           \* the index of the candidate being solved
    outcome,        \* history: per candidate "bailed", "failed" or "solved"
    phase           \* "start", "loop", "solving" or "done"

solverVars == <<problem, allowFreeTypeVariables, cs, bestScore, solutions, scopes, steps, pc, result>>
shrinkVars == <<expr, domains, shrunkExprs, next, outcome, phase>>
vars == <<solverVars, shrinkVars>>

OverloadSet(o, ds) == Disjunction(o, [i \in DOMAIN ds |-> BindOverload(o, ds[i])])

(* The constraints generateConstraints gives for l under domains d.       *)
Generate(l, d) ==
    [i \in DOMAIN l |-> IF l[i].kind = "OSR" THEN OverloadSet(l[i].first, d[l[i].first]) ELSE l[i]]

(* The overload sets of a candidate's sub-expression.                       *)
OSRsOf(l) == {l[i].first : i \in {i \in DOMAIN l : l[i].kind = "OSR"}}

Candidate == expr.candidates[next]

(* The non-empty lists of distinct decls drawn from a set.                *)
Sublists(D) == UNION {SetToSeqs(S) : S \in SUBSET D \ {{}}}

(* Every assignment of domains shrinking can leave e's overload sets with. *)
Shrunk(e) ==
    LET all == UNION {Range(e.original[o]) : o \in DOMAIN e.original}
    IN {d \in [DOMAIN e.original -> Sublists(all)] :
           \A o \in DOMAIN e.original : Range(d[o]) \subseteq Range(e.original[o])}

(* The constraint systems a candidate can be solved with.                  *)
CandidateProblems ==
    UNION {{Generate(c.cons, d) : c \in Range(e.candidates), d \in Shrunk(e)} :
              e \in Expressions}

(* The candidate's fresh constraint system, solved under Allow.            *)
Solver == INSTANCE ConstraintSolver
          WITH Problem <- CandidateProblems,
               FreeTypeVariableBinding <- {"Allow"}

Init ==
    /\ expr \in Expressions
    /\ domains = expr.original
    /\ shrunkExprs = {}
    /\ next = 1
    /\ outcome = <<>>
    /\ phase = "start"
    \* no candidate's constraint system yet
    /\ problem = <<>> /\ allowFreeTypeVariables = "Allow" /\ cs = Solver!InitialSys(<<>>)
    /\ bestScore = {} /\ solutions = <<>> /\ scopes = <<>> /\ steps = <<>>
    /\ pc = "done" /\ result = Solver!Pending

(* TypeCheckerOpts.SolverDisableShrink: shrink returns at once.            *)
ShrinkDisabled ==
    /\ phase = "start"
    /\ phase' = "done"
    /\ UNCHANGED <<solverVars, expr, domains, shrunkExprs, next, outcome>>

(* expr->walk(collector): the candidates and the Domains map are the       *)
(* expression's.                                                            *)
Collect ==
    /\ phase = "start"
    /\ phase' = "loop"
    /\ UNCHANGED <<solverVars, expr, domains, shrunkExprs, next, outcome>>

(* Variant: every overload set of the candidate leaves shrunkExprs.       *)
RestoreErasingAll(d) ==
    LET back == OSRsOf(Candidate.cons) \cap expr.walked
    IN /\ domains' = [o \in DOMAIN d |-> IF o \in back THEN expr.original[o] ELSE d[o]]
       /\ shrunkExprs' = shrunkExprs \ OSRsOf(Candidate.cons)

(* The loop body's restore of the original domains of the overload sets   *)
(* in the candidate that the collector recorded.                           *)
Restore(d) ==
    LET back == OSRsOf(Candidate.cons) \cap expr.walked
    IN /\ domains' = [o \in DOMAIN d |-> IF o \in back THEN expr.original[o] ELSE d[o]]
       /\ shrunkExprs' = shrunkExprs \ back

Advance(o) ==
    /\ outcome' = Append(outcome, o)
    /\ next' = next + 1
    /\ phase' = "loop"

Looping == phase = "loop" /\ next <= Len(expr.candidates)

(* Candidate::solve returns false at once: the sub-expression contains a  *)
(* closure, or the ExpressionTimer finds it too complex given the domains *)
(* shrunk so far (isTooComplexGiven).                                      *)
Bail ==
    /\ Looping /\ (Candidate.closure \/ ~Candidate.genFails)
    /\ Advance("bailed")
    /\ UNCHANGED <<solverVars, expr, domains, shrunkExprs>>

(* Constraint generation fails for the sub-expression: Candidate::solve   *)
(* returns true and the loop restores the domains.                         *)
GenerationFails ==
    /\ Looping /\ ~Candidate.closure /\ Candidate.genFails
    /\ Restore(domains)
    /\ Advance("failed")
    /\ UNCHANGED <<solverVars, expr>>

(* The candidate's solveImpl starts on its fresh constraint system.        *)
StartSolve ==
    /\ Looping /\ ~Candidate.closure /\ ~Candidate.genFails
    /\ LET p == Generate(Candidate.cons, domains) IN
       /\ problem' = p
       /\ allowFreeTypeVariables' = "Allow"
       /\ cs' = Solver!InitialSys(p)
       /\ bestScore' = {} /\ solutions' = <<>> /\ steps' = <<>>
       /\ scopes' = <<Solver!OpenScope(Solver!InitialSys(p))>>
       /\ pc' = "simplify" /\ result' = Solver!Pending
    /\ Solver!Init'
    /\ phase' = "solving"
    /\ UNCHANGED <<expr, domains, shrunkExprs, next, outcome>>

SolverStep ==
    /\ phase = "solving"
    /\ Solver!Next
    /\ UNCHANGED shrinkVars

(* The <<locator, decl>> overload choices of a list of solutions.          *)
AllChoices(sols) == UNION {sols[i].overloads : i \in DOMAIN sols}

(* The decls the solutions chose for the overload set o.                   *)
DomainChoices(sols, o) == {c[2] : c \in {c \in AllChoices(sols) : c[1] = o}}

(* applySolutions: a choice of a generic function leaves every domain as   *)
(* it was; otherwise each overload set whose choices are fewer than its    *)
(* decls gets them (in the SmallSet's order, which the model leaves open)  *)
(* and is recorded as shrunk.                                              *)
ApplySolutions(sols) ==
    LET reduced == {o \in DOMAIN domains : DomainChoices(sols, o) # {} /\
                                           Cardinality(DomainChoices(sols, o)) # Len(domains[o])}
    IN IF \E c \in AllChoices(sols) : c[1] \in OSR /\ c[2] \in GenericDecl
       THEN UNCHANGED <<domains, shrunkExprs>>
       ELSE /\ \E order \in [reduced -> UNION {SetToSeqs(DomainChoices(sols, o)) : o \in reduced}] :
                  /\ \A o \in reduced : order[o] \in SetToSeqs(DomainChoices(sols, o))
                  /\ domains' = [o \in DOMAIN domains |->
                                    IF o \in reduced THEN order[o] ELSE domains[o]]
            /\ shrunkExprs' = shrunkExprs \cup reduced

(* Variant: a candidate without solutions leaves the domains as they are. *)
SolveDoneWithoutRestore ==
    /\ phase = "solving" /\ pc = "done"
    /\ IF solutions = <<>>
       THEN UNCHANGED <<domains, shrunkExprs>> /\ Advance("failed")
       ELSE ApplySolutions(solutions) /\ Advance("solved")
    /\ UNCHANGED <<solverVars, expr>>

(* The candidate's solveImpl has returned: its solutions are applied, and *)
(* when there are none Candidate::solve returns true and the loop         *)
(* restores the domains.                                                   *)
SolveDone ==
    /\ phase = "solving" /\ pc = "done"
    /\ IF solutions = <<>>
       THEN Restore(domains) /\ Advance("failed")
       ELSE ApplySolutions(solutions) /\ Advance("solved")
    /\ UNCHANGED <<solverVars, expr>>

(* Every candidate has been visited.                                       *)
LoopDone ==
    /\ phase = "loop" /\ next > Len(expr.candidates)
    /\ phase' = "done"
    /\ UNCHANGED <<solverVars, expr, domains, shrunkExprs, next, outcome>>

Next ==
    \/ ShrinkDisabled
    \/ Collect
    \/ Bail
    \/ GenerationFails
    \/ StartSolve
    \/ SolverStep
    \/ SolveDone
    \/ LoopDone

(* shrink runs on one thread to completion: weak fairness of Next, with   *)
(* ENABLED <<Next>>_vars written out as the union of the actions' guards, *)
(* which cover every phase but "done" (in "loop" Bail, GenerationFails or *)
(* LoopDone, in "solving" SolverStep or SolveDone).                        *)
CanStep == phase # "done"
Fairness == <>[]CanStep => []<><<Next>>_vars

Spec == Init /\ [][Next]_vars /\ Fairness

-----------------------------------------------------------------------------
(* What solveForCodeCompletion solves after shrinking: the whole          *)
(* expression under the Disallow policy.                                   *)
Full == INSTANCE SolverSpec
        WITH Problem <- {}, problem <- <<>>, allowFreeTypeVariables <- "Disallow",
             result <- [kind |-> "Pending", best |-> {}]

FullSolutions(d) == Full!ValidSolutions(Generate(expr.full, d))

(* Every domain is a list of distinct decls of the overload set's own     *)
(* original domain.                                                        *)
TypeOK ==
    /\ phase \in {"start", "loop", "solving", "done"}
    /\ DOMAIN domains = DOMAIN expr.original
    /\ \A o \in DOMAIN domains : /\ IsInjective(domains[o])
                                 /\ Range(domains[o]) \subseteq Range(expr.original[o])
    /\ shrunkExprs \subseteq DOMAIN domains
    /\ next \in 1..Len(expr.candidates) + 1
    /\ outcome \in Seq({"bailed", "failed", "solved"})

(* applySolutions allocates every reduced domain in the primary          *)
(* constraint system's allocator and records its overload set in         *)
(* shrunkExprs, which the end of shrink re-allocates in the permanent     *)
(* ASTContext arena: a domain that differs from the original but is not  *)
(* in shrunkExprs is left pointing into the allocator that is freed with  *)
(* the primary constraint system.                                          *)
ReducedDomainsRecorded ==
    \A o \in DOMAIN domains : domains[o] # expr.original[o] => o \in shrunkExprs

(* When every overload set was recorded by the collector and the whole    *)
(* expression was itself solved as the last candidate, shrinking never   *)
(* turns an expression that has a solution into one without: either the  *)
(* last candidate's solutions are kept, or its failure restores all.     *)
NetKeepsSolvable ==
    (/\ phase = "done" /\ expr.primaryLast /\ expr.walked = DOMAIN expr.original
     /\ Len(outcome) = Len(expr.candidates) /\ Last(outcome) # "bailed"
     /\ FullSolutions(expr.original) # {})
    => FullSolutions(domains) # {}

(* spec.md: pruning never removes an overload choice that participates in *)
(* a best solution of the whole expression.                                *)
PruningSound ==
    phase = "done" =>
        \A s \in Full!BestSolutions(FullSolutions(expr.original)) :
            \A c \in s.overloads : c[1] \in DOMAIN domains => c[2] \in Range(domains[c[1]])
=============================================================================
