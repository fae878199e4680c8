------------------------------ MODULE SolveStages ------------------------------
(***************************************************************************)
(* ConstraintSystem::solve(target) (CSSolver.cpp, src/unnamed/part_000):  *)
(* up to two attempts at solving, the first with solveImpl on a system    *)
(* expected to be well-formed, the second with salvage, which re-solves   *)
(* recording fixes and tries to diagnose; each attempt's SolutionResult   *)
(* is then returned, diagnosed, or retried.                                *)
(*                                                                         *)
(* What the solver finds is abstracted to counts: the solutions of the    *)
(* first attempt, the viable solutions of salvage and how many of them    *)
(* need fixes, and what the diagnosing helpers decide.  Of diagnostics   *)
(* the model keeps which routines reported errors for the target         *)
(* (diagnosedBy) and the DiagnosticEngine's hadAnyError() (hadError),     *)
(* which earlier expressions may already have set.                        *)
(***************************************************************************)
EXTENDS Naturals, FiniteSets

CONSTANTS
    Pending,        \* solve has not returned
    None,           \* the empty Optional: solving failed
    MaxSolutions    \* bound on the solutions an attempt finds

VARIABLES
    options,        \* ConstraintSystemOptions: a subset of the two flags below
    stage,          \* the loop's stage: 0 solveImpl, 1 salvage, 2 past the loop
    result,         \* Pending, None, or the number of solutions returned
    diagnosedBy,    \* the routines that reported errors for the target
    hadError,       \* Diags.hadAnyError()
    solution        \* the attempt's SolutionResult, with its markAsDiagnosed flag

vars == <<options, stage, result, diagnosedBy, hadError, solution>>

Flags == {"SuppressDiagnostics", "AllowUnresolvedTypeVariables"}

ShouldSuppressDiagnostics == "SuppressDiagnostics" \in options

(* A SolutionResult: its kind and, for success or ambiguity, the number  *)
(* of solutions.                                                           *)
SR(kind, n) == [kind |-> kind, n |-> n]

(* Routine by reports an error for the target, after the routines d and *)
(* the hadAnyError() h the attempt left.                                  *)
Diagnose(by, d, h) == diagnosedBy' = d \cup {by} /\ hadError' = TRUE

NoDiagnostic(d, h) == diagnosedBy' = d /\ hadError' = h

(* maybeProduceFallbackDiagnostic: a fallback error unless diagnostics   *)
(* are suppressed or an error was already emitted or delayed: h stands    *)
(* for hadAnyError() || hasDelayedConformanceErrors(), as a delayed        *)
(* conformance error is one that will be emitted.                          *)
MaybeProduceFallbackDiagnostic(d, h) ==
    IF ShouldSuppressDiagnostics \/ h THEN NoDiagnostic(d, h) ELSE Diagnose("fallback", d, h)

(* diagnoseFailureFor: one error (cannot_infer_closure_type,              *)
(* type_of_expression_is_ambiguous, or a fallback), with at most a note.  *)
DiagnoseFailureFor(d, h) == Diagnose("failureFor", d, h)

(* The attempt's result r is kept, marked diagnosed (m) or not.           *)
Keep(r, m) == solution' = [kind |-> r.kind, n |-> r.n, marked |-> m]

Return(x) == result' = x /\ stage' = stage

Continue == stage' = stage + 1 /\ result' = result

(* Variant: an undiagnosed error is retried whatever the stage.           *)
HandleRetryingUndiagnosed(r, d, h) ==
    CASE r.kind = "Success" -> Return(1) /\ NoDiagnostic(d, h) /\ Keep(r, FALSE)
      [] r.kind = "Error" -> Return(None) /\ MaybeProduceFallbackDiagnostic(d, h) /\ Keep(r, FALSE)
      [] r.kind = "TooComplex" -> Return(None) /\ Diagnose("tooComplex", d, h) /\ Keep(r, TRUE)
      [] r.kind = "Ambiguous" /\ stage = 1 -> Return(None) /\ NoDiagnostic(d, h) /\ Keep(r, TRUE)
      [] r.kind = "Ambiguous" /\ "AllowUnresolvedTypeVariables" \in options ->
            Return(r.n) /\ NoDiagnostic(d, h) /\ Keep(r, FALSE)
      [] ShouldSuppressDiagnostics -> Return(None) /\ NoDiagnostic(d, h) /\ Keep(r, TRUE)
      [] OTHER -> Continue /\ NoDiagnostic(d, h) /\ Keep(r, TRUE)

(* The switch on the attempt's result r: a solution is returned; an      *)
(* error gets a fallback diagnostic; too complex is diagnosed; an         *)
(* ambiguity from salvage was diagnosed by it, one from the first attempt *)
(* is returned when unresolved type variables are allowed and otherwise,  *)
(* like an undiagnosed error, retried by salvaging unless diagnostics are *)
(* suppressed; after salvage an undiagnosed error gets diagnoseFailureFor. *)
Handle(r, d, h) ==
    CASE r.kind = "Success" -> Return(1) /\ NoDiagnostic(d, h) /\ Keep(r, FALSE)
      [] r.kind = "Error" -> Return(None) /\ MaybeProduceFallbackDiagnostic(d, h) /\ Keep(r, FALSE)
      [] r.kind = "TooComplex" -> Return(None) /\ Diagnose("tooComplex", d, h) /\ Keep(r, TRUE)
      [] r.kind = "Ambiguous" /\ stage = 1 -> Return(None) /\ NoDiagnostic(d, h) /\ Keep(r, TRUE)
      [] r.kind = "Ambiguous" /\ "AllowUnresolvedTypeVariables" \in options ->
            Return(r.n) /\ NoDiagnostic(d, h) /\ Keep(r, FALSE)
      [] ShouldSuppressDiagnostics -> Return(None) /\ NoDiagnostic(d, h) /\ Keep(r, TRUE)
      [] stage = 1 -> Return(None) /\ DiagnoseFailureFor(d, h) /\ Keep(r, TRUE)
      [] OTHER -> Continue /\ NoDiagnostic(d, h) /\ Keep(r, TRUE)

Init ==
    /\ options \in SUBSET Flags
    /\ stage = 0
    /\ result = Pending
    /\ diagnosedBy = {}
    /\ hadError \in BOOLEAN
    /\ solution = [kind |-> "none", n |-> 0, marked |-> FALSE]

(* The classification at the end of solveImpl: n solutions found.        *)
Classify(n) ==
    CASE n = 0 -> SR("UndiagnosedError", 0)
      [] n = 1 -> SR("Success", 1)
      [] OTHER -> SR("Ambiguous", n)

(* Stage 0, solveImpl(target): constraint generation may fail, having    *)
(* diagnosed the failure or not; otherwise solve finds some solutions,   *)
(* unless the expression timer expired first.                              *)
SolveImpl ==
    /\ stage = 0 /\ result = Pending
    /\ \/ \E emits \in BOOLEAN :
             /\ emits => ~ShouldSuppressDiagnostics
             /\ IF emits THEN Handle(SR("Error", 0), {"generate"}, TRUE)
                ELSE Handle(SR("Error", 0), {}, hadError)
       \/ Handle(SR("TooComplex", 0), {}, hadError)
       \/ \E n \in 0..MaxSolutions : Handle(Classify(n), {}, hadError)
    /\ UNCHANGED options
(* findBestSolution: one viable solution is the best; among several there *)
(* may be none better than all the others.                                 *)
FindsBest(v, best) == v = 1 \/ (v > 1 /\ best)

(* Variant: several fix-free solutions are an ambiguity whether or not     *)
(* diagnoseAmbiguity reported one.                                         *)
SalvageAmbiguousUndiagnosed ==
    /\ stage = 1 /\ result = Pending
    /\ \E v, f \in 0..MaxSolutions, withFixes, best, amb, complex \in BOOLEAN :
          /\ f <= v /\ (withFixes => v > 0)
          /\ CASE withFixes -> Handle(SR("Ambiguous", v), diagnosedBy \cup {"ambiguityWithFixes"}, TRUE)
               [] FindsBest(v, best) -> Handle(SR("Success", 1), diagnosedBy, hadError)
               [] v - f > 1 -> Handle(SR("Ambiguous", v - f), diagnosedBy, hadError)
               [] complex -> Handle(SR("TooComplex", 0), diagnosedBy, hadError)
               [] OTHER -> Handle(SR("UndiagnosedError", 0), diagnosedBy, hadError)
    /\ UNCHANGED options

(* Variant: after diagnoseAmbiguity reports, salvage goes on as if it had *)
(* not.                                                                     *)
SalvageFallingThrough ==
    /\ stage = 1 /\ result = Pending
    /\ \E v, f \in 0..MaxSolutions, withFixes, best, amb, complex \in BOOLEAN :
          /\ f <= v /\ (withFixes => v > 0)
          /\ CASE withFixes -> Handle(SR("Ambiguous", v), diagnosedBy \cup {"ambiguityWithFixes"}, TRUE)
               [] FindsBest(v, best) -> Handle(SR("Success", 1), diagnosedBy, hadError)
               [] v - f > 1 /\ amb /\ complex ->
                     Handle(SR("TooComplex", 0), diagnosedBy \cup {"ambiguity"}, TRUE)
               [] v - f > 1 /\ amb ->
                     Handle(SR("UndiagnosedError", 0), diagnosedBy \cup {"ambiguity"}, TRUE)
               [] complex -> Handle(SR("TooComplex", 0), diagnosedBy, hadError)
               [] OTHER -> Handle(SR("UndiagnosedError", 0), diagnosedBy, hadError)
    /\ UNCHANGED options

(* Stage 1, salvage(): solve again recording fixes, with v viable         *)
(* solutions of which f need fixes.  An ambiguity caused by fixes that    *)
(* diagnoseAmbiguityWithFixes reports, or a best solution, is the result; *)
(* otherwise, without the solutions that need fixes, several are an       *)
(* ambiguity if diagnoseAmbiguity reports one; failing that, too complex  *)
(* if the timer expired, else an undiagnosed error.                        *)
Salvage ==
    /\ stage = 1 /\ result = Pending
    /\ \E v, f \in 0..MaxSolutions, withFixes, best, amb, complex \in BOOLEAN :
          /\ f <= v /\ (withFixes => v > 0)
          /\ CASE withFixes -> Handle(SR("Ambiguous", v), diagnosedBy \cup {"ambiguityWithFixes"}, TRUE)
               [] FindsBest(v, best) -> Handle(SR("Success", 1), diagnosedBy, hadError)
               [] v - f > 1 /\ amb ->
                     Handle(SR("Ambiguous", v - f), diagnosedBy \cup {"ambiguity"}, TRUE)
               [] complex -> Handle(SR("TooComplex", 0), diagnosedBy, hadError)
               [] OTHER -> Handle(SR("UndiagnosedError", 0), diagnosedBy, hadError)
    /\ UNCHANGED options

Next == SolveImpl \/ Salvage

(* solve runs to completion on the type checker's thread.                *)
Spec == Init /\ [][Next]_vars /\ WF_vars(Next)
-----------------------------------------------------------------------------
TypeOK ==
    /\ options \subseteq Flags
    /\ stage \in 0..2
    /\ result \in {Pending, None} \cup 1..MaxSolutions
    /\ diagnosedBy \subseteq {"generate", "fallback", "tooComplex", "ambiguityWithFixes",
                              "ambiguity", "failureFor"}
    /\ hadError \in BOOLEAN
    /\ solution.marked \in BOOLEAN

(* A failed solve is never silent: when it returns None and diagnostics  *)
(* are not suppressed, an error has been reported, for this target or    *)
(* before it (maybeProduceFallbackDiagnostic's hadAnyError test); an      *)
(* ambiguity that salvage returns is one it reported.                     *)
ErrorReported ==
    result = None /\ ~ShouldSuppressDiagnostics => hadError

(* No failure is reported twice: at most one of the routines (constraint *)
(* generation, the fallback, too-complex, the two ambiguity diagnoses,   *)
(* diagnoseFailureFor) reports errors for the target.                     *)
DiagnosedByOne == Cardinality(diagnosedBy) <= 1

(* The loop always returns: every solve ends, never falling out of its  *)
(* two stages into the llvm_unreachable after the loop.                  *)
SolveReturns == result = Pending ~> result # Pending
=============================================================================
