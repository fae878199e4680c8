---------------------------- MODULE MC_SolveStages ----------------------------
(***************************************************************************)
(* The type checker solves its targets one after another, each in a      *)
(* constraint system of its own with its own options, all reporting to   *)
(* one DiagnosticEngine: an error of an earlier target is seen by         *)
(* hadAnyError() when a later one fails.                                   *)
(***************************************************************************)
EXTENDS SolveStages

CONSTANT Targets    \* how many targets are solved in turn

VARIABLE solved     \* how many targets have been solved

mcVars == <<vars, solved>>

MCInit == Init /\ solved = 0

(* The current target's solve has returned: the next one starts with     *)
(* fresh options and a fresh loop, and the diagnostics so far.            *)
NextTarget ==
    /\ result # Pending /\ solved + 1 < Targets
    /\ solved' = solved + 1
    /\ options' \in SUBSET Flags
    /\ stage' = 0 /\ result' = Pending /\ diagnosedBy' = {}
    /\ solution' = [kind |-> "none", n |-> 0, marked |-> FALSE]
    /\ UNCHANGED hadError

MCNext == (Next /\ UNCHANGED solved) \/ NextTarget

MCSpec == MCInit /\ [][MCNext]_mcVars /\ WF_mcVars(MCNext)
=============================================================================
