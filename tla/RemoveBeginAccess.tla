------------------------- MODULE RemoveBeginAccess -------------------------
(***************************************************************************)
(* swift::removeBeginAccess (CompilerInvocation.cpp, MemAccessUtils part): *)
(* while the begin_access has uses, take the first one; erase it if its   *)
(* user is an end_access, otherwise set it to the begin_access's source;  *)
(* then erase the begin_access.  The loop rewrites the use list it walks, *)
(* and the order of a use list is not specified, so every order is        *)
(* explored.                                                               *)
(*                                                                         *)
(* An operand is a use of a value by a user instruction.  The values told *)
(* apart are the begin_access ("access"), its source ("source", itself    *)
(* possibly an outer begin_access with end_accesses of its own) and any   *)
(* other value.  Erasing an instruction drops its operands from every use *)
(* list.                                                                    *)
(***************************************************************************)
CONSTANTS
    UseGraphs,      \* the operand graphs the function may be called on
    EndAccesses     \* the users that are end_access instructions

VARIABLES
    operands,       \* operand -> [user, value]: what each operand uses now
    erased,         \* the users erased so far
    accessErased,   \* the begin_access itself has been erased
    original        \* the operand graph at the call

vars == <<operands, erased, accessErased, original>>

Values == {"access", "source", "other"}

(* The live uses of value v: its operands whose user is not erased.       *)
UsesOf(v) == {o \in DOMAIN operands : operands[o].user \notin erased /\ operands[o].value = v}

Init ==
    /\ operands \in UseGraphs
    /\ original = operands
    /\ erased = {}
    /\ accessErased = FALSE

(* Mutant: every use is forwarded, end_access users included.            *)
ForwardEveryUse(op) ==
    /\ operands' = [operands EXCEPT ![op].value = "source"]
    /\ UNCHANGED erased

(* The loop body for the first use op: an end_access user is erased       *)
(* (which removes op from the list), any other use is set to the source. *)
VisitUse(op) ==
    IF operands[op].user \in EndAccesses
    THEN /\ erased' = erased \cup {operands[op].user}
         /\ UNCHANGED operands
    ELSE /\ operands' = [operands EXCEPT ![op].value = "source"]
         /\ UNCHANGED erased

(* One iteration of the while loop: use_begin may be any use.             *)
RemoveUse ==
    /\ ~accessErased
    /\ \E op \in UsesOf("access") : VisitUse(op)
    /\ UNCHANGED <<accessErased, original>>

(* The loop exits once use_empty, and the begin_access is erased.         *)
EraseBeginAccess ==
    /\ ~accessErased
    /\ UsesOf("access") = {}
    /\ accessErased' = TRUE
    /\ UNCHANGED <<operands, erased, original>>

Next == RemoveUse \/ EraseBeginAccess

Spec == Init /\ [][Next]_vars
-----------------------------------------------------------------------------
TypeOK ==
    /\ DOMAIN operands = DOMAIN original
    /\ \A o \in DOMAIN operands : operands[o].user = original[o].user /\ operands[o].value \in Values
    /\ erased \subseteq EndAccesses
    /\ accessErased \in BOOLEAN

(* When removeBeginAccess returns, the end_access instructions of this   *)
(* begin_access, and only those (not those of an outer access that is its *)
(* source), are erased; every other use of it now uses the source; and   *)
(* every other operand is untouched, whatever order the use list had.    *)
RemovalComplete ==
    accessErased =>
        /\ erased = {original[o].user : o \in {o \in DOMAIN original :
                         original[o].value = "access" /\ original[o].user \in EndAccesses}}
        /\ \A o \in DOMAIN original :
               original[o].user \notin EndAccesses =>
                   operands[o].value = IF original[o].value = "access" THEN "source"
                                       ELSE original[o].value
=============================================================================
