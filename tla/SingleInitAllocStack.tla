------------------------- MODULE SingleInitAllocStack -------------------------
(***************************************************************************)
(* isSingleInitAllocStack and memInstMustInitialize (MemAccessUtils, in   *)
(* CompilerInvocation.cpp): whether an alloc_stack is initialized at most *)
(* once, in its own block, and otherwise only read, borrowed, destroyed   *)
(* or deallocated, collecting its destroy_addr uses for the caller.       *)
(*                                                                         *)
(* The alloc_stack's uses form a tree: stack is [kids], each use is       *)
(* [user, dest, init, sameBlock, kids]: user the kind of the using        *)
(* instruction, dest whether the address is a copy_addr's destination,   *)
(* init its [init] qualifier (for a load, its [take] qualifier), sameBlock *)
(* whether it is in the alloc_stack's block, kids the uses of its        *)
(* results (for an address projection or open_existential_addr).         *)
(* A use is named by its path from the alloc_stack.                        *)
(***************************************************************************)
EXTENDS Naturals, Sequences, FiniteSets

CONSTANTS
    Pending,        \* the function has not returned
    Stacks          \* the alloc_stacks, with their use trees, to check

VARIABLES
    stack,          \* the alloc_stack's use tree
    worklist,       \* SmallVector worklist of uses, popped from the back
    foundInit,      \* foundInit
    destroyingUses, \* the caller's destroyingUses vector
    result          \* the return value, Pending while the loop runs

vars == <<stack, worklist, foundInit, destroyingUses, result>>

RECURSIVE UseAt(_, _)
UseAt(t, p) == IF p = <<>> THEN t ELSE UseAt(t.kids[Head(p)], Tail(p))

Use(p) == UseAt(stack, p)

(* The uses of the results of the user at p (or of the alloc_stack), in   *)
(* use-list order.                                                          *)
UsesOf(p) == [i \in DOMAIN UseAt(stack, p).kids |-> Append(p, i)]

Projections == {"structElementAddr", "tupleElementAddr", "openExistentialAddr"}

(* Variant: a copy_addr initializes whichever operand the address is.    *)
MemInstMustInitializeAnyOperand(p) ==
    CASE Use(p).user = "copyAddr" -> Use(p).init
      [] Use(p).user \in {"initExistentialAddr", "initEnumDataAddr", "injectEnumAddr"} -> TRUE
      [] Use(p).user \in {"store", "storeWeak"} -> Use(p).init
      [] OTHER -> FALSE

(* memInstMustInitialize: a copy_addr [init] into the address, a store    *)
(* [init] or store_weak [init], or an instruction that initializes an    *)
(* existential or enum payload in place.                                  *)
MemInstMustInitialize(p) ==
    CASE Use(p).user = "copyAddr" -> Use(p).dest /\ Use(p).init
      [] Use(p).user \in {"initExistentialAddr", "initEnumDataAddr", "injectEnumAddr"} -> TRUE
      [] Use(p).user \in {"store", "storeWeak"} -> Use(p).init
      [] OTHER -> FALSE

Init ==
    /\ stack \in Stacks
    /\ worklist = UsesOf(<<>>)
    /\ foundInit = FALSE
    /\ destroyingUses = <<>>
    /\ result = Pending

(* One iteration of the loop, on the use popped from the worklist.        *)
Popped == worklist[Len(worklist)]
Pop == SubSeq(worklist, 1, Len(worklist) - 1)

Running == result = Pending /\ worklist # <<>>

Return(b) == result' = b /\ UNCHANGED <<worklist, foundInit, destroyingUses>>

(* An address projection or open_existential_addr: its results' uses are *)
(* appended to the worklist.                                               *)
LookThrough ==
    /\ Running /\ Use(Popped).user \in Projections
    /\ worklist' = Pop \o UsesOf(Popped)
    /\ UNCHANGED <<stack, foundInit, destroyingUses, result>>

(* A load: a copy is skipped, a load [take] counts as a write.           *)
VisitLoad ==
    /\ Running /\ Use(Popped).user = "load"
    /\ IF Use(Popped).init
       THEN Return(FALSE)
       ELSE worklist' = Pop /\ UNCHANGED <<foundInit, destroyingUses, result>>
    /\ UNCHANGED stack

(* Variant: a destroy_addr is let through without being recorded.        *)
VisitDestroyUnrecorded ==
    /\ Running /\ Use(Popped).user = "destroyAddr"
    /\ worklist' = Pop
    /\ UNCHANGED <<stack, foundInit, destroyingUses, result>>

(* A destroy_addr is recorded for the caller.                              *)
VisitDestroy ==
    /\ Running /\ Use(Popped).user = "destroyAddr"
    /\ destroyingUses' = Append(destroyingUses, Popped)
    /\ worklist' = Pop
    /\ UNCHANGED <<stack, foundInit, result>>

(* dealloc_stack, load_borrow and debug_value_addr are allowed.           *)
VisitAllowed ==
    /\ Running /\ Use(Popped).user \in {"deallocStack", "loadBorrow", "debugValueAddr"}
    /\ worklist' = Pop
    /\ UNCHANGED <<stack, foundInit, destroyingUses, result>>

Other(p) ==
    Use(p).user \notin Projections \cup {"load", "destroyAddr", "deallocStack",
                                         "loadBorrow", "debugValueAddr"}

(* An initialization: it must be the first, and in the alloc_stack's     *)
(* block.                                                                  *)
VisitInit ==
    /\ Running /\ Other(Popped) /\ MemInstMustInitialize(Popped)
    /\ IF ~Use(Popped).sameBlock \/ foundInit
       THEN Return(FALSE)
       ELSE /\ foundInit' = TRUE /\ worklist' = Pop
            /\ UNCHANGED <<destroyingUses, result>>
    /\ UNCHANGED stack

(* Any other use is not understood.                                        *)
VisitUnknown ==
    /\ Running /\ Other(Popped) /\ ~MemInstMustInitialize(Popped)
    /\ Return(FALSE)
    /\ UNCHANGED stack

(* The worklist is exhausted: every use was understood.                   *)
Finish ==
    /\ result = Pending /\ worklist = <<>>
    /\ Return(TRUE)
    /\ UNCHANGED stack

Next ==
    \/ LookThrough \/ VisitLoad \/ VisitDestroy \/ VisitAllowed
    \/ VisitInit \/ VisitUnknown \/ Finish

(* The function is a plain loop.                                           *)
Spec == Init /\ [][Next]_vars /\ WF_vars(Next)
-----------------------------------------------------------------------------
RECURSIVE PathsUnder(_, _)
PathsUnder(t, p) == UNION {{Append(p, i)} \cup PathsUnder(t.kids[i], Append(p, i)) : i \in DOMAIN t.kids}

(* The uses of the alloc_stack, directly or through projections.          *)
AllUses == PathsUnder(stack, <<>>)

TypeOK ==
    /\ \A i \in DOMAIN worklist : worklist[i] \in AllUses
    /\ \A i \in DOMAIN destroyingUses : Use(destroyingUses[i]).user = "destroyAddr"
    /\ foundInit \in BOOLEAN
    /\ result \in {Pending, TRUE, FALSE}

(* The memory is written with a fresh value: as the destination of a    *)
(* copy_addr [init], by a store [init] or store_weak [init], or by        *)
(* initializing an existential or enum payload in place.                  *)
Initializes(p) ==
    \/ Use(p).user = "copyAddr" /\ Use(p).dest /\ Use(p).init
    \/ Use(p).user \in {"store", "storeWeak"} /\ Use(p).init
    \/ Use(p).user \in {"initExistentialAddr", "initEnumDataAddr", "injectEnumAddr"}

(* What the function decides: an alloc_stack is single-init when, among *)
(* all its uses through projections, at most one initializes it, that    *)
(* one is in its block, nothing takes its value, and every other use only *)
(* reads, borrows, destroys, deallocates or describes it.                 *)
SingleInit ==
    /\ Cardinality({p \in AllUses : Initializes(p)}) <= 1
    /\ \A p \in AllUses :
          \/ Use(p).user \in Projections \cup {"destroyAddr", "deallocStack", "loadBorrow",
                                              "debugValueAddr"}
          \/ Use(p).user = "load" /\ ~Use(p).init
          \/ Initializes(p) /\ Use(p).sameBlock

(* isSingleInitAllocStack returns exactly that, whatever order the      *)
(* worklist visits the uses in and wherever an early return cuts it off.  *)
SingleInitDecided == result # Pending => result = SingleInit

(* When it returns true, destroyingUses holds every destroy_addr of the  *)
(* alloc_stack, through projections too, each once.                       *)
DestroysCollected ==
    result = TRUE =>
        /\ {destroyingUses[i] : i \in DOMAIN destroyingUses}
              = {p \in AllUses : Use(p).user = "destroyAddr"}
        /\ Len(destroyingUses) = Cardinality({p \in AllUses : Use(p).user = "destroyAddr"})
=============================================================================
