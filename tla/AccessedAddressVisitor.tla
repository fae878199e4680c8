----------------------- MODULE AccessedAddressVisitor -----------------------
(***************************************************************************)
(* swift::visitAccessedAddress and its helpers visitApplyAccesses and     *)
(* visitBuiltinAddress (CompilerInvocation.cpp, MemAccessUtils part): the *)
(* operands through which an instruction that may read or write memory    *)
(* accesses a SIL address, in the order the visitor is called on them.   *)
(*                                                                         *)
(* An instruction is a record of its kind, its operands and, for a        *)
(* builtin, its builtin kind and intrinsic.  An operand is a record: is   *)
(* its value of address type, is it a @noescape function, and the         *)
(* partial_apply closures findClosuresForFunctionValue finds for it.  A   *)
(* visited operand is named <<owner, index>>, owner "I" for the           *)
(* instruction itself or the partial_apply whose argument it is.          *)
(***************************************************************************)
EXTENDS Naturals, Sequences, SequencesExt

CONSTANTS
    Closures,       \* partial_apply -> its argument operands
    Unreachable     \* llvm_unreachable

G == INSTANCE Graphs

(* visitApplyAccesses over the argument operands args of owner, from the *)
(* i-th on: an address-type argument is visited; a @noescape function    *)
(* argument has the arguments of each of its closures visited,           *)
(* recursively; any other argument is skipped.                             *)
RECURSIVE VisitArgs(_, _, _), VisitClosures(_)

VisitClosures(pas) ==
    IF pas = <<>> THEN <<>>
    ELSE VisitArgs(Head(pas), Closures[Head(pas)], 1) \o VisitClosures(Tail(pas))

(* Mutant: closures passed as arguments are not looked into.              *)
VisitArgsNotRecursing(owner, args, i) ==
    SelectSeq([j \in 1..Len(args) |-> <<owner, j>>], LAMBDA o : args[o[2]].isAddr)

VisitArgs(owner, args, i) ==
    IF i > Len(args) THEN <<>>
    ELSE LET a == args[i]
             here == CASE a.isAddr -> <<<<owner, i>>>>
                       [] a.noescape -> VisitClosures(a.closures)
                       [] OTHER -> <<>>
         IN  here \o VisitArgs(owner, args, i + 1)

VisitApplyAccesses(owner, args) == VisitArgs(owner, args, 1)

(* visitBuiltinAddress: every builtin kind it knows touches memory only  *)
(* through a RawPointer, or not at all, and visits nothing; an unknown   *)
(* builtin kind is unreachable.  An LLVM intrinsic visits nothing, and    *)
(* an instruction that is neither is unreachable.                          *)
KnownBuiltins == {"WillThrow", "nonAccess", "atomic", "array"}

VisitBuiltinAddress(I) ==
    CASE I.builtin \in KnownBuiltins -> <<>>
      [] I.builtin # "none" -> Unreachable
      [] I.intrinsic # "none" -> <<>>
      [] OTHER -> Unreachable

(* The fixed operands the switch of visitAccessedAddress visits, by kind *)
(* (1 is Src and 2 is Dest of assign, copy_addr, store and                *)
(* checked_cast_addr_br).                                                  *)
AccessedOperands ==
    [assign |-> <<2>>, assignByWrapper |-> <<2>>, checkedCastAddrBranch |-> <<1, 2>>,
     copyAddr |-> <<1, 2>>, store |-> <<2>>, storeBorrow |-> <<2>>, storeWeak |-> <<2>>,
     selectEnumAddr |-> <<1>>]

(* The kinds with a single non-type-dependent operand, visited if it is  *)
(* an address (unconditional_checked_cast may cast a value).              *)
SingleOperandKinds ==
    {"load", "loadBorrow", "loadWeak", "initExistentialAddr", "injectEnumAddr",
     "openExistentialAddr", "switchEnumAddr", "uncheckedTakeEnumDataAddr",
     "unconditionalCheckedCast"}

(* The full apply sites FullApplySite::isa recognizes: apply, begin_apply *)
(* and try_apply (the BeginApplyInst case of the switch is never reached). *)
FullApplyKinds == {"apply", "beginApply", "tryApply"}

(* Kinds with memory side effects that do not themselves access formal   *)
(* memory (a representative part of the list).                            *)
NonAccessKinds ==
    {"beginAccess", "endAccess", "destroyAddr", "partialApply", "yield",
     "keyPath", "uncheckedRefCastAddr", "unconditionalCheckedCastAddr", "copyValue"}

VisitAccessedAddress(I) ==
    CASE I.kind \in {"refCounting", "deallocation"} -> <<>>
      [] I.kind \in FullApplyKinds -> VisitApplyAccesses("I", I.operands)
      [] I.kind = "builtin" -> VisitBuiltinAddress(I)
      [] I.kind \in DOMAIN AccessedOperands ->
             [k \in DOMAIN AccessedOperands[I.kind] |-> <<"I", AccessedOperands[I.kind][k]>>]
      [] I.kind \in SingleOperandKinds ->
             IF I.operands[1].isAddr THEN <<<<"I", 1>>>> ELSE <<>>
      [] I.kind \in NonAccessKinds -> <<>>
      [] OTHER -> Unreachable
-----------------------------------------------------------------------------
(* Reference definitions.                                                  *)

(* The operand named o.                                                    *)
OperandOf(I, o) == IF o[1] = "I" THEN I.operands[o[2]] ELSE Closures[o[1]][o[2]]

(* The call graph of closures: the apply and every partial_apply, with an *)
(* edge to each closure passed to it as a @noescape function.            *)
CaptureGraph(I) ==
    LET args(n) == IF n = "I" THEN I.operands ELSE Closures[n]
        nodes == {"I"} \cup DOMAIN Closures
    IN  [node |-> nodes,
         edge |-> {<<n, c>> \in nodes \X DOMAIN Closures :
                      \E j \in 1..Len(args(n)) :
                          ~args(n)[j].isAddr /\ args(n)[j].noescape
                          /\ c \in ToSet(args(n)[j].closures)}]

(* The address operands accessed at a call site: its own address-type    *)
(* arguments and those of every closure reachable through @noescape      *)
(* arguments.                                                              *)
CallSiteAccesses(I) ==
    LET reach == {"I"} \cup G!Descendants(CaptureGraph(I), "I")
        args(n) == IF n = "I" THEN I.operands ELSE Closures[n]
    IN  UNION {{<<n, j>> : j \in {j \in 1..Len(args(n)) : args(n)[j].isAddr}} : n \in reach}
=============================================================================
