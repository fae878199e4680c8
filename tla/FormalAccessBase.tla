---------------------------- MODULE FormalAccessBase ----------------------------
(***************************************************************************)
(* The MemAccessUtils helpers (CompilerInvocation.cpp) that find the root *)
(* of an address and decide whether the storage it denotes can be the     *)
(* base of a formal access that exclusivity enforcement must check:       *)
(* getAddressAccess, getAccessedAddress, isLetAddress, isScratchBuffer,   *)
(* isAddressForLocalInitOnly, checkSwitchEnumBlockArg,                    *)
(* AccessedStorage::getDecl, AccessedStorage::isLetAccess and             *)
(* isPossibleFormalAccessBase.                                             *)
(*                                                                         *)
(* An address is a use-def chain w: w.path[i] is "proj" for an access     *)
(* projection (struct_element_addr, tuple_element_addr, index_addr ...)   *)
(* or "access" for a begin_access, each derived from the value after it, *)
(* and w.root the value the chain ends in, [inst, type, decl, globalLet,  *)
(* isAddr, switchEnumPred]: the instruction that defines it, its type     *)
(* ("UnsafeValueBuffer" or "other"), the declaration it carries (NoDecl,  *)
(* or [isLet] for a VarDecl: an alloc_stack's or alloc_box's variable, a *)
(* global's, a ref_element_addr's field, an argument's parameter), the   *)
(* SILGlobalVariable's let flag, and for a block argument whether it has  *)
(* address type and whether its single predecessor ends in switch_enum.   *)
(* Values are named by their index along the chain, the root last.       *)
(***************************************************************************)
EXTENDS Naturals, Sequences

CONSTANTS
    NoDecl,         \* a null ValueDecl
    Unreachable     \* a failed assert or llvm_unreachable

Root(w) == Len(w.path) + 1

Def(w, i) == IF i = Root(w) THEN w.root.inst ELSE w.path[i]

(* AccessProjection(v) is valid: v projects an address from its operand. *)
IsAccessProjection(w, i) == Def(w, i) = "proj"

(* Variant: the projections are stripped once, then the markers once.     *)
RECURSIVE GetAddressAccess(_, _)
RECURSIVE StripAccessMarkers(_, _)
GetAccessedAddressOnePass(w, i) == StripAccessMarkers(w, GetAddressAccess(w, i))

(* getAddressAccess: follow access projections to their base address.    *)
GetAddressAccess(w, i) ==
    IF IsAccessProjection(w, i) THEN GetAddressAccess(w, i + 1) ELSE i

StripAccessMarkers(w, i) ==
    IF Def(w, i) = "access" THEN StripAccessMarkers(w, i + 1) ELSE i

(* getAccessedAddress: strip projections and then markers until neither   *)
(* changes the value.                                                       *)
RECURSIVE GetAccessedAddress(_, _)
GetAccessedAddress(w, i) ==
    LET v2 == StripAccessMarkers(w, GetAddressAccess(w, i))
    IN IF v2 = i THEN i ELSE GetAccessedAddress(w, v2)

IsVarDecl(d) == d # NoDecl

(* isLetAddress on an accessed address: a let field of a class, or a      *)
(* global whose declaration is a let.                                      *)
IsLetAddress(w, i) ==
    /\ Def(w, i) \in {"refElementAddr", "globalAddr"}
    /\ IsVarDecl(w.root.decl)
    /\ w.root.decl.isLet

(* isScratchBuffer: the value has type Builtin.UnsafeValueBuffer.         *)
IsScratchBuffer(v) == v.type = "UnsafeValueBuffer"

(* isAddressForLocalInitOnly: value-to-address conversions and producers *)
(* that only initialize locally.                                           *)
IsAddressForLocalInitOnly(v) ==
    v.inst \in {"openExistentialBox", "projectExistentialBox", "initEnumDataAddr",
                "initExistentialAddr", "allocExistentialBox", "allocValueBuffer",
                "projectValueBuffer"}

(* checkSwitchEnumBlockArg: the base is a box-typed block argument whose *)
(* single predecessor ends in switch_enum; anything else is unreachable. *)
CheckSwitchEnumBlockArg(v) == ~v.isAddr /\ v.switchEnumPred

(* Variant: a class property has no declaration, like tail storage.       *)
GetDeclIgnoringFields(s) ==
    IF s.kind \in {"Box", "Stack", "Global", "Argument"} THEN s.value.decl ELSE NoDecl

(* AccessedStorage::getDecl: the variable of an alloc_box or alloc_stack, *)
(* the global's declaration, the class field, the argument's parameter;   *)
(* none for tail, yield, nested and unidentified storage.                  *)
GetDecl(s) ==
    IF s.kind \in {"Box", "Stack", "Global", "Class", "Argument"} THEN s.value.decl ELSE NoDecl

(* AccessedStorage::isLetAccess: the VarDecl's let-ness, or for a global  *)
(* without one the SILGlobalVariable's flag.                               *)
IsLetAccess(s) ==
    IF IsVarDecl(GetDecl(s)) THEN GetDecl(s).isLet
    ELSE s.kind = "Global" /\ s.value.globalLet

(* isPossibleFormalAccessBase: the storage kinds the caller accesses or  *)
(* that are never formally accessed answer false, as do unidentified      *)
(* local-initialization producers, switch_enum payload boxes, pointer     *)
(* conversions, undef and scratch buffers; what falls through is a base   *)
(* unless it is a let.                                                      *)
IsPossibleFormalAccessBase(s) ==
    LET v == s.value IN
    CASE s.kind = "Nested" -> Unreachable
      [] s.kind \in {"Box", "Stack"} /\ IsScratchBuffer(v) -> FALSE
      [] s.kind \in {"Tail", "Yield", "Argument"} -> FALSE
      [] s.kind = "Unidentified" /\ IsAddressForLocalInitOnly(v) -> FALSE
      [] s.kind = "Unidentified" /\ v.inst = "phi" ->
            IF CheckSwitchEnumBlockArg(v) THEN FALSE ELSE Unreachable
      [] s.kind = "Unidentified" /\ v.inst \in {"pointerToAddress", "undef"} -> FALSE
      [] s.kind = "Unidentified" /\ IsScratchBuffer(v) -> FALSE
      [] OTHER -> ~IsLetAccess(s)
=============================================================================
