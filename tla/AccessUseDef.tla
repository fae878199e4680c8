----------------------------- MODULE AccessUseDef -----------------------------
(***************************************************************************)
(* The SIL values an address is derived from, as the use-def chain        *)
(* visitor of MemAccessUtils classifies them, and the identity of the     *)
(* storage a base denotes (AccessedStorage).                              *)
(*                                                                         *)
(* A graph maps each value 1..n to its definition [kind, ops, root]:      *)
(*   "base"    an access base (alloc_stack, global_addr, ref_element_addr *)
(*             ...), root describing it                                  *)
(*   "non"     a value that is not an access (visitNonAccess)             *)
(*   "cast"    an address/pointer conversion of ops[1]                    *)
(*   "path"    an address projection (path component) of ops[1]          *)
(*   "nested"  a begin_access whose source is ops[1]                      *)
(*   "phi"     a block argument whose incoming values are ops             *)
(* Value 1 is the address whose storage is asked for.                     *)
(***************************************************************************)
EXTENDS Naturals, Sequences, FiniteSets

CONSTANT Invalid     \* AccessedStorage(): the invalid storage

Node(g) == DOMAIN g

Kinds == {"base", "non", "cast", "path", "nested", "phi"}

(* AccessedStorage::AccessedStorage(base, kind): a global is identified   *)
(* by the global variable, a class property by the object it is projected *)
(* from and the field, a tail address by the object; every other kind by  *)
(* the base value itself.                                                  *)
AccessedStorageOf(g, v) ==
    LET r == g[v].root IN
    CASE r.kind = "Global" -> [kind |-> "Global", id |-> r.global]
      [] r.kind = "Class"  -> [kind |-> "Class", id |-> <<r.object, r.field>>]
      [] r.kind = "Tail"   -> [kind |-> "Tail", id |-> r.object]
      [] OTHER             -> [kind |-> r.kind, id |-> v]

(* The use-def edges: a value leads to the values it is derived from.     *)
UseDefEdges(g) ==
    {<<v, w>> \in Node(g) \X Node(g) :
        /\ g[v].kind \in {"cast", "path", "nested", "phi"}
        /\ \E i \in DOMAIN g[v].ops : g[v].ops[i] = w}
=============================================================================
