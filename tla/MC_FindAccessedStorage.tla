------------------------ MODULE MC_FindAccessedStorage ------------------------
(***************************************************************************)
(* Every use-def graph of at most four values in which every value is     *)
(* derived from the address (value 1), each value after the first being  *)
(* an operand of an earlier one, and in which only phis close cycles (SSA:*)
(* a non-phi value is defined after its operand).  Bases are two globals *)
(* (so that two global_addr of the same global are two bases with one     *)
(* storage) and stack allocations (each its own storage).                 *)
(***************************************************************************)
EXTENDS FindAccessedStorage, Graphs

CONSTANTS G1, G2

MaxValues == 4

NoRoot == [kind |-> "none"]
BaseRoots == {[kind |-> "Global", global |-> G1], [kind |-> "Global", global |-> G2],
          [kind |-> "Stack"]}

Defs(n) ==
    [kind : {"cast", "path", "nested"}, ops : {<<w>> : w \in 1..n}, root : {NoRoot}]
    \cup {[kind |-> "phi", ops |-> <<a, b>>, root |-> NoRoot] : a, b \in 1..n}
    \cup [kind : {"base"}, ops : {<<>>}, root : BaseRoots]
    \cup {[kind |-> "non", ops |-> <<>>, root |-> NoRoot]}

Operands(g, v) == {g[v].ops[i] : i \in DOMAIN g[v].ops}

(* Following casts, projections and begin_access from v reaches another   *)
(* kind of value within n steps: no cycle avoids a phi.                   *)
RECURSIVE ChainEnds(_, _, _)
ChainEnds(g, v, k) ==
    g[v].kind \notin {"cast", "path", "nested"}
    \/ (k > 0 /\ ChainEnds(g, g[v].ops[1], k - 1))

WellFormed(g, n) ==
    /\ \A v \in 2..n : \E u \in 1..(v - 1) : v \in Operands(g, u)
    /\ \A v \in 1..n : g[v].kind = "phi" => g[v].ops[1] < g[v].ops[2]
    /\ \A v \in 1..n : ChainEnds(g, v, n)

AllGraphs ==
    UNION {{g \in [1..n -> Defs(n)] : WellFormed(g, n)} : n \in 1..MaxValues}

(* A begin_access reached from a phi through phis and casts only: the     *)
(* phi visitor forwards it to visitNestedAccess.                           *)
NestedFeedsPhi(g) ==
    LET pointerEdges == {<<v, w>> \in UseDefEdges(g) : g[v].kind \in {"phi", "cast"}}
        c == ConnectionsIn([node |-> Node(g), edge |-> pointerEdges])
    IN \E p, w \in Node(g) : g[p].kind = "phi" /\ g[w].kind = "nested" /\ c[p, w]

PointerPhiGraphs == {g \in AllGraphs : ~NestedFeedsPhi(g)}

(* Soundness (AccessStorageSpec) of what findAccessedStorage reports,    *)
(* for every address in whose use-def graph no begin_access reaches a phi *)
(* through phis and casts: there the phi visitor's merging with          *)
(* setStorage and setDefinition must give the one storage of every base. *)
(* On the other graphs (the run findstorage_nestedphi) the mapping holds *)
(* the abstract result at Pending, which the abstract spec allows.        *)
PointerPhiAbstract ==
    INSTANCE AccessStorageSpec
    WITH graph <- graph, result <- IF NestedFeedsPhi(graph) THEN Pending ELSE result
PointerPhiSoundness == PointerPhiAbstract!Spec
=============================================================================
