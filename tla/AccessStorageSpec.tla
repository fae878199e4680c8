-------------------------- MODULE AccessStorageSpec --------------------------
(***************************************************************************)
(* What findAccessedStorage may answer for an address, stated over the    *)
(* whole use-def graph instead of by a walk.  The answer is either the    *)
(* invalid storage (the caller then assumes the access may touch          *)
(* anything) or a storage S, and S may only be given when every base the  *)
(* address can be derived from, through casts, projections, nested        *)
(* begin_access markers and phis, has S as its storage and no path ends   *)
(* in a value that is not an access at all.                                *)
(***************************************************************************)
EXTENDS AccessUseDef, Graphs

CONSTANT Pending    \* no answer yet

VARIABLES
    graph,          \* the use-def graph of the function (any graph)
    result

Reachable(g, src) ==
    LET c == ConnectionsIn([node |-> Node(g), edge |-> UseDefEdges(g)])
    IN {w \in Node(g) : c[src, w]}

(* The answers that are sound for the address src of g.                   *)
SoundAnswers(g, src) ==
    LET R     == Reachable(g, src)
        found == {AccessedStorageOf(g, v) : v \in {v \in R : g[v].kind = "base"}}
    IN {Invalid} \cup
       (IF Cardinality(found) = 1 /\ \A v \in R : g[v].kind # "non"
        THEN found ELSE {})

Init == result = Pending

Answer == result = Pending /\ result' \in SoundAnswers(graph, 1) /\ UNCHANGED graph

Spec == Init /\ [][Answer]_<<graph, result>>
=============================================================================
