------------------------- MODULE FindAccessedStorage -------------------------
(***************************************************************************)
(* findAccessedStorage (MemAccessUtils, CompilerInvocation.cpp part):     *)
(* FindAccessedStorageVisitor walks the use-def chain of an address to    *)
(* its base; at a phi it runs a FindPhiStorageVisitor over the phi's      *)
(* incoming values, which records every base it meets in the same         *)
(* storage visitor, looks for one common path component, and then calls  *)
(* findStorage on that component re-entrantly.                            *)
(*                                                                         *)
(* The two visitors' call stack is the sequence stack of frames:          *)
(*   [kind |-> "find", addr]  a findStorage loop; addr is the value it   *)
(*                            visits next, NoValue when the loop ends     *)
(*   [kind |-> "phi", worklist, nested, common]  findPhiStorage with its *)
(*                            pointerWorklist, nestedPhis and             *)
(*                            commonDefinition (Unset: none yet,         *)
(*                            NoValue: divergent paths)                  *)
(* The dispatch of AccessUseDefChainVisitor::visit on the kind of a value *)
(* is the kind field of the graph (see AccessUseDef).                     *)
(***************************************************************************)
EXTENDS AccessUseDef, SequencesExt

CONSTANTS
    UseDefGraphs,   \* the use-def graphs the address can come from
    Pending,        \* result before findAccessedStorage returns
    None            \* Optional<AccessedStorage>: no storage set yet

VARIABLES
    graph,          \* the function's values (never changes)
    storage,        \* FindAccessedStorageVisitorBase::storage
    visitedPhis,    \* FindAccessedStorageVisitorBase::visitedPhis
    stack,          \* the frames of findStorage and findPhiStorage calls
    checkResultOK,  \* FindPhiStorageVisitor::checkResult's assertion held
    result          \* what findAccessedStorage returned

vars == <<graph, storage, visitedPhis, stack, checkResultOK, result>>

NoValue == 0        \* SILValue()
Unset == -1         \* an empty Optional<SILValue>

Top == Last(stack)
SetTop(f) == [stack EXCEPT ![Len(stack)] = f]
Def(v) == graph[v]

FindFrame(v) == [kind |-> "find", addr |-> v]

-----------------------------------------------------------------------------
(* Variant: a second, different storage is ignored.                      *)
SetStorageKeepingFirst(found) ==
    IF storage = None THEN found ELSE storage

(* FindAccessedStorageVisitorBase::setStorage: the first storage found is *)
(* kept; a different one (hasIdenticalBase fails) makes it invalid, and   *)
(* invalid stays invalid.                                                  *)
SetStorage(found) ==
    IF storage = None THEN found
    ELSE IF storage = found THEN storage ELSE Invalid

(* FindPhiStorageVisitor::setDefinition.                                   *)
SetDefinition(common, def) ==
    IF common = Unset THEN def
    ELSE IF common # def THEN NoValue ELSE common

-----------------------------------------------------------------------------
Init ==
    /\ graph \in UseDefGraphs
    /\ storage = None
    /\ visitedPhis = {}
    /\ stack = <<FindFrame(1)>>
    /\ checkResultOK = TRUE
    /\ result = Pending

(***************************************************************************)
(* One iteration of the findStorage loop: visit(nextAddr).                 *)
(***************************************************************************)
(* visitBase: record the base's storage; the walk ends.                    *)
FindVisitBase ==
    /\ stack # <<>> /\ Top.kind = "find" /\ Top.addr # NoValue
    /\ Def(Top.addr).kind = "base"
    /\ storage' = SetStorage(AccessedStorageOf(graph, Top.addr))
    /\ stack' = SetTop(FindFrame(NoValue))
    /\ UNCHANGED <<graph, visitedPhis, checkResultOK, result>>

(* visitNonAccess: no storage can be identified; the walk ends.            *)
FindVisitNonAccess ==
    /\ stack # <<>> /\ Top.kind = "find" /\ Top.addr # NoValue
    /\ Def(Top.addr).kind = "non"
    /\ storage' = SetStorage(Invalid)
    /\ stack' = SetTop(FindFrame(NoValue))
    /\ UNCHANGED <<graph, visitedPhis, checkResultOK, result>>

(* Variant: the handler returns the value itself instead of its operand. *)
FindVisitOperandSelf ==
    /\ stack # <<>> /\ Top.kind = "find" /\ Top.addr # NoValue
    /\ Def(Top.addr).kind \in {"cast", "path", "nested"}
    /\ stack' = SetTop(FindFrame(Top.addr))
    /\ UNCHANGED <<graph, storage, visitedPhis, checkResultOK, result>>

(* visitCast and visitPathComponent return the parent address;            *)
(* FindAccessedStorageVisitor::visitNestedAccess returns the source.       *)
FindVisitOperand ==
    /\ stack # <<>> /\ Top.kind = "find" /\ Top.addr # NoValue
    /\ Def(Top.addr).kind \in {"cast", "path", "nested"}
    /\ stack' = SetTop(FindFrame(Def(Top.addr).ops[1]))
    /\ UNCHANGED <<graph, storage, visitedPhis, checkResultOK, result>>

(* visitPhi, first visit: findPhiStorage runs on it (its visitPhi puts    *)
(* the phi in nestedPhis and its incoming values on the worklist), and    *)
(* the findStorage loop ends when it returns.                              *)
FindVisitPhi ==
    /\ stack # <<>> /\ Top.kind = "find" /\ Top.addr # NoValue
    /\ Def(Top.addr).kind = "phi"
    /\ Top.addr \notin visitedPhis
    /\ visitedPhis' = visitedPhis \cup {Top.addr}
    /\ stack' = Append(SetTop(FindFrame(NoValue)),
                       [kind |-> "phi", worklist |-> Def(Top.addr).ops,
                        nested |-> {Top.addr}, common |-> Unset])
    /\ UNCHANGED <<graph, storage, checkResultOK, result>>

(* visitPhi, phi already visited: treated as a non-access.                 *)
FindVisitPhiAgain ==
    /\ stack # <<>> /\ Top.kind = "find" /\ Top.addr # NoValue
    /\ Def(Top.addr).kind = "phi"
    /\ Top.addr \in visitedPhis
    /\ storage' = SetStorage(Invalid)
    /\ stack' = SetTop(FindFrame(NoValue))
    /\ UNCHANGED <<graph, visitedPhis, checkResultOK, result>>

(* The loop ends: findStorage returns storage.getValueOr(AccessedStorage())*)
(* to its caller; the outermost call is findAccessedStorage's result.     *)
FindReturn ==
    /\ stack # <<>> /\ Top.kind = "find" /\ Top.addr = NoValue
    /\ stack' = Front(stack)
    /\ result' = IF Len(stack) = 1
                 THEN IF storage = None THEN Invalid ELSE storage
                 ELSE result
    /\ UNCHANGED <<graph, storage, visitedPhis, checkResultOK>>

(***************************************************************************)
(* One iteration of findPhiStorage's loop: visit(pointerWorklist.pop_back) *)
(* with FindPhiStorageVisitor's handlers.                                  *)
(***************************************************************************)
PhiStepping == stack # <<>> /\ Top.kind = "phi" /\ Top.worklist # <<>>
Popped == Last(Top.worklist)
PopTop(f) == SetTop([f EXCEPT !.worklist = Front(@)])

(* visitBase and visitNonAccess forward to the storage visitor.            *)
PhiVisitBase ==
    /\ PhiStepping /\ Def(Popped).kind = "base"
    /\ storage' = SetStorage(AccessedStorageOf(graph, Popped))
    /\ stack' = PopTop(Top)
    /\ UNCHANGED <<graph, visitedPhis, checkResultOK, result>>

PhiVisitNonAccess ==
    /\ PhiStepping /\ Def(Popped).kind = "non"
    /\ storage' = SetStorage(Invalid)
    /\ stack' = PopTop(Top)
    /\ UNCHANGED <<graph, visitedPhis, checkResultOK, result>>

(* visitNestedAccess forwards to FindAccessedStorageVisitor's, which      *)
(* returns the access's source; checkResult asserts that no handler       *)
(* returns a value.  With assertions compiled out the source is dropped.  *)
PhiVisitNestedAccess ==
    /\ PhiStepping /\ Def(Popped).kind = "nested"
    /\ checkResultOK' = FALSE
    /\ stack' = PopTop(Top)
    /\ UNCHANGED <<graph, storage, visitedPhis, result>>

(* visitPhi: a phi not yet seen by this visitor adds its incoming values. *)
PhiVisitPhi ==
    /\ PhiStepping /\ Def(Popped).kind = "phi"
    /\ stack' = SetTop(IF Popped \in Top.nested
                       THEN [Top EXCEPT !.worklist = Front(@)]
                       ELSE [Top EXCEPT !.nested = @ \cup {Popped},
                                        !.worklist = Front(@) \o Def(Popped).ops])
    /\ UNCHANGED <<graph, storage, visitedPhis, checkResultOK, result>>

(* visitCast: conversions are looked through.                              *)
PhiVisitCast ==
    /\ PhiStepping /\ Def(Popped).kind = "cast"
    /\ stack' = SetTop([Top EXCEPT !.worklist = Append(Front(@), Def(Popped).ops[1])])
    /\ UNCHANGED <<graph, storage, visitedPhis, checkResultOK, result>>

(* visitPathComponent: the search stops at the projection, which must be  *)
(* the same on every incoming path.                                        *)
PhiVisitPathComponent ==
    /\ PhiStepping /\ Def(Popped).kind = "path"
    /\ stack' = PopTop([Top EXCEPT !.common = SetDefinition(@, Popped)])
    /\ UNCHANGED <<graph, storage, visitedPhis, checkResultOK, result>>

(* The worklist is empty: with one common path component, findStorage is *)
(* called on it (the phi visitor does nothing after that call, so its     *)
(* frame is replaced by the call's); divergent paths invalidate the       *)
(* storage; with no path component the phi visitor just returns.          *)
PhiFinish ==
    /\ stack # <<>> /\ Top.kind = "phi" /\ Top.worklist = <<>>
    /\ storage' = IF Top.common = NoValue THEN SetStorage(Invalid) ELSE storage
    /\ stack' = IF Top.common \in Node(graph)
                THEN SetTop(FindFrame(Top.common))
                ELSE Front(stack)
    /\ UNCHANGED <<graph, visitedPhis, checkResultOK, result>>

Next ==
    \/ FindVisitBase
    \/ FindVisitNonAccess
    \/ FindVisitOperand
    \/ FindVisitPhi
    \/ FindVisitPhiAgain
    \/ FindReturn
    \/ PhiVisitBase
    \/ PhiVisitNonAccess
    \/ PhiVisitNestedAccess
    \/ PhiVisitPhi
    \/ PhiVisitCast
    \/ PhiVisitPathComponent
    \/ PhiFinish

(* findAccessedStorage is an ordinary sequential call: once it has a      *)
(* step to take it keeps taking them.                                      *)
Spec == Init /\ [][Next]_vars /\ WF_vars(Next)

-----------------------------------------------------------------------------
(***************************************************************************)
(* Properties.                                                             *)
(***************************************************************************)
StorageValue(g) ==
    {AccessedStorageOf(g, v) : v \in {v \in Node(g) : g[v].kind = "base"}}
Frame ==
    [kind : {"find"}, addr : Node(graph) \cup {NoValue}]
    \cup [kind : {"phi"}, worklist : Seq(Node(graph)), nested : SUBSET Node(graph),
          common : Node(graph) \cup {NoValue, Unset}]

TypeOK ==
    /\ DOMAIN graph = 1..Len(graph)
    /\ \A v \in Node(graph) : /\ graph[v].kind \in Kinds
                             /\ Range(graph[v].ops) \subseteq Node(graph)
    /\ storage \in StorageValue(graph) \cup {None, Invalid}
    /\ visitedPhis \subseteq {v \in Node(graph) : graph[v].kind = "phi"}
    /\ \A i \in DOMAIN stack : stack[i] \in Frame
    /\ checkResultOK \in BOOLEAN
    /\ result \in StorageValue(graph) \cup {Invalid, Pending}

(* FindPhiStorageVisitor::checkResult asserts "must override any visitor  *)
(* that returns a result": no handler the phi visitor forwards to returns *)
(* an address that would then be dropped.                                  *)
CheckResultAssert == checkResultOK

(* findAccessedStorage returns: phi cycles end at visitedPhis and         *)
(* nestedPhis, and the re-entrant findStorage calls are bounded by them.  *)
Termination == <>(result # Pending)

(* The storage reported for an address is sound for the whole use-def     *)
(* graph (AccessStorageSpec): whenever a storage other than the invalid   *)
(* one is reported, every base reachable through casts, projections,      *)
(* nested accesses and phis has that storage and none of the paths ends   *)
(* in a non-access.  This rests on setStorage's merging, on               *)
(* setDefinition's divergence check and on the re-visit of a phi being    *)
(* treated as a non-access.                                                *)
Abstract == INSTANCE AccessStorageSpec WITH graph <- graph, result <- result
Soundness == Abstract!Spec
=============================================================================
