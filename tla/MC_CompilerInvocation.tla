------------------------ MODULE MC_CompilerInvocation ------------------------
(***************************************************************************)
(* The two parts of CompilerInvocation.cpp, each asked of every small     *)
(* input it can meet (one behaviour asks one query of one input):         *)
(*   - CompilerInvocation::parseArgs on families of command lines that    *)
(*     vary the options each stage tells apart, after and before up to    *)
(*     two setter calls of a client;                                       *)
(*   - isSingleInitAllocStack on alloc_stacks with up to three uses, or   *)
(*     two where one is a projection with up to two uses of its own,      *)
(*     drawn from every kind of use the function tells apart;             *)
(*   - visitAccessedAddress on every full apply (apply, begin_apply,     *)
(*     try_apply) of up to three arguments over                           *)
(*     three closures, and on every builtin class and instruction kind;    *)
(*   - removeBeginAccess on every use graph of up to four operands;        *)
(*   - getAccessedAddress and isPossibleFormalAccessBase on every address *)
(*     of up to three projections and begin_access markers, in any order, *)
(*     over every kind of root value, with or without a declaration, let  *)
(*     or var, of either type.                                             *)
(***************************************************************************)
EXTENDS Naturals, Sequences, FiniteSets, Functions, TLC

CONSTANTS
    NoDecl,         \* a null ValueDecl
    Unreachable,    \* a failed assert or llvm_unreachable
    Pending         \* no answer yet

VARIABLES
    request,        \* "allocStack", "formalAccess", "visitAccess", "removeBeginAccess"
                    \* or "parseArgs": the query asked
    stack, worklist, foundInit, destroyingUses, result,  \* isSingleInitAllocStack
    world, answer,  \* the address or instruction asked about, and the answers for it
    operands, erased, accessErased, original,  \* removeBeginAccess
    fe, lang, search, tc, sil, irgen, clang, diag, errors, args, pc, parsed, calls
                    \* the invocation parseArgs fills in (parsed is its result)

allocVars == <<stack, worklist, foundInit, destroyingUses, result>>
removeVars == <<operands, erased, accessErased, original>>
memVars == <<allocVars, world, answer, removeVars>>
parseVars == <<fe, lang, search, tc, sil, irgen, clang, diag, errors, args, pc, parsed, calls>>
vars == <<request, memVars, parseVars>>
-----------------------------------------------------------------------------
(* isSingleInitAllocStack.                                                 *)
U(user, dest, init, same) == [user |-> user, dest |-> dest, init |-> init, sameBlock |-> same, kids |-> <<>>]

Leaves ==
    {U("load", FALSE, FALSE, TRUE), U("load", FALSE, TRUE, TRUE),
     U("destroyAddr", FALSE, FALSE, TRUE), U("deallocStack", FALSE, FALSE, TRUE),
     U("copyAddr", TRUE, TRUE, TRUE), U("copyAddr", TRUE, TRUE, FALSE),
     U("copyAddr", FALSE, TRUE, TRUE), U("copyAddr", TRUE, FALSE, TRUE),
     U("store", TRUE, TRUE, TRUE), U("store", TRUE, FALSE, TRUE),
     U("initExistentialAddr", TRUE, TRUE, TRUE), U("apply", FALSE, FALSE, TRUE)}

Projected ==
    {[U("structElementAddr", FALSE, FALSE, TRUE) EXCEPT !.kids = ks] :
        ks \in {<<a>> : a \in Leaves} \cup {<<a, b>> : a, b \in Leaves}}

MCStacks ==
    {[kids |-> ks] :
        ks \in {<<a>> : a \in Leaves \cup Projected}
               \cup {<<a, b>> : a, b \in Leaves \cup Projected}
               \cup {<<a, b, c>> : a, b, c \in Leaves}}

SI == INSTANCE SingleInitAllocStack WITH Stacks <- MCStacks
-----------------------------------------------------------------------------
(* getAccessedAddress and isPossibleFormalAccessBase.                      *)
FA == INSTANCE FormalAccessBase

(* Roots that carry a VarDecl, and those that may.                        *)
DeclInsts == {"allocBox", "allocStack", "globalAddr", "refElementAddr", "functionArg"}
OtherInsts == {"applyAddressor", "refTailAddr", "beginApplyResult", "phi", "pointerToAddress",
               "undef", "openExistentialBox", "initEnumDataAddr", "allocValueBuffer", "other"}

Decls == {NoDecl, [isLet |-> TRUE], [isLet |-> FALSE]}

(* A SILGlobalVariable with a declaration has that declaration's let-ness. *)
Roots ==
    {[inst |-> i, type |-> t, decl |-> d, globalLet |-> gl, isAddr |-> a, switchEnumPred |-> p] :
        i \in DeclInsts \cup OtherInsts, t \in {"UnsafeValueBuffer", "other"}, d \in Decls,
        gl \in BOOLEAN, a \in BOOLEAN, p \in BOOLEAN}

Consistent(r) ==
    /\ r.inst \notin DeclInsts => r.decl = NoDecl
    /\ r.inst = "refElementAddr" => r.decl # NoDecl
    /\ r.inst = "globalAddr" /\ r.decl # NoDecl => r.globalLet = r.decl.isLet
    /\ r.inst \notin {"globalAddr", "applyAddressor"} => ~r.globalLet
    /\ r.inst # "phi" => ~r.isAddr /\ ~r.switchEnumPred

Paths == UNION {[1..n -> {"proj", "access"}] : n \in 0..3}

Worlds == {[path |-> p, root |-> r] : p \in Paths, r \in {r \in Roots : Consistent(r)}}

(* The storage kind the root classifies as (AccessedStorage::classify).  *)
KindOf(i) ==
    CASE i = "allocBox" -> "Box"
      [] i = "allocStack" -> "Stack"
      [] i \in {"globalAddr", "applyAddressor"} -> "Global"
      [] i = "refElementAddr" -> "Class"
      [] i = "refTailAddr" -> "Tail"
      [] i = "beginApplyResult" -> "Yield"
      [] i = "functionArg" -> "Argument"
      [] OTHER -> "Unidentified"

Storage(w) == [kind |-> KindOf(w.root.inst), value |-> w.root]

NoWorld == [path |-> <<>>, root |-> NoDecl]
NoStack == [kids |-> <<>>]
-----------------------------------------------------------------------------
(* visitAccessedAddress.  Closures: pa1 captures an address; pa2 a      *)
(* value, pa1 as a @noescape function and an address; pa3, only ever     *)
(* passed as an escaping function, an address.                             *)
Addr == [isAddr |-> TRUE, noescape |-> FALSE, closures |-> <<>>]
Obj == [isAddr |-> FALSE, noescape |-> FALSE, closures |-> <<>>]
NoEsc(cs) == [isAddr |-> FALSE, noescape |-> TRUE, closures |-> cs]
Esc(cs) == [isAddr |-> FALSE, noescape |-> FALSE, closures |-> cs]

MCClosures == [pa1 |-> <<Addr>>, pa2 |-> <<Obj, NoEsc(<<"pa1">>), Addr>>, pa3 |-> <<Addr>>]

ApplyArgs == {Addr, Obj, NoEsc(<<"pa1">>), NoEsc(<<"pa2">>), NoEsc(<<"pa1", "pa2">>),
              NoEsc(<<>>), Esc(<<"pa3">>)}

AV == INSTANCE AccessedAddressVisitor WITH Closures <- MCClosures

Inst(kind, ops) == [kind |-> kind, operands |-> ops, builtin |-> "none", intrinsic |-> "none"]

MCInstructions ==
    {Inst(k, ops) : k \in AV!FullApplyKinds, ops \in UNION {[1..n -> ApplyArgs] : n \in 0..3}}
    \cup {[Inst("builtin", <<>>) EXCEPT !.builtin = b, !.intrinsic = i] :
             b \in {"WillThrow", "nonAccess", "atomic", "array", "unexpected", "none"},
             i \in {"memcpy", "memset", "other", "none"}}
    \cup {Inst(k, <<Obj, Addr>>) : k \in {"assign", "assignByWrapper", "store", "storeBorrow",
                                          "storeWeak"}}
    \cup {Inst(k, <<Addr, Addr>>) : k \in {"copyAddr", "checkedCastAddrBranch"}}
    \cup {Inst(k, <<Addr>>) : k \in {"selectEnumAddr", "load", "loadBorrow", "loadWeak",
                                     "initExistentialAddr", "injectEnumAddr",
                                     "openExistentialAddr", "switchEnumAddr",
                                     "uncheckedTakeEnumDataAddr", "unconditionalCheckedCast",
                                     "refCounting", "deallocation", "other"}}
    \cup {Inst(k, <<Obj>>) : k \in {"unconditionalCheckedCast", "refCounting"}}
    \cup {Inst(k, <<Addr, Addr>>) : k \in {"beginAccess", "endAccess", "destroyAddr",
                                           "partialApply", "yield", "keyPath",
                                           "uncheckedRefCastAddr",
                                           "unconditionalCheckedCastAddr", "copyValue"}}

-----------------------------------------------------------------------------
(* removeBeginAccess.  Operands of two end_access users (each with one    *)
(* operand, on the begin_access or on its source, an outer access), a     *)
(* load (one operand) and a copy_addr (two), on any value.                 *)
EndUsers == {"end1", "end2"}
UseOf(g, u) == {o \in DOMAIN g : g[o].user = u}

MCUseGraphs ==
    {g \in UNION {[1..n -> [user : EndUsers \cup {"load", "copy"},
                               value : {"access", "source", "other"}]] : n \in 1..4} :
        /\ \A u \in EndUsers \cup {"load"} : Cardinality(UseOf(g, u)) <= 1
        /\ \A o \in DOMAIN g : g[o].user \in EndUsers => g[o].value # "other"}

RB == INSTANCE RemoveBeginAccess WITH UseGraphs <- MCUseGraphs, EndAccesses <- EndUsers
-----------------------------------------------------------------------------
(* CompilerInvocation::parseArgs.                                          *)
Triple(platform, darwin, catalyst, supported) ==
    [platform |-> platform, arch |-> "x86_64", darwin |-> darwin, catalyst |-> catalyst,
     supported |-> supported]

MacOS == Triple("macosx", TRUE, FALSE, TRUE)
Linux == Triple("linux", FALSE, FALSE, TRUE)
Catalyst == Triple("iphoneos", TRUE, TRUE, TRUE)
UnknownOS == Triple("unknown", FALSE, FALSE, FALSE)

Exe == <<"", "tc", "bin", "swift">>
Res == <<"", "res">>
SDK == <<"", "sdk">>
Doc == <<"", "doc">>
Loc == <<"", "loc">>
NoLoc == <<"", "noloc">>
Cache == <<"", "cache">>

MCExistingPaths == {Loc, Res \o <<"macosx", "prebuilt-modules", "sdkVersion">>}

(* A command line that sets nothing, and fails nowhere.                   *)
Plain ==
    [empty |-> FALSE, missing |-> FALSE, unknown |-> FALSE, frontendFails |-> FALSE,
     action |-> "EmitObject", moduleName |-> "main", parseStdlib |-> FALSE,
     useShared |-> TRUE, prebuiltCache |-> <<>>, hasInputs |-> TRUE, mainExec |-> <<>>,
     pkgVersionBad |-> FALSE, target |-> <<>>, langFails |-> FALSE, langDiag |-> FALSE,
     sdkVersion |-> FALSE,
     skipBodies |-> FALSE, shrinkThreshold |-> "absent", pchOutputDir |-> FALSE,
     sdk |-> <<>>, resourceDir |-> <<>>, nostdimport |-> FALSE,
     silIntBad |-> FALSE, opt |-> "absent", assertConfig |-> "absent",
     removeAsserts |-> FALSE, remarkBad |-> FALSE, excl |-> "absent", irgenFails |-> FALSE,
     style |-> "absent", suppressWarnings |-> FALSE, warningsAsErrors |-> FALSE,
     docPath |-> <<>>, locale |-> "absent", locPath |-> <<>>]

MCNoArgs == [Plain EXCEPT !.empty = TRUE]

Failing ==
    {[a EXCEPT ![f] = TRUE] : a \in {Plain, [Plain EXCEPT !.sdk = SDK, !.target = <<Linux>>]},
                             f \in {"missing", "unknown", "frontendFails", "pkgVersionBad",
                                    "langFails", "langDiag",
                                    "silIntBad", "remarkBad", "irgenFails"}}
    \cup {[Plain EXCEPT !.shrinkThreshold = "bad"], [Plain EXCEPT !.assertConfig = "bad", !.opt = "O"],
          [Plain EXCEPT !.style = "bad"], [Plain EXCEPT !.target = <<UnknownOS>>]}

PathArgs ==
    {[Plain EXCEPT !.mainExec = e, !.useShared = sh, !.sdk = s, !.resourceDir = r, !.target = t,
                   !.nostdimport = n] :
        e \in {<<>>, Exe}, sh \in BOOLEAN, s \in {<<>>, SDK}, r \in {<<>>, Res},
        t \in {<<>>, <<Linux>>, <<Catalyst>>}, n \in BOOLEAN}

PrebuiltArgs ==
    {[Plain EXCEPT !.prebuiltCache = c, !.sdkVersion = v, !.target = t, !.resourceDir = Res] :
        c \in {<<>>, Cache}, v \in BOOLEAN, t \in {<<>>, <<Catalyst>>}}

DiagArgs ==
    {[Plain EXCEPT !.mainExec = e, !.docPath = d, !.locPath = l, !.locale = c, !.style = st] :
        e \in {<<>>, Exe}, d \in {<<>>, Doc}, l \in {<<>>, Loc, NoLoc}, c \in {"absent", "en", "xx"},
        st \in {"absent", "swift"}}
    \cup {[Plain EXCEPT !.suppressWarnings = sw, !.warningsAsErrors = we] :
             <<sw, we>> \in {<<TRUE, FALSE>>, <<FALSE, TRUE>>}}

Opts == {"absent", "Onone", "Ounchecked", "Oplayground", "Osize", "O"}

SILArgs ==
    {[Plain EXCEPT !.opt = o, !.assertConfig = c, !.parseStdlib = std] :
        o \in Opts, c \in {"absent", "DisableReplacement", "Debug", "Release", "Unchecked"},
        std \in BOOLEAN}
    \cup {[Plain EXCEPT !.opt = o, !.removeAsserts = r, !.excl = x] :
             o \in {"absent", "O", "Ounchecked"}, r \in BOOLEAN,
             x \in {"absent", "unchecked", "checked", "dynamic-only", "none", "bad"}}

TypeCheckerArgs ==
    {[Plain EXCEPT !.skipBodies = sk, !.moduleName = m, !.shrinkThreshold = n] :
        sk \in BOOLEAN, m \in {"main", "SwiftOnoneSupport"}, n \in {"absent", "n"}}

ActionArgs ==
    {[Plain EXCEPT !.action = ac, !.pchOutputDir = d, !.hasInputs = i] :
        ac \in {"EmitIR", "EmitBC", "EmitAssembly", "Immediate", "EmitObject", "EmitPCH"},
        d \in BOOLEAN, i \in BOOLEAN}

MCArgLists ==
    {MCNoArgs} \cup Failing \cup PathArgs \cup PrebuiltArgs \cup DiagArgs \cup SILArgs
    \cup TypeCheckerArgs \cup ActionArgs

PA == INSTANCE ParseArgs WITH
        result <- parsed, Triples <- {MacOS, Linux, Catalyst, UnknownOS}, DefaultTriple <- MacOS,
        ArgLists <- MCArgLists, NoArgs <- MCNoArgs, ExecutablePaths <- {Exe},
        SetterPaths <- {Res}, ExistingPaths <- MCExistingPaths, LocaleCodes <- {"en"},
        MaxClientCalls <- 2
-----------------------------------------------------------------------------
NoneAsked == world = NoWorld /\ answer = Pending
NoAllocStack ==
    /\ stack = NoStack /\ worklist = <<>> /\ foundInit = FALSE
    /\ destroyingUses = <<>> /\ result = Pending
NoBeginAccess == operands = <<>> /\ original = <<>> /\ erased = {} /\ accessErased = FALSE

Init ==
    /\ PA!Init
    /\ \/ request = "allocStack" /\ SI!Init /\ NoneAsked /\ NoBeginAccess
       \/ request = "formalAccess" /\ world \in Worlds /\ answer = Pending
          /\ NoAllocStack /\ NoBeginAccess
       \/ request = "visitAccess" /\ world \in MCInstructions /\ answer = Pending
          /\ NoAllocStack /\ NoBeginAccess
       \/ request = "removeBeginAccess" /\ RB!Init /\ NoneAsked /\ NoAllocStack
       \/ request = "parseArgs" /\ NoneAsked /\ NoAllocStack /\ NoBeginAccess

(* An optimization asks for the accessed address and whether its storage *)
(* is a formal access base.                                                *)
Evaluate ==
    /\ request = "formalAccess" /\ answer = Pending
    /\ answer' = [address |-> FA!GetAccessedAddress(world, 1),
                  formal |-> FA!IsPossibleFormalAccessBase(Storage(world))]
    /\ UNCHANGED <<request, world, allocVars, removeVars, parseVars>>

(* A verifier asks which operands of the instruction access an address.  *)
VisitAccess ==
    /\ request = "visitAccess" /\ answer = Pending
    /\ answer' = AV!VisitAccessedAddress(world)
    /\ UNCHANGED <<request, world, allocVars, removeVars, parseVars>>

(* One iteration of removeBeginAccess's loop, or its return.              *)
RemoveBeginAccessStep ==
    /\ request = "removeBeginAccess"
    /\ RB!Next
    /\ UNCHANGED <<request, world, answer, allocVars, parseVars>>

(* One iteration of isSingleInitAllocStack's loop.                        *)
AllocStackStep ==
    /\ request = "allocStack"
    /\ SI!Next
    /\ UNCHANGED <<request, world, answer, removeVars, parseVars>>

(* A setter call or a parseArgs stage.                                     *)
ParseArgsStep ==
    /\ request = "parseArgs"
    /\ PA!Next
    /\ UNCHANGED <<request, memVars>>

Next == Evaluate \/ VisitAccess \/ RemoveBeginAccessStep \/ AllocStackStep \/ ParseArgsStep

(* Each query returns once answered, and a client makes a bounded number *)
(* of calls: the checker stops there.                                     *)
Spec == Init /\ [][Next]_vars
-----------------------------------------------------------------------------
(* isSingleInitAllocStack returns exactly SingleInit, whatever order the *)
(* worklist visits the uses in and wherever an early return cuts it off.  *)
SingleInitDecided == request = "allocStack" => SI!SingleInitDecided

(* When isSingleInitAllocStack returns true, destroyingUses holds every  *)
(* destroy_addr of the alloc_stack, through projections too, each once.  *)
DestroysCollected == request = "allocStack" => SI!DestroysCollected

(* getAccessedAddress reaches the root of the address, however             *)
(* projections and begin_access markers are interleaved on the way: the  *)
(* first value that is neither.                                            *)
AccessedAddressIsRoot ==
    request = "formalAccess" /\ answer # Pending =>
        /\ answer.address = FA!Root(world)
        /\ \A j \in 1..(FA!Root(world) - 1) : FA!Def(world, j) \in {"proj", "access"}

(* The two readings of let-ness agree where it matters: an address that  *)
(* isLetAddress, given its accessed root, calls a let field or global is  *)
(* never a formal access base (which would make exclusivity enforcement  *)
(* check accesses that only initialize).                                   *)
LetAddressNotFormallyAccessed ==
    request = "formalAccess" /\ answer # Pending /\ FA!IsLetAddress(world, answer.address)
        => answer.formal # TRUE

(* At a full apply, the visitor reaches exactly the address arguments of *)
(* the call and of every closure reachable through @noescape function     *)
(* arguments, closures passed to closures included, and none of a closure *)
(* passed only as an escaping function.                                    *)
ClosureAccessesVisited ==
    request = "visitAccess" /\ answer # Pending /\ world.kind \in AV!FullApplyKinds =>
        Range(answer) = AV!CallSiteAccesses(world)

(* removeBeginAccess erases exactly the begin_access's own end_access    *)
(* instructions and forwards every other use to its source, whatever the *)
(* order of the use list.                                                  *)
RemovalComplete == request = "removeBeginAccess" => RB!RemovalComplete

RuntimePathsCurrent == PA!RuntimePathsCurrent
ExplicitPathsWin == PA!ExplicitPathsWin
AssertConfigFollowsOptimization == PA!AssertConfigFollowsOptimization
ExclusivityEnforced == PA!ExclusivityEnforced
=============================================================================
