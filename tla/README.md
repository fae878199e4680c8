# TLA+ models of parts of the Swift compiler

This directory checks parts of the compiler in `src/` with TLC:

- the type checker's constraint solver, in `src/unnamed/part_000`, which holds
  `CSSolver.cpp` (lines 1–2440) and `ConstraintSystem.cpp` (lines 2441–7641);
- actor isolation checking and the concurrency requests, in
  `src/lib/Sema/TypeCheckConcurrency.cpp`;
- the inherited-type and function-builder requests, in
  `src/lib/Sema/TypeCheckRequestFunctions.cpp`;
- compiler option parsing (`CompilerInvocation`), in
  `src/lib/Frontend/CompilerInvocation.cpp` lines 1–1915;
- the SIL memory-access utilities (MemAccessUtils), in the same file,
  lines 1916–2799.

`spec.md` describes what the solver must do. `PROJECT.json` lists every
component, run, mutant, hazard and finding, and maps every definition to the
source lines it translates.

## 1. The system

### Parts of the repository

| Part | Source | Role |
|---|---|---|
| Constraint system state | part_000: `assignFixedType`, `mergeEquivalenceClasses`, `addTypeVariableConstraintsToWorkList`, `getFixedTypeRecursive`, `simplifyType`, `resolveOverload`, `bindOverloadType` | The union-find of type variables, the journal of saved bindings, the active and inactive constraint lists, the chosen overloads and the score. |
| Solver search | part_000: `simplify`, `SolverScope`, `SolverState`, `selectDisjunction`, `selectBestBindingDisjunction`, `DisjunctionChoice::attempt`, `finalize`, `solve`/`solveImpl` | Simplifies constraints to a fixed point. Searches depth-first over disjunctions, each attempt inside a `SolverScope` that undoes it. Records a `Solution` at every leaf and classifies the result. |
| Disjunction filtering | part_000: `filterDisjunction` | Disables choices that cannot succeed; a single remaining choice is committed. |
| Shrinking | part_000: `shrink`, `Candidate::solve`, `Candidate::applySolutions` | Solves sub-expressions first to narrow overload domains. |
| Stages and diagnosis | part_000: `solve(target)`, `salvage`, `diagnoseAmbiguity*`, `ExpressionTimer` | Stage 0 solves. Stage 1 salvages with fixes. Ambiguity is diagnosed. A timer reports "too complex". |
| Type references | part_000: `getTypeOfReference`, `openGeneric*`, `getTypeOfMemberReference`, `ArgumentInfoCollector`, `simplifyLocator`, `applySolution` | Compute the types constraints talk about, and write solutions back into the AST. |
| Actor isolation | `TypeCheckConcurrency.cpp` | `checkActorIsolation`'s walker, `IsolationRestriction`, `IsActorRequest`, `checkAsyncHandler`, `IsAsyncHandlerRequest`. |
| Requests | `TypeCheckRequestFunctions.cpp` | Inherited, superclass and raw types; function-builder attributes and inference. |
| Option parsing | `CompilerInvocation.cpp` 1–1915 | `CompilerInvocation`'s setters and `parseArgs`, which runs one `Parse*Args` function per options struct and returns true at the first that fails, then derives the runtime library paths, the prebuilt module cache and IRGen's output kind. |
| SIL access utilities | `CompilerInvocation.cpp` 1916–2799 | `AccessedStorage`, `findAccessedStorage`, `isSingleInitAllocStack`, `isPossibleFormalAccessBase` and the address helpers. |
| Tests, docs, build | `part_001`, `part_002`, `cmake/` | A lit test, a branch document and a CMake cache. |

### How the solver's parts interact

1. `solveImpl(target)` generates constraints.
2. `solve(solutions)` creates a `SolverState`, which records the initially active constraints.
3. `solveImpl(solutions)` opens a root `SolverScope` and runs a LIFO worklist of steps.
4. A component step simplifies, using `simplify`:
   - it takes the head of the active list;
   - `simplifyConstraint` either solves it (the constraint is retired), fails it (failure is recorded), or leaves it unsolved (it stays inactive);
   - binding or merging a type variable re-activates the constraints that mention its class;
   - simplification stops early on a failure, or when `worseThanBestSolution` holds.
5. The step then picks a disjunction with `selectDisjunction` and retires it.
6. For each choice, the disjunction step:
   - opens a `SolverScope`;
   - attempts the choice with `DisjunctionChoice::attempt`;
   - recurses;
   - leaves the scope, which undoes every change in reverse order.
7. A leaf with no disjunction left calls `finalize`, which:
   - raises `BestScore`;
   - handles free type variables by policy;
   - records the solution.
8. At the end the root scope closes and `~SolverState` re-activates the initial constraints.
9. `filterSolutions` keeps the best solutions, and the result is Solved, Ambiguous or UndiagnosedError.
10. `solve(target)` runs this as stage 0. On an undiagnosed error, or an ambiguity that
    may not be returned, stage 1 calls `salvage`, which solves again recording fixes and
    tries to diagnose an ambiguity. Each stage's result is returned, diagnosed or retried.

The other parts do not interact with the solver at run time:

- **Actor isolation.** `checkActorIsolation` walks a type-checked expression.
  It consults `IsActorRequest` for the classes involved, through the request evaluator.
- **Requests.** They are pure functions of the declarations, evaluated on demand.
  A request met again while it is evaluated is a cycle.
- **MemAccessUtils.** Helpers that SIL optimizations call on addresses:
  - `findAccessedStorage` walks use-def chains;
  - `isPossibleFormalAccessBase` filters storage for exclusivity enforcement;
  - `isSingleInitAllocStack` scans an `alloc_stack`'s uses.
- **Option parsing.** A client (the frontend, an IDE service) creates a `CompilerInvocation`, may call its setters, and calls `parseArgs` once. `parseArgs` fills one options struct per stage. Later stages read what earlier ones set (SIL reads the type checker's and frontend's options), and the end of `parseArgs` derives the runtime paths from the final target, SDK and resource directory.

### What is hard to test here

The hazards are listed in `PROJECT.json` ("hazards"). They are:

- **Undo order.** The journal is replayed newest first. A variable can be journaled twice in one scope: once by a merge and once by path compression during a plain lookup.
- **Early exit.** `simplify` can stop early with constraints still active, and they must be put back.
- **Wake-up.** A wake-up must cover the whole equivalence class.
- **Best score.** `BestScore` changes while outer branches are in flight.
- **The code's asserts:**
  - no failure when a scope opens;
  - an overload is resolved at most once per locator;
  - a new solution is never worse than the best.
- **Termination** of the step loop.
- **Order independence.** The answer must not depend on the selection heuristics or on pruning.
- **The stage loop.** An error must never pass silently, and must never be diagnosed twice, on any path through the two stages.
- **Elsewhere:**
  - the actor walker's context stack against closures it skips;
  - request cycles and evaluation order;
  - phi cycles in use-def walks;
  - the LIFO worklists of the SIL helpers, and `removeBeginAccess` rewriting the use list it walks;
  - the order of `parseArgs`' stages and of the assignments inside `ParseSILArgs`, and paths that one step changes and another step derives.

## 2. Modules

| Module | Models |
|---|---|
| `ConstraintTypes` | The vocabulary: the constraint kinds Bind, Conversion, BindOverload and Disjunction; the type variables a constraint mentions; the score vector with `increaseScore` and the lexicographic `<`. |
| `ConstraintSolver` | One `ConstraintSystem` solving one constraint list. |
| `SolverSpec` | The abstract specification: what `solve` must answer, without union-find, worklists, scopes or search order. |
| `Shrink` | `shrink`, `Candidate::solve` and `Candidate::applySolutions`, with each candidate solved by an instance of `ConstraintSolver`. |
| `SolveStages` | `solve(target)`: the stage loop over `solveImpl(target)` and `salvage`, and the diagnostics it emits. |
| `ActorAST` | The declarations and expression tree `checkActorIsolation` looks at. |
| `ActorIsolation` | `checkActorIsolation`: the walker with its context stack, and the reference checks. |
| `ActorIsolationSpec` | The isolation rules of the concurrency test, stated over the whole expression. |
| `ConcurrencyRequests` | `IsActorRequest`, `checkAsyncHandler`, `IsAsyncHandlerRequest`. |
| `InheritedTypes` | `InheritedTypeRequest`, `SuperclassTypeRequest`, `EnumRawTypeRequest`. |
| `FunctionBuilders` | `AttachedFunctionBuilderRequest`, `inferFunctionBuilderType`, `FunctionBuilderTypeRequest`. |
| `AccessUseDef` | SIL use-def graphs and the `AccessedStorage` constructor. |
| `FindAccessedStorage` | `findAccessedStorage` with its two visitors. |
| `AccessStorageSpec` | What `findAccessedStorage` may answer, over the whole graph. |
| `SingleInitAllocStack` | `isSingleInitAllocStack` with `memInstMustInitialize`. |
| `FormalAccessBase` | `getAddressAccess`, `getAccessedAddress`, `isLetAddress`, `AccessedStorage::getDecl` and `isLetAccess`, `isPossibleFormalAccessBase` and its helpers. |
| `RemoveBeginAccess` | `removeBeginAccess`: the loop over the `begin_access`'s use list. |
| `AccessedAddressVisitor` | `visitAccessedAddress`, `visitApplyAccesses` and `visitBuiltinAddress`, as operators, with a reference definition of the operands a call site accesses. |
| `ParseArgs` | `CompilerInvocation`'s public setters, `updateRuntimeLibraryPaths`, `setDefaultPrebuiltCacheIfNecessary` and `parseArgs` with its stages. |
| `MC_*` | The model instances the runs below check: one per module, except `MC_TypeCheckRequests`, which asks the three request modules' requests, and `MC_CompilerInvocation`, which asks `SingleInitAllocStack`'s, `FormalAccessBase`'s, `AccessedAddressVisitor`'s, `RemoveBeginAccess`'s and `ParseArgs`' queries. |

### `ConstraintSolver`

**State.** `cs` is the mutable part of the `ConstraintSystem`, held as one record:

- `pf` is each type variable's `ParentOrFixed`;
- `saved` is the saved-binding journal;
- `active` and `inactive` are the worklists;
- `retired` holds `SolverState`'s retired constraints;
- `resolved` is `ResolvedOverloads`;
- `score` is `CurrentScore`;
- `failed` is `failedConstraint`.

The other variables are:

- `bestScore`, which is `SolverState::BestScore`;
- `solutions`;
- `scopes`, the open `SolverScope`s with their saved counters and score;
- `steps`, the open disjunction steps with the index of the next choice;
- `pc`, the search driver's position;
- `result`.

Each helper is an operator from `cs` to `cs`. A handler that calls several helpers is modelled as their composition, in the code's order. For example, `AssignFixedType` does the following:

1. journals the representative's old parent and binds it;
2. adds `SK_NonDefaultLiteral` if the class holds a literal;
3. re-activates the class's constraints.

**Actions.** Each action models one step of the driver:

| Action | Code |
|---|---|
| `SimplifyStep` | One iteration of `simplify`. |
| `SimplifyDone` | The fixed point is reached. |
| `ComponentStep` | Give up on a failed or outscored branch, finalize a leaf, or select and retire a disjunction. |
| `AttemptChoice` | `SolverScope` constructor plus `DisjunctionChoice::attempt`. |
| `DisjunctionExhausted` | A disjunction step with no choice left. |
| `Backtrack` | `~SolverScope`, then the next choice. |
| `Finish` | Closing the root scope, `~SolverState`, `filterSolutions` and the classification in `solveImpl(target)`. |

**`With`.** `With(v, LAMBDA s1 : e)` in operators and `\E s1 \in {v} : e` in actions bind an intermediate state once. A handler reads its intermediate states several times. Written as `LET`, each read is a separate copy of the definition, so TLC's evaluation and its coverage report grow exponentially with nesting depth.

**Outside `src/`.** The union-find implementation (`TypeVariableType::Implementation`), the constraint graph, `matchTypes`, `retireConstraint`, `SolverState::rollback`, the `CSStep` classes and `filterSolutions` are not in `src/`. They are modelled from `spec.md` and marked `spec_modelled` in the map.

**Abstractions:**

- Types are nominal constants. A declaration has one nominal type, and `Convertible` lists the allowed conversions.
- A `BindOverload` binds its locator's variable to the declaration's type.
- The async-mismatch and disfavored scores come from the constant sets `AsyncMismatch` and `Disfavored`.
- Constraint generation is not modelled. The constraint list is the input. Its first simplification happens inside the solver, which reaches the same fixed point as `addConstraint`'s immediate simplification.

### `SolverSpec`

A solution picks one alternative per disjunction. The Bind and BindOverload equations of the picked list split variables and types into connected components. The module uses `ConnectionsIn` from the community `Graphs` module for this.

A pick is valid when all of these hold:

- no class holds two types;
- every conversion between concrete sides is allowed;
- under `Disallow`, every variable has a type.

The score counts async mismatches, disfavored choices, and a literal class with a non-default concrete type.

The answer is the set of minimal-score solutions. `ConstraintSolver` instantiates `SolverSpec` with `result` mapped to itself: `result` is "Pending" until `Finish`. `Refinement == Abstract!Spec` is checked as a property.

### `Shrink`

Code completion calls `shrink` before it solves an expression (`solveForCodeCompletion`, part_000:1419). `shrink` does three things:

1. `ExprCollector` picks candidate sub-expressions and records the original domains of the overload sets it walks through.
2. Each candidate is solved alone in a fresh `ConstraintSystem`. The overload choices its solutions use become the new domains.
3. A candidate without solutions restores the recorded domains inside it.

State:

- `expr` is the expression. `MC_Shrink` gives for each one what `ExprCollector` produces: its overload sets and their decls, the ones entered in `Domains` (`walked`), and the candidates in order. Each candidate carries its constraints, whether it holds a closure, and whether generation fails for it.
- `domains` is each `OverloadSetRefExpr`'s current decl list. `shrunkExprs` is shrink's set. `next` is the loop index. `outcome` is a history of what each candidate did.
- The solver variables belong to an instance `Solver == INSTANCE ConstraintSolver` under the Allow policy. A candidate's `solveImpl` is therefore the solver model's own search, pruning by best score included, and its `solutions` list is what `applySolutions` reads.

Actions:

- `ShrinkDisabled` is the `SolverDisableShrink` early return, and `Collect` is the walk.
- `Bail` is `Candidate::solve` returning false, either for a closure or because `isTooComplexGiven` holds. The latter is outside `src/`, so the model chooses nondeterministically.
- `GenerationFails` is the failed `generateConstraints`, followed by the loop's restore.
- `StartSolve` sets up `SolverState`. The solver's `Init` is a conjunct of this action, as a check.
- `SolverStep` is one solver step. `SolveDone` is `applySolutions`, or the restore when there are no solutions.
- `LoopDone` is the end of the loop and the re-allocation.

`Full` is `SolverSpec` under Disallow. It gives the solutions of the whole expression that `solveForCodeCompletion` then looks for. The refinement checked by the `solver` run makes it a faithful stand-in for the solver.

### `SolveStages`

**State:**

- `options`: the system's `SuppressDiagnostics` and `AllowUnresolvedTypeVariables` flags;
- `stage`: the loop counter;
- `result`: Pending, None, or the number of solutions returned;
- `solution`: the attempt's `SolutionResult`, with its `markAsDiagnosed` flag;
- `diagnosedBy`: the routines that reported an error for the target;
- `hadError`: `Diags.hadAnyError() || hasDelayedConformanceErrors()`, which earlier targets may have set. `maybeProduceFallbackDiagnostic` tests both, and the model folds them into one flag, since a delayed conformance error is one that will be emitted.

**Actions.** `SolveImpl` is stage 0 and `Salvage` is stage 1. Each computes its attempt's `SolutionResult`, then applies `Handle`, the loop body's switch, in the code's case order.

**Abstractions.** What the solver and the diagnosing helpers do is reduced to the choices they make:

- whether constraint generation failed, and whether it emitted an error;
- how many solutions were found;
- for salvage, how many viable solutions there are and how many need fixes;
- whether `findBestSolution` finds a best;
- whether `diagnoseAmbiguityWithFixes` and `diagnoseAmbiguity` report an ambiguity;
- whether the expression became too complex.

`MC_SolveStages` solves two targets in turn, as the type checker does. Both report to one `DiagnosticEngine`.

### Actor isolation: `ActorAST`, `ActorIsolation`, `ActorIsolationSpec`

`ActorAST` holds the program: declaration contexts, declarations, and one expression tree whose nodes are named by their path. `ActorIsolation` models the walker.

**State:**

- `work`: the pending pre- and post-visits;
- `contextStack`;
- `diags`: the diagnostics emitted;
- `crashed`: an `llvm_unreachable` was reached;
- `postAssertOK`: the assert in `walkToExprPost`.

**Actions.** `walkToExprPre` has one action per expression kind: closure, lookup, declaration reference, self-application, other. `walkToExprPost` has one action per case: closure, other.

**Helpers.** `IsolationRestriction::forDeclaration`, `mayExecuteConcurrentlyWith`, `getSelfReference` and the three reference checks are operators.

**Refinement.** `ActorIsolationSpec` states the isolation rules of the concurrency test in `part_001` over the whole expression at once. `ActorIsolation` refines it through `INSTANCE ... WITH` (`Isolation`).

### `ConcurrencyRequests`, `InheritedTypes`, `FunctionBuilders`

Each request is a recursive operator over a "world" record that describes the declarations.

**Cycles.** The request evaluator's cycle handling is an `active` set. A request met again while it is being evaluated answers the default the code gives for a cycle:

- false for `IsActorRequest` and `IsAsyncHandlerRequest`;
- no type for a function builder;
- a cyclical-request error for `InheritedTypeRequest`.

**Harnesses.** `MC_TypeCheckRequests` enumerates every request with every world within its bounds. A single step records the answers, and the properties compare them with reference definitions written independently: a least fixpoint, an ancestor relation, or the set of candidate builders.

**Types.** Types are records of the features the requests test:

- the kind (class, struct, existential, class-bounded existential, error);
- whether the type is generic;
- whether it has been mapped into context.

### SIL access utilities

**`FindAccessedStorage`.** The call stack of the two visitors is a sequence of frames, one for a `findStorage` loop and one for `findPhiStorage`. Each visit handler is an action. `AccessStorageSpec` says which storage may be reported for an address, given every base reachable from it, and the walk refines it (`Soundness`).

**`SingleInitAllocStack`** is `isSingleInitAllocStack`'s loop.

- Its state is the LIFO worklist of uses, `foundInit`, the caller's `destroyingUses` vector and the result.
- Each case of the loop body is an action. The cases are: look through a projection, a load, a destroy, an allowed use, an initialization, an unknown use, and the end of the loop.
- An alloc_stack's uses form a tree. A projection's results have uses of their own.

**`FormalAccessBase`** is made of pure operators over an address chain of projections and `begin_access` markers that ends in a root value.

**`RemoveBeginAccess`** keeps, for each operand, its user and the value it uses: the `begin_access`, its source (which may be an outer `begin_access` with end_accesses of its own), or another value. It also keeps the set of erased users. `RemoveUse` is one loop iteration. `use_begin` may return any live use, since a use list's order is not specified. An `end_access` user is erased, which drops its operand from the list. Any other use is set to the source. `EraseBeginAccess` is the exit once `use_empty`.

**`AccessedAddressVisitor`** returns the operands handed to the visitor, in order, or `Unreachable`. An operand says whether it is address-typed, whether it is a `@noescape` function, and which partial_applies `findClosuresForFunctionValue` finds for it. That function is outside `src/`, so its answer is an input. `VisitArgs` and `VisitClosures` are mutually recursive, like `visitApplyAccesses`. The switch's long lists of instruction kinds are abstracted to representatives, since every kind in one list is treated alike. `CallSiteAccesses` is the reference: address arguments of every node reachable in the closure graph, computed with `Graphs`' `Descendants`.

### Option parsing: `ParseArgs`

**State.** One variable per options struct, each a record of the fields some step reads or some property compares:

- `fe` (`FrontendOptions`): executable path, static or shared resource folder, prebuilt cache, requested action, module name, `-parse-stdlib`, inputs;
- `lang`: the target and whether an SDK version was given;
- `search`: SDK, resource directory, `-nostdimport`, and the derived runtime library and import paths;
- `tc`, `sil`, `irgen`, `clang`, `diag`: body skipping, optimization mode, assert configuration, exclusivity enforcement, output kind, PCH directory and bridging header, diagnostic paths, locale and style.

`errors` says whether an error was diagnosed, `args` is the command line, `pc` the next stage, `result` what `parseArgs` returned, `calls` the setter calls made. A path is a sequence of components: `remove_filename` is `Front`, `path::append` is `\o`.

**Actions.** Each setter is an action, bounded by `MaxClientCalls`. `setMainExecutablePath` and `setRuntimeResourcePath` are only called before `parseArgs`, the contract the comment in `ParseSearchPathArgs` states. `ParseArgs` does the option table's checks. Each stage after it is one action, and each models its whole `Parse*Args` function and the `parseArgs` lines around it: `FrontendStage` (with `setMainExecutablePath`), `LangStage`, `TypeCheckerStage`, `ClangStage`, `SearchPathStage`, `SILStage`, `IRGenStage`, `DiagnosticStage`, and `Finish` (the path update, the prebuilt cache, IRGen output and bridging header).

**Abstractions.** A command line is a record of the option values each stage tells apart: absent, each accepted value, and one bad value where the code diagnoses one. `ParseFrontendArgs` delegates to a converter outside `src/`, so its results are inputs. `ParseLangArgs` keeps the target, the SDK version and its three error paths: a bad `-package-description-version` returns at once, before the target is set (362); an unsupported target or an error that sets `HadError` fails after `setTarget` (622–634, 685); and a bad `-swift-version`, `-Rpass` pattern or SDK version is only diagnosed, and parsing goes on (353, 558–563, 644–645, 656–657). `ParseIRGenArgs` keeps only whether it fails. File existence (`fs::exists`) is the constant set `ExistingPaths`.

## 3. Runs

The run `solver` uses `MC_ConstraintSolver`. The instance is:

- type variables 1, 2 and 3, where 3 is anchored on an integer literal whose default type is `TInt`;
- types `TInt` and `TDbl`, with `TInt` converting to `TDbl`;
- seven declarations. `fD` and `gD` are `TDbl` and the others are `TInt`. `fDis` is disfavored, and `fAsync` is `TDbl` with an async mismatch.

A problem is the concatenation, in this order, of:

1. any order-preserving choice of at most 3 of the base constraints `Bind(2,3)`, `Bind(1,2)`, `Conversion(3,1)`, `Bind(3,TDbl)` and `Bind(2,TInt)`;
2. no overload set for variable 1, or one of `<<fI,fD>>`, `<<fD,fI>>`, `<<fI,fI2>>`, `<<fDis,fI>>` and `<<fAsync,fD>>`;
3. optionally, the literal disjunction `Bind(3,TInt)` | `Bind(3,TDbl)`;
4. optionally, an overload set `<<gI,gD>>` for variable 2.

That gives 624 problems. Each is solved under each of the three policies `solve()` can be called with. The policy is `SolverState::AllowFreeTypeVariables` (`part_000:377–378`). The model holds it in the variable `allowFreeTypeVariables`, chosen in `Init` from the constant set `FreeTypeVariableBinding`, like the problem. `SolverSpec` has the same variable, and the refinement maps it to itself. One run covers the three policies: about 48,000 states in about 30 seconds.

| Run | Policies | Checks |
|---|---|---|
| `solver` | Disallow, Allow, UnresolvedType | TypeOK, NoMissedWakeup, OverloadResolvedOnce, UndoSoundness, ScopeOpenedWithoutFailure, Termination, Refinement |

What the properties say:

- **UndoSoundness.** Every scope exit restores the scope's snapshot exactly. The snapshot is the bindings, the set of live constraints, the resolved overloads, the score and the failure flag.
- **NoMissedWakeup.** At every fixed point of a consistent branch, no inactive non-disjunction constraint could make progress.
- **OverloadResolvedOnce** is the assert at `part_000:5215`.
- **ScopeOpenedWithoutFailure** is the assert at `part_000:491`.
- **Termination.** `<>(pc = "done")`.
- **Refinement.** The outcome and the set of best solutions are those of `SolverSpec`.

Each property has a mutant in `PROJECT.json`: a plausible bug in the mapped code that TLC then reports as a violation. The mutants are:

- replaying the journal oldest first;
- gathering only direct mentions;
- not truncating `ResolvedOverloads`;
- not clearing the failure flag;
- no pruning;
- not advancing to the next choice;
- recording the overload under its type;
- dropping the disfavored score;
- the higher id winning a merge;
- dropping `getFixedType`'s guard in `finalize`.

### Runs of the other modules

| Run | Module | Expect | Checks |
|---|---|---|---|
| `solve_stages` | `MC_SolveStages` | pass | ErrorReported, DiagnosedByOne, SolveReturns |
| `actor_isolation` | `MC_ActorIsolation` | pass | TypeOK, ContextStackMirrorsTree, Isolation |
| `actor_unbound` | `MC_ActorIsolation` | violation | NoUnreachable |
| `typecheck_requests` | `MC_TypeCheckRequests` | pass | ActorsInherited, ActorModifierHeeded, AsyncHandlersWellFormed, AsyncHandlersInferred, SuperclassIsClass, StagesAgree, InferenceUnambiguous |
| `inherited_types_deserialized` | `MC_TypeCheckRequests` | violation | StagesAgree |
| `findstorage` | `MC_FindAccessedStorage` | pass | Termination, PointerPhiSoundness |
| `findstorage_checkresult` | `MC_FindAccessedStorage` | violation | CheckResultAssert |
| `findstorage_nestedphi` | `MC_FindAccessedStorage` | violation | Soundness |
| `compiler_invocation` | `MC_CompilerInvocation` | pass | SingleInitDecided, DestroysCollected, AccessedAddressIsRoot, LetAddressNotFormallyAccessed, RuntimePathsCurrent, ExplicitPathsWin, AssertConfigFollowsOptimization, ExclusivityEnforced, ClosureAccessesVisited, RemovalComplete |
| `shrink` | `MC_Shrink` | pass | ReducedDomainsRecorded, NetKeepsSolvable |
| `shrink_pruning` | `MC_Shrink` | violation | PruningSound |

What the properties say:

**The `solve(target)` stage loop** (`solve_stages`):

- **ErrorReported.** A solve that returns None, with diagnostics not suppressed, leaves an error reported. Salvage only returns an ambiguity it has reported.
- **DiagnosedByOne.** At most one routine reports the target's failure. The routines are constraint generation, the fallback, too-complex, either ambiguity diagnosis, and `diagnoseFailureFor`.
- **SolveReturns.** Every solve returns. None falls out of the loop into its `llvm_unreachable`.

**Actor isolation** (`actor_isolation`, `actor_unbound`):

- **ContextStackMirrorsTree.** The walker's context stack is the closures on the path to the node it visits.
- **Isolation.** The diagnostics are exactly those of `ActorIsolationSpec`.
- **NoUnreachable.** No `llvm_unreachable` is reached. It fails, see the findings.

`MC_TypeCheckRequests` instantiates `ConcurrencyRequests`, `InheritedTypes` and `FunctionBuilders` under the prefixes `CR!`, `IT!` and `FB!`. A behaviour picks one request (`request.kind`) and one world of it, and then takes one step, `AskActor`, `AskAsyncHandler`, `AskInheritedTypes` or `AskFunctionBuilder`. Each property speaks only of its own request.

**Concurrency requests** (`typecheck_requests`):

- **ActorsInherited.** `IsActorRequest` agrees with "some ancestor is written `actor`", cycles included.
- **ActorModifierHeeded.** The `actor` modifier's diagnostics fire exactly when the code's conditions hold.
- **AsyncHandlersWellFormed.** An async handler has a well-formed signature.
- **AsyncHandlersInferred.** `IsAsyncHandlerRequest` equals the least fixpoint of inference through witnesses and dynamic replacements.

**Inherited types** (`typecheck_requests`, `inherited_types_deserialized`):

- **SuperclassIsClass.** The superclass is a class type or none, even when the clause starts with a class-bounded existential.
- **StagesAgree.** The structural, interface and contextual stages give the same types, up to mapping into context.

**Function builders** (`typecheck_requests`):

- **InferenceUnambiguous.** An inferred builder agrees with every candidate it could come from, or the ambiguity is diagnosed.

**`findAccessedStorage`** (the three `findstorage` runs):

- **Termination.** Every walk returns, phi cycles included.
- **Soundness.** A reported storage is the storage of every reachable base. It is checked on every graph, where it fails (`findstorage_nestedphi`).
- **PointerPhiSoundness.** Soundness on the graphs in which no begin_access is reached from a phi through phis and casts. On the other graphs, the refinement mapping holds the abstract result at Pending, which `AccessStorageSpec` allows by stuttering.
- **CheckResultAssert** is `checkResult`'s assert.

**`isSingleInitAllocStack`** (`compiler_invocation`, when the query is `"allocStack"`):

- **SingleInitDecided.** The loop's answer is the declarative definition: at most one initialization, in the block, and otherwise only allowed uses. This holds whatever order the worklist pops uses in and wherever an early return cuts it.
- **DestroysCollected.** On success, `destroyingUses` holds every `destroy_addr` exactly once, those under projections included.

**The address helpers** (`compiler_invocation`, when the query is `"formalAccess"`):

- **AccessedAddressIsRoot.** `getAccessedAddress` reaches the first value that is neither a projection nor a marker, however the two are interleaved.
- **LetAddressNotFormallyAccessed.** Storage whose root `isLetAddress` calls a let is never a possible formal access base. The two read let-ness through different paths: the instruction's field or global, versus `getDecl`.

**The access visitor** (`compiler_invocation`, when the query is `"visitAccess"`):

- **ClosureAccessesVisited.** At a full apply (`apply`, `begin_apply` or `try_apply`, which `FullApplySite::isa` catches before the switch), the visited operands are exactly the reference's. These are the call's address arguments and those of every closure reachable through `@noescape` function arguments, a closure passed to a closure included. A closure passed only as an escaping function contributes none.

**`removeBeginAccess`** (`compiler_invocation`, when the query is `"removeBeginAccess"`):

- **RemovalComplete.** On return, the erased instructions are exactly this `begin_access`'s own `end_access` users. Those of an outer access that is its source are not erased. Every other use of it now uses the source, and every other operand is unchanged. This holds whatever the use-list order.

**Option parsing** (`compiler_invocation`, when the query is `"parseArgs"`):

- **RuntimePathsCurrent.** Before `parseArgs`, and after it succeeds, the runtime library and import paths are those `updateRuntimeLibraryPaths` derives from the current resource directory, SDK, `-nostdimport` and target. This holds although `ParseLangArgs` and `ParseSearchPathArgs` change those inputs without updating the paths, and across `setTargetTriple` and `setSDKPath` calls after the parse.
- **ExplicitPathsWin.** After a successful parse, the resource directory derived from `parseArgs`' executable path follows `-use-static-resource-dir`. An explicit `-resource-dir` or `-diagnostic-documentation-path`, and an existing `-localization-path` given with a valid `-locale`, win over the derived ones. `ParseDiagnosticArgs` takes the localization path only once `LocalizationCode` is set (CompilerInvocation.cpp:987). Both follow from where `parseArgs` calls `setMainExecutablePath`.
- **AssertConfigFollowsOptimization.** Without `-assert-config`, the assert configuration is `DisableReplacement` for the standard library, `Unchecked` under `-Ounchecked`, and otherwise `Release` or `Debug` as IRGen optimizes or not. IRGen's mode equals SIL's.
- **ExclusivityEnforced.** An explicit `-enforce-exclusivity` decides static and dynamic enforcement. Without one, static enforcement stays on, and removing runtime asserts turns dynamic enforcement off.

**Shrinking** (`shrink`, `shrink_pruning`):

- **ReducedDomainsRecorded.** Every overload set whose domain differs from the original is in `shrunkExprs`. Reduced domains are allocated in the primary constraint system's allocator, and only those sets are copied into the permanent `ASTContext` arena, so any other changed domain would point into memory freed with the primary constraint system.
- **NetKeepsSolvable.** Suppose the collector walked every overload set, and the whole expression was the last candidate and did not bail out. Then an expression with a solution still has one after shrinking.
- **PruningSound** is spec.md's contract for shrinking: no choice used by a best solution of the whole expression is removed. It fails (`shrink_pruning`).

Every property of a passing run has a mutant in `PROJECT.json`. The mutant is a plausible bug in the mapped code, for example salvage returning an undiagnosed ambiguity, or getAccessedAddress stripping each kind once. TLC reports each mutant as a violation.

### Findings

The violation runs record disagreements between the code and its comments or tests:

- **`findstorage_checkresult`.** A `begin_access` on a pointer-phi path fails `checkResult`'s assert (CompilerInvocation.cpp:2225).
- **`findstorage_nestedphi`.** With assertions off, the same path drops the `begin_access` source. `findAccessedStorage` then reports one storage while another base is reachable.
- **`actor_unbound`.** A synchronous actor method named through its type without a call reaches `checkNonMemberReference`'s `llvm_unreachable` (TypeCheckConcurrency.cpp:530).
- **`shrink_pruning`.** In `f([g(1)])`, the element `g(1)` is a candidate on its own. Its search finds `gI` first and prunes `gD`, whose non-default literal scores worse. `applySolutions` then shrinks `g` to `{gI}`. The array literal is not walked, so `g` is never in `Domains`, and neither the primary's failure nor its bail-out restores it. With `f` in `{fD, fAsync}`, every solution of the expression needs `gD`, so code completion is left with none (part_000:687, 1099).
- **`inherited_types_deserialized`.** For a deserialized protocol, `SuperclassTypeRequest` returns the generic-signature bound unmapped at the contextual stage (TypeCheckRequestFunctions.cpp:93).

### Why the bounds are enough

Three variables are the fewest that make a class representative's parent chain two deep. `Bind(2,3)` then `Bind(1,2)` does this, and a later lookup of 3 journals a second entry for 3 in the same scope. This is the case that breaks an oldest-first undo.

Two types and one conversion give failing and succeeding conversions. The literal disjunction exercises the non-default-literal score. The disfavored and async overloads make the first solution found better or worse than a later one, so pruning is exercised both ways. Up to three disjunctions nest steps three deep.

TLC reaches Solved, Ambiguous and UndiagnosedError outcomes, branches cut off by the best score, and at least three solutions in one search.

For the other modules:

- **`MC_SolveStages`.** Up to three solutions per attempt: one is a success, and two or more are an ambiguity. Two fix-free solutions remain even when one needs fixes. Every option set and every prior `hadAnyError()` are covered. Two targets show an earlier target's error standing in for a later one's fallback. Every case of the switch, at both stages, is reached (144 states).
- **Request harnesses.**
  - Three classes give superclass chains and cycles of length one to three.
  - One requirement and two functions give witnesses, mutual and self replacement, and replacement cycles.
  - Two requirements with a generic builder bound to X or Y give conflicting inferred builders.
  - Two-entry inheritance clauses put any kind before any other, cycles included.
- **`MC_FindAccessedStorage`.** Every graph of up to four values, including phi cycles and a phi inside a phi's path.
- **`MC_CompilerInvocation`, `"allocStack"` queries.** Every use list of up to three uses of the twelve kinds the loop tells apart, and projections with one or two uses of their own. This puts two initializations, a destroy under a projection, and a late early return on each side of the LIFO order.
- **`MC_CompilerInvocation`, `"formalAccess"` queries.** Every chain of up to three projections and markers, so a marker can sit between two projections, over every root kind with and without a let declaration.
- **`MC_CompilerInvocation`, `"visitAccess"` queries.** The queries cover:
  - every full apply (`apply`, `begin_apply`, `try_apply`) with up to three arguments, each an address, a value, a `@noescape` function whose closures are none, `pa1`, `pa2` or both, or an escaping function (`pa3`);
  - `pa2` captures `pa1` as a `@noescape` function, so the recursion goes two deep, and `pa1` is reached along two paths;
  - every builtin and intrinsic class;
  - each kind of the switch, with a value as a store's source and as an `unconditional_checked_cast` operand;
  - kinds that reach `llvm_unreachable`.
- **`MC_CompilerInvocation`, `"removeBeginAccess"` queries.** Every use graph of up to four operands is checked. The users are two `end_access`es (one operand each, on the access or on its source), a load, and a `copy_addr` with two operands, on any value. This puts an outer access's `end_access` and a user with two uses of the access in the list.
- **`MC_CompilerInvocation`, `"parseArgs"` queries.** There are 347 command lines, in families:
  - every stage's failure alone, and with an SDK and a Linux target, `ParseLangArgs`' early `-package-description-version` failure and its diagnosed-only errors included;
  - paths: executable path, static resource folder, SDK, resource directory, three targets, `-nostdimport`;
  - the prebuilt cache with and without an SDK version, for macOS and Mac Catalyst;
  - diagnostics: documentation path, an existing and a missing localization path, a valid and an unknown locale, the style; `-warnings-as-errors` and `-suppress-warnings` each alone, since `ParseDiagnosticArgs` asserts that the driver never passes both;
  - SIL: every `-O` option with every `-assert-config`, with and without `-parse-stdlib`; `-O`, `-Ounchecked` or none with `-remove-runtime-asserts` and every `-enforce-exclusivity` value;
  - body skipping for `main` and `SwiftOnoneSupport`, and every action with and without a PCH directory and inputs.

  Each is parsed after and before up to two setter calls over four targets. The families put each ordering the properties depend on on both sides: `-Ounchecked` with an explicit configuration or exclusivity, a static resource folder with an executable path, a failing stage after the SDK was set (206,358 states together with the other queries, in 10 s).

- **`MC_Shrink`.** There are 96 expressions: the two shapes `f([g(1)])` and `k(f(g(1)))`, the latter with or without a closure argument. They vary over:
  - four two-decl domains for `f` (disfavored, generic, async, or plain first);
  - both orders of `g`'s domain;
  - a contextual conversion or an exact parameter;
  - whether generation fails for the inner candidate.

  Two candidates per expression are enough for a reduction to outlive a failed or bailed primary. Both domain orders decide whether pruning by best score drops a decl. The generic decl reaches `applySolutions`' early return (5,175 states).

### Fairness

The solver runs synchronously on one thread until `solve` returns, so `Spec` assumes weak fairness of `Next`.

TLC evaluates `ENABLED` without caching, which is too slow for these actions. `Fairness` therefore writes `WF_vars(Next)` with `ENABLED <<Next>>_vars` replaced by its value `pc # "done"`. This is exact because:

- the actions' guards partition the other `pc` values;
- their bodies have no further guard, since every `CASE` has a catch-all;
- every step changes `pc` or the active list.

The search may stop only at `pc = "done"`, where `solve` has returned, so the runs set `CHECK_DEADLOCK FALSE`. A state that is stuck anywhere else would violate `Termination`.

The same reasoning, synchronous code on one thread, justifies weak fairness of `Next` in the other specifications:

- `SolveStages` and `MC_SolveStages`, where `SolveReturns` depends on it;
- `ActorIsolation` and `ActorIsolationSpec` (the walker);
- `FindAccessedStorage` (the walk);
- `SingleInitAllocStack` (the loop);
- `RemoveBeginAccess` (the loop), which states no liveness: each iteration removes a use of a finite list;
- `Shrink` (the candidate loop). It uses the same `CanStep` form as the solver, with `phase # "done"`: in `loop`, `Bail`, `GenerationFails` or `LoopDone` is enabled, and in `solving`, `SolverStep` or `SolveDone` is.

Their runs stop when the function returns, and say so with `CHECK_DEADLOCK FALSE`. The request harness takes one `Ask` step and then stops, as does `MC_CompilerInvocation` after `Evaluate`, the end of the loop, or a client's last call. `ParseArgs` states no liveness: `parseArgs` is a straight sequence of calls, and its stages have no loop that could fail to end. `Shrink` keeps its fairness but no run states liveness of it.

## 4. What is not modelled, and the plan

Not modelled, with the reason:

- **`TypeVariableStep`, designated types and the `DisjunctionStep` skip heuristics.** They live in `CSStep.cpp` and `CSBindings.cpp`, outside `src/`, or need structured types. With them absent, a variable that no Bind fixes stays free, and the policy decides what happens to it.
- **Fixes, restrictions, opened types and the other lists `SolverScope` truncates.** No property tells them apart.
- **Type structure:** function types, generics, locator paths and `applySolution`.
- **Bodies of `diagnoseAmbiguity`, `diagnoseAmbiguityWithFixes` and the `ExpressionTimer`.** `SolveStages` abstracts them to whether they report and whether the expression became too complex. Their bodies compare solution diffs and time: data, not control.
- **Late-stage phis in `isPossibleFormalAccessBase`.** An address-typed phi, or a box phi with several predecessors, reaches `checkSwitchEnumBlockArg`'s `llvm_unreachable`. The model answers `Unreachable` for such phis. Which phis the optimizer forms is decided elsewhere, so no run claims they do not occur.
- **The rest of MemAccessUtils:** `isExternalGlobalAddressor`, `isUnsafePointerExtraction` and printing. These are per-instruction classifications and formatting.
- **The runtime-path usage contract (CompilerInvocation.cpp:907).** The contract is that a client sets the executable or resource path before `parseArgs`. The model's clients keep it: `BeforeParse` guards the two setters. A client that breaks it silently replaces an explicit `-resource-dir` and the diagnostic paths. Nothing in the code enforces the contract, and no run claims clients keep it.
- **`unconditional_checked_cast_addr` and `unchecked_ref_cast_addr` in `visitAccessedAddress`.** They are listed as non-access kinds, although they read their source and write their destination. The model follows the code, and no property claims otherwise.
- **`ExprCollector`'s traversal.** It is a pure walk of the AST. `MC_Shrink` writes down its result for each expression shape: the candidates, their order, and the walked overload sets. The traversal itself is not an action.
- **The rest of option parsing.** `ParseLangArgs` apart from the target, `ParseIRGenArgs`' options, `ParseTBDGenArgs`, `ParseMigratorArgs`, `ParseModuleInterfaceArgs`, the serialized-AST loaders and sanitizer parsing are left out. Each sets options no other step reads; their failures and diagnosed-only errors are kept as inputs of `ParseArgs`' stages.
- **The build cache and documentation.** They have no state machine.

Plan for the next sittings, most important first:

1. **`filterDisjunction`.** Add its action to `ConstraintSolver`, covering the single-choice commit and the restore when no choice is left.
2. **Mutants on code-mapped definitions.** The mutants for NoMissedWakeup and Termination change definitions modelled from `spec.md`. Add mutants of `src/` code for them, for example in `addTypeVariableConstraintsToWorkList`, `simplify` and `~SolverScope`.
3. **`ParseLangArgs` and `ParseIRGenArgs`.** Add the options some later step reads (the effective language version, typo-correction limit, debug info level) where a property can tell them apart.
