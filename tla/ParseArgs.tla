------------------------------ MODULE ParseArgs ------------------------------
(***************************************************************************)
(* CompilerInvocation (lib/Frontend/CompilerInvocation.cpp): the public   *)
(* setters a client calls on an invocation, and parseArgs, which runs the *)
(* Parse*Args functions in order and returns true (failure) at the first  *)
(* that fails.  Option values are abstracted to the cases the code tells  *)
(* apart; a path is a sequence of components, so that remove_filename is  *)
(* Front and path::append is \o.  Stages whose detail no property reads   *)
(* (ParseFrontendArgs, ParseLangArgs apart from the target,               *)
(* ParseClangImporterArgs, ParseIRGenArgs) keep their failure and the     *)
(* fields later stages read; ParseTBDGenArgs and ParseMigratorArgs never  *)
(* fail and write nothing a later step reads.                             *)
(***************************************************************************)
EXTENDS Naturals, SequencesExt

CONSTANTS
    Triples,         \* targets: [platform, arch, darwin, catalyst, supported]
    DefaultTriple,   \* llvm::sys::getDefaultTargetTriple()
    ArgLists,        \* the parsed command lines parseArgs may be given
    ExecutablePaths, \* main executable paths (at least two components)
    SetterPaths,     \* resource and SDK paths a client passes
    ExistingPaths,   \* the paths llvm::sys::fs::exists finds
    LocaleCodes,     \* localeCodes, from LocalizationLanguages.def
    NoArgs,          \* the empty command line
    MaxClientCalls   \* bound on the setter calls of one behaviour

VARIABLES
    fe, lang, search, tc, sil, irgen, clang, diag,  \* the invocation's options
    errors,   \* the DiagnosticEngine has emitted an error
    args,     \* the command line of the parseArgs call
    pc,       \* "idle", the next Parse*Args stage, or "returned"
    result,   \* <<what parseArgs returned>>, or <<>> before it is called
    calls     \* setter calls made

opts == <<fe, lang, search, tc, sil, irgen, clang, diag>>
vars == <<opts, errors, args, pc, result, calls>>

SwiftOnoneSupport == "SwiftOnoneSupport"
DarwinOSLibraryPath == <<"", "usr", "lib", "swift">>
-----------------------------------------------------------------------------
(* Paths derived from the executable and the resource directory.          *)
ToolchainRoot(exe) == Front(Front(exe))   \* remove /swift, then /bin

AppendSwiftLibDir(p, shared) == p \o <<"lib", IF shared THEN "swift" ELSE "swift_static">>

ComputeRuntimeResourcePathFromExecutablePath(exe, shared) ==
    AppendSwiftLibDir(ToolchainRoot(exe), shared)

(* updateRuntimeLibraryPaths.                                              *)
LibSubDir(t) == IF t.catalyst THEN "maccatalyst" ELSE t.platform

RuntimeLibraryPaths(s, t) ==
    <<s.resource \o <<LibSubDir(t)>>>> \o (IF t.darwin THEN <<DarwinOSLibraryPath>> ELSE <<>>)

RuntimeLibraryImportPaths(s, t) ==
    LET lib == s.resource \o <<LibSubDir(t)>>
        sdk == s.sdk \o <<"usr", "lib", "swift">>
    IN  IF s.skip THEN <<>>
        ELSE <<lib>>
             \o (IF t.darwin THEN <<>> ELSE <<lib \o <<t.arch>>>>)
             \o (IF s.sdk = <<>> THEN <<>>
                 ELSE (IF t.catalyst
                       THEN <<s.sdk \o <<"System", "iOSSupport", "usr", "lib", "swift">>>>
                       ELSE <<>>)
                      \o <<IF t.darwin THEN sdk ELSE sdk \o <<t.platform, t.arch>>>>)

UpdateRuntimeLibraryPaths(s, t) ==
    [s EXCEPT !.libPaths = RuntimeLibraryPaths(s, t),
              !.importPaths = RuntimeLibraryImportPaths(s, t)]

(* setRuntimeResourcePath, as a function of the search path options.      *)
WithRuntimeResourcePath(s, t, p) == UpdateRuntimeLibraryPaths([s EXCEPT !.resource = p], t)

(* setMainExecutablePath's effect on each of the options it writes.        *)
MainExecutableSearch(s, t, exe, shared) ==
    WithRuntimeResourcePath(s, t, ComputeRuntimeResourcePathFromExecutablePath(exe, shared))

MainExecutableDiag(d, exe) ==
    [d EXCEPT !.docPath = ToolchainRoot(exe) \o <<"share", "doc", "swift", "diagnostics">>,
              !.locPath = ToolchainRoot(exe) \o <<"share", "swift", "diagnostics">>]
-----------------------------------------------------------------------------
(* A default-constructed CompilerInvocation: every options struct has its *)
(* member defaults, then the constructor calls setTargetTriple with the   *)
(* host triple.                                                            *)
DefaultSearch ==
    [sdk |-> <<>>, resource |-> <<>>, skip |-> FALSE, libPaths |-> <<>>, importPaths |-> <<>>]

Init ==
    /\ fe = [mainExec |-> <<>>, useShared |-> TRUE, prebuiltCache |-> <<>>,
             action |-> "NoneAction", moduleName |-> "main", parseStdlib |-> FALSE,
             hasInputs |-> FALSE]
    /\ lang = [target |-> DefaultTriple, sdkVersion |-> FALSE]
    /\ search = UpdateRuntimeLibraryPaths(DefaultSearch, DefaultTriple)
    /\ tc = [skipBodies |-> FALSE, shrinkThreshold |-> "default"]
    /\ sil = [optMode |-> "NoOptimization", assertConfig |-> "Debug", removeAsserts |-> FALSE,
              exclStatic |-> TRUE, exclDynamic |-> TRUE, skipBodies |-> FALSE]
    /\ irgen = [optMode |-> "NoOptimization", outputKind |-> "ObjectFile", useJIT |-> FALSE]
    /\ clang = [optimization |-> FALSE, pchOutputDir |-> FALSE, bridgingHeader |-> FALSE]
    /\ diag = [docPath |-> <<>>, locPath |-> <<>>, locCode |-> "", style |-> "LLVM",
               warningsAsErrors |-> FALSE, suppressWarnings |-> FALSE]
    /\ errors = FALSE
    /\ args = NoArgs
    /\ pc = "idle"
    /\ result = <<>>
    /\ calls = 0
-----------------------------------------------------------------------------
(* The setters, called by a client between the invocation's other uses.   *)
(* ParseSearchPathArgs' comment states their contract: the executable or  *)
(* resource path is set before setTargetTriple and parseArgs, which keep  *)
(* the paths derived from it up to date.                                   *)
BeforeParse == result = <<>>

ClientCall ==
    /\ pc \in {"idle", "returned"}
    /\ calls < MaxClientCalls
    /\ calls' = calls + 1
    /\ UNCHANGED <<errors, args, pc, result>>

SetMainExecutablePath(exe) ==
    /\ ClientCall /\ BeforeParse
    /\ fe' = [fe EXCEPT !.mainExec = exe]
    /\ search' = MainExecutableSearch(search, lang.target, exe, fe.useShared)
    /\ diag' = MainExecutableDiag(diag, exe)
    /\ UNCHANGED <<lang, tc, sil, irgen, clang>>

SetRuntimeResourcePath(p) ==
    /\ ClientCall /\ BeforeParse
    /\ search' = WithRuntimeResourcePath(search, lang.target, p)
    /\ UNCHANGED <<fe, lang, tc, sil, irgen, clang, diag>>

SetTargetTriple(t) ==
    /\ ClientCall
    /\ lang' = [lang EXCEPT !.target = t]
    /\ search' = UpdateRuntimeLibraryPaths(search, t)
    /\ UNCHANGED <<fe, tc, sil, irgen, clang, diag>>

SetSDKPath(p) ==
    /\ ClientCall
    /\ search' = UpdateRuntimeLibraryPaths([search EXCEPT !.sdk = p], lang.target)
    /\ UNCHANGED <<fe, lang, tc, sil, irgen, clang, diag>>
-----------------------------------------------------------------------------
(* parseArgs and the Parse*Args stages it runs, in order.                  *)
Goto(stage) == pc' = stage /\ UNCHANGED result

Return(failed) == pc' = "returned" /\ result' = <<failed>>

(* A stage that diagnoses an error and returns true.                      *)
Fail == errors' = TRUE /\ Return(TRUE)

(* The client calls parseArgs once.  The option table reports arguments   *)
(* missing their values, then unknown arguments.                           *)
ParseArgs(a) ==
    /\ pc = "idle" /\ result = <<>>
    /\ args' = a
    /\ \/ a.empty /\ Return(FALSE) /\ UNCHANGED errors
       \/ ~a.empty /\ (a.missing \/ a.unknown) /\ Fail
       \/ ~a.empty /\ ~a.missing /\ ~a.unknown /\ Goto("frontend") /\ UNCHANGED errors
    /\ UNCHANGED <<opts, calls>>

(* ParseFrontendArgs, then setMainExecutablePath with parseArgs'          *)
(* mainExecutablePath when it is not empty.                               *)
ParsedFrontend(a) ==
    [fe EXCEPT !.action = a.action, !.moduleName = a.moduleName, !.parseStdlib = a.parseStdlib,
               !.useShared = a.useShared, !.hasInputs = a.hasInputs,
               !.prebuiltCache = IF a.prebuiltCache = <<>> THEN @ ELSE a.prebuiltCache]

(* Mutant: setMainExecutablePath run before ParseFrontendArgs.             *)
FrontendStageMainExecutableFirst ==
    /\ pc = "frontend"
    /\ \/ args.frontendFails /\ Fail /\ UNCHANGED opts
       \/ /\ ~args.frontendFails
          /\ IF args.mainExec = <<>>
             THEN fe' = ParsedFrontend(args) /\ UNCHANGED <<search, diag>>
             ELSE /\ fe' = [ParsedFrontend(args) EXCEPT !.mainExec = args.mainExec]
                  /\ search' = MainExecutableSearch(search, lang.target, args.mainExec,
                                                     fe.useShared)
                  /\ diag' = MainExecutableDiag(diag, args.mainExec)
          /\ Goto("lang") /\ UNCHANGED <<errors, lang, tc, sil, irgen, clang>>
    /\ UNCHANGED <<args, calls>>

FrontendStage ==
    /\ pc = "frontend"
    /\ \/ args.frontendFails /\ Fail /\ UNCHANGED opts
       \/ /\ ~args.frontendFails
          /\ IF args.mainExec = <<>>
             THEN fe' = ParsedFrontend(args) /\ UNCHANGED <<search, diag>>
             ELSE /\ fe' = [ParsedFrontend(args) EXCEPT !.mainExec = args.mainExec]
                  /\ search' = MainExecutableSearch(search, lang.target, args.mainExec,
                                                     args.useShared)
                  /\ diag' = MainExecutableDiag(diag, args.mainExec)
          /\ Goto("lang") /\ UNCHANGED <<errors, lang, tc, sil, irgen, clang>>
    /\ UNCHANGED <<args, calls>>

(* ParseLangArgs: a bad -package-description-version returns at once,   *)
(* before the target is set.  Otherwise -target replaces the target       *)
(* through LangOptions::setTarget, which does not update the runtime      *)
(* library paths; an unsupported OS or architecture, or an error that     *)
(* sets HadError, fails the stage after the target is set; other errors   *)
(* (a bad -swift-version, -Rpass pattern or SDK version) are diagnosed    *)
(* and parsing goes on.                                                   *)
LangStage ==
    /\ pc = "lang"
    /\ \/ /\ args.pkgVersionBad
          /\ Fail
          /\ UNCHANGED lang
       \/ /\ ~args.pkgVersionBad
          /\ LET target == IF args.target = <<>> THEN lang.target ELSE Head(args.target)
             IN  /\ lang' = [target |-> target, sdkVersion |-> lang.sdkVersion \/ args.sdkVersion]
                 /\ IF args.langFails \/ ~target.supported THEN Fail
                    ELSE /\ errors' = (errors \/ args.langDiag)
                         /\ Goto("typeChecker")
    /\ UNCHANGED <<fe, search, tc, sil, irgen, clang, diag, args, calls>>

(* ParseTypeCheckerArgs: an unsigned option that is not a number is an    *)
(* error, but the stage parses the rest before it returns.  Skipping      *)
(* non-inlinable bodies is turned off again for SwiftOnoneSupport.        *)
SkipNonInlinableFunctionBodies(skip, a, moduleName) ==
    (skip \/ a.skipBodies) /\ moduleName # SwiftOnoneSupport

TypeCheckerStage ==
    /\ pc = "typeChecker"
    /\ LET bad == args.shrinkThreshold = "bad"
       IN  /\ tc' = [skipBodies |-> SkipNonInlinableFunctionBodies(tc.skipBodies, args,
                                                                   fe.moduleName),
                     shrinkThreshold |-> IF args.shrinkThreshold = "n" THEN "n"
                                         ELSE tc.shrinkThreshold]
           /\ IF bad THEN Fail ELSE Goto("clang") /\ UNCHANGED errors
    /\ UNCHANGED <<fe, lang, search, sil, irgen, clang, diag, args, calls>>

(* ParseClangImporterArgs, which never fails.                              *)
ClangStage ==
    /\ pc = "clang"
    /\ clang' = [clang EXCEPT !.pchOutputDir = @ \/ args.pchOutputDir]
    /\ Goto("searchPath")
    /\ UNCHANGED <<fe, lang, search, tc, sil, irgen, diag, errors, args, calls>>

(* ParseSearchPathArgs sets the SDK and resource directory without         *)
(* updating the runtime library paths, and never fails.                    *)
SearchPathStage ==
    /\ pc = "searchPath"
    /\ search' = [search EXCEPT !.sdk = IF args.sdk = <<>> THEN @ ELSE args.sdk,
                                 !.resource = IF args.resourceDir = <<>> THEN @ ELSE args.resourceDir,
                                 !.skip = @ \/ args.nostdimport]
    /\ Goto("sil")
    /\ UNCHANGED <<fe, lang, tc, sil, irgen, clang, diag, errors, args, calls>>

(* The -O group of ParseSILArgs: the optimization mode, and -Ounchecked's  *)
(* removal of runtime checks.                                              *)
OptModeOf(o) ==
    CASE o = "Osize" -> "ForSize"
      [] o \in {"O", "Ounchecked"} -> "ForSpeed"
      [] OTHER -> "NoOptimization"   \* none given, -Onone, -Oplayground

WithOptimization(s, a) ==
    [s EXCEPT !.optMode = OptModeOf(a.opt),
              !.removeAsserts = @ \/ a.opt = "Ounchecked",
              !.assertConfig = IF a.opt = "Ounchecked" THEN "Unchecked" ELSE @]

(* -assert-config, or the default for the standard library or for the     *)
(* optimization level IRGen was given, unless -Ounchecked chose one; then *)
(* -remove-runtime-asserts.                                                *)
AssertConfigs == {"DisableReplacement", "Debug", "Release", "Unchecked"}

(* Mutant: the optimization level overrides -Ounchecked's configuration.   *)
WithAssertConfigOverridingUnchecked(s, a, parseStdlib, irgenOptMode) ==
    [s EXCEPT !.assertConfig =
                  CASE a.assertConfig \in AssertConfigs -> a.assertConfig
                    [] parseStdlib -> "DisableReplacement"
                    [] OTHER -> IF irgenOptMode = "NoOptimization" THEN "Debug" ELSE "Release",
              !.removeAsserts = @ \/ a.removeAsserts]

WithAssertConfig(s, a, parseStdlib, irgenOptMode) ==
    [s EXCEPT !.assertConfig =
                  CASE a.assertConfig \in AssertConfigs -> a.assertConfig
                    [] parseStdlib -> "DisableReplacement"
                    [] @ = "Debug" -> IF irgenOptMode = "NoOptimization" THEN "Debug" ELSE "Release"
                    [] OTHER -> @,
              !.removeAsserts = @ \/ a.removeAsserts]

(* parseExclusivityEnforcementOptions: an unsupported value is diagnosed  *)
(* and changes nothing.                                                    *)
ExclusivityModes == {"unchecked", "checked", "dynamic-only", "none"}

ParseExclusivityEnforcementOptions(s, m) ==
    IF m \in ExclusivityModes
    THEN [s EXCEPT !.exclStatic = m \in {"unchecked", "checked"},
                   !.exclDynamic = m \in {"checked", "dynamic-only"}]
    ELSE s

(* Removing runtime asserts turns dynamic exclusivity checks off, then an  *)
(* explicit -enforce-exclusivity decides.                                  *)
(* Mutant: -enforce-exclusivity parsed before the runtime-assert reset.    *)
WithExclusivityParsedFirst(s, a) ==
    LET parsed == IF a.excl = "absent" THEN s ELSE ParseExclusivityEnforcementOptions(s, a.excl)
    IN  [parsed EXCEPT !.exclDynamic = @ /\ ~parsed.removeAsserts]

WithExclusivity(s, a) ==
    LET reset == [s EXCEPT !.exclDynamic = @ /\ ~s.removeAsserts]
    IN  IF a.excl = "absent" THEN reset ELSE ParseExclusivityEnforcementOptions(reset, a.excl)

(* ParseSILArgs: a non-numeric inliner or unroller threshold fails before *)
(* anything is set; an unknown -assert-config, or a -save-optimization-   *)
(* record format that is not one, fails after the options before it are  *)
(* set; an unsupported -enforce-exclusivity value is diagnosed and the    *)
(* stage still succeeds.                                                   *)
SILStage ==
    /\ pc = "sil"
    /\ LET s1 == [WithOptimization(sil, args) EXCEPT !.skipBodies = tc.skipBodies]
           s2 == WithAssertConfig(s1, args, fe.parseStdlib, s1.optMode)
       IN  \/ args.silIntBad /\ Fail /\ UNCHANGED <<sil, irgen, clang>>
           \/ /\ ~args.silIntBad
              /\ irgen' = [irgen EXCEPT !.optMode = s1.optMode]
              /\ clang' = [clang EXCEPT !.optimization =
                                @ \/ (args.opt # "absent" /\ s1.optMode # "NoOptimization")]
              /\ \/ args.assertConfig = "bad" /\ sil' = s1 /\ Fail
                 \/ args.assertConfig # "bad" /\ args.remarkBad /\ sil' = s2 /\ Fail
                 \/ /\ args.assertConfig # "bad" /\ ~args.remarkBad
                    /\ sil' = WithExclusivity(s2, args)
                    /\ errors' = (errors \/ args.excl = "bad")
                    /\ Goto("irgen")
    /\ UNCHANGED <<fe, lang, search, tc, diag, args, calls>>

(* ParseIRGenArgs (and ParseTBDGenArgs, which never fails).               *)
IRGenStage ==
    /\ pc = "irgen"
    /\ \/ args.irgenFails /\ Fail
       \/ ~args.irgenFails /\ Goto("diagnostic") /\ UNCHANGED errors
    /\ UNCHANGED <<opts, args, calls>>

(* ParseDiagnosticArgs: an unknown -diagnostic-style fails; an unknown    *)
(* -locale or a -localization-path that does not exist is only warned     *)
(* about, and leaves the option as it was; an existing -localization-path *)
(* is taken only once a locale code is set.                               *)
DiagnosticStage ==
    /\ pc = "diagnostic"
    /\ \/ /\ args.style = "bad"
          /\ diag' = [diag EXCEPT !.style = "LLVM"]
          /\ Fail
       \/ /\ args.style # "bad"
          /\ LET locCode == IF args.locale \in LocaleCodes THEN args.locale ELSE diag.locCode
             IN  diag' = [diag EXCEPT
                     !.style = IF args.style = "swift" THEN "Swift" ELSE "LLVM",
                     !.suppressWarnings = @ \/ args.suppressWarnings,
                     !.warningsAsErrors = args.warningsAsErrors,
                     !.docPath = IF args.docPath = <<>> THEN @ ELSE args.docPath,
                     !.locCode = locCode,
                     !.locPath = IF args.locPath \in ExistingPaths /\ locCode # ""
                                 THEN args.locPath ELSE @]
          /\ Goto("finish") /\ UNCHANGED errors
    /\ UNCHANGED <<fe, lang, search, tc, sil, irgen, clang, args, calls>>

(* setDefaultPrebuiltCacheIfNecessary.                                      *)
SetDefaultPrebuiltCacheIfNecessary(f, s, l) ==
    LET platform == IF l.target.catalyst THEN "macosx" ELSE l.target.platform
        default == s.resource \o <<platform, "prebuilt-modules">>
        versioned == default \o <<"sdkVersion">>
    IN  IF f.prebuiltCache # <<>> \/ s.resource = <<>> THEN f
        ELSE [f EXCEPT !.prebuiltCache =
                 IF l.sdkVersion /\ versioned \in ExistingPaths THEN versioned ELSE default]

(* setIRGenOutputOptsFromFrontendOptions.                                   *)
OutputKindOf(action) ==
    CASE action = "EmitIR" -> "LLVMAssembly"
      [] action = "EmitBC" -> "LLVMBitcode"
      [] action = "EmitAssembly" -> "NativeAssembly"
      [] action = "Immediate" -> "Module"
      [] OTHER -> "ObjectFile"

SetIRGenOutputOptsFromFrontendOptions(i, f) ==
    [i EXCEPT !.outputKind = OutputKindOf(f.action), !.useJIT = @ \/ f.action = "Immediate"]

(* setBridgingHeaderFromFrontendOptions.                                    *)
SetBridgingHeaderFromFrontendOptions(c, f) ==
    [c EXCEPT !.bridgingHeader = @ \/ (f.action = "EmitPCH" /\ f.hasInputs /\ c.pchOutputDir)]

(* Mutant: the runtime library paths not updated at the end.              *)
FinishWithoutUpdate ==
    /\ pc = "finish"
    /\ fe' = SetDefaultPrebuiltCacheIfNecessary(fe, search, lang)
    /\ irgen' = SetIRGenOutputOptsFromFrontendOptions(irgen, fe)
    /\ clang' = SetBridgingHeaderFromFrontendOptions(clang, fe)
    /\ Return(FALSE)
    /\ UNCHANGED <<search, lang, tc, sil, diag, errors, args, calls>>

(* The end of parseArgs, once every stage has succeeded.                   *)
Finish ==
    /\ pc = "finish"
    /\ search' = UpdateRuntimeLibraryPaths(search, lang.target)
    /\ fe' = SetDefaultPrebuiltCacheIfNecessary(fe, search, lang)
    /\ irgen' = SetIRGenOutputOptsFromFrontendOptions(irgen, fe)
    /\ clang' = SetBridgingHeaderFromFrontendOptions(clang, fe)
    /\ Return(FALSE)
    /\ UNCHANGED <<lang, tc, sil, diag, errors, args, calls>>
-----------------------------------------------------------------------------
Next ==
    \/ \E exe \in ExecutablePaths : SetMainExecutablePath(exe)
    \/ \E p \in SetterPaths : SetRuntimeResourcePath(p) \/ SetSDKPath(p)
    \/ \E t \in Triples : SetTargetTriple(t)
    \/ \E a \in ArgLists : ParseArgs(a)
    \/ FrontendStage \/ LangStage \/ TypeCheckerStage \/ ClangStage \/ SearchPathStage
    \/ SILStage \/ IRGenStage \/ DiagnosticStage \/ Finish

Spec == Init /\ [][Next]_vars
-----------------------------------------------------------------------------
Stages == {"frontend", "lang", "typeChecker", "clang", "searchPath", "sil", "irgen",
           "diagnostic", "finish"}

(* The options stay within the values the code gives them.                *)
TypeOK ==
    /\ pc \in {"idle", "returned"} \cup Stages
    /\ result \in {<<>>, <<TRUE>>, <<FALSE>>}
    /\ args \in ArgLists \cup {NoArgs}
    /\ lang.target \in Triples
    /\ sil.optMode \in {"NoOptimization", "ForSpeed", "ForSize"}
    /\ sil.assertConfig \in AssertConfigs
    /\ {sil.exclStatic, sil.exclDynamic, sil.removeAsserts, tc.skipBodies} \subseteq BOOLEAN
    /\ calls \in 0..MaxClientCalls

(* A successful parse of a non-empty command line.                        *)
Parsed == pc = "returned" /\ result = <<FALSE>> /\ ~args.empty

(* Whenever a client may use the invocation (before parseArgs, or after   *)
(* it succeeded, setTargetTriple and setSDKPath included) the runtime     *)
(* library and import paths are those updateRuntimeLibraryPaths derives   *)
(* from the current resource directory, SDK, -nostdimport and target,     *)
(* although ParseLangArgs and ParseSearchPathArgs change these without    *)
(* updating the paths.                                                     *)
RuntimePathsCurrent ==
    pc = "idle" \/ (pc = "returned" /\ result = <<FALSE>>) =>
        /\ search.libPaths = RuntimeLibraryPaths(search, lang.target)
        /\ search.importPaths = RuntimeLibraryImportPaths(search, lang.target)

(* parseArgs runs setMainExecutablePath after ParseFrontendArgs and       *)
(* before ParseSearchPathArgs and ParseDiagnosticArgs: the resource       *)
(* directory it derives follows -use-static-resource-dir, and an explicit *)
(* -resource-dir or -diagnostic-documentation-path, and an existing       *)
(* -localization-path given with a valid -locale, win over what it        *)
(* derives.                                                                *)
ExplicitPathsWin ==
    Parsed =>
        /\ args.resourceDir # <<>> => search.resource = args.resourceDir
        /\ args.resourceDir = <<>> /\ args.mainExec # <<>> =>
               search.resource = ComputeRuntimeResourcePathFromExecutablePath(args.mainExec,
                                                                              args.useShared)
        /\ args.docPath # <<>> => diag.docPath = args.docPath
        /\ args.locPath \in ExistingPaths /\ args.locale \in LocaleCodes =>
               diag.locPath = args.locPath

(* Without -assert-config, the assert configuration is DisableReplacement *)
(* for the standard library, Unchecked under -Ounchecked, and otherwise   *)
(* follows the optimization level ParseSILArgs hands to IRGen: Release    *)
(* when optimizing, Debug when not.                                        *)
AssertConfigFollowsOptimization ==
    Parsed /\ args.assertConfig = "absent" =>
        /\ irgen.optMode = sil.optMode
        /\ sil.assertConfig =
               CASE fe.parseStdlib -> "DisableReplacement"
                 [] args.opt = "Ounchecked" -> "Unchecked"
                 [] sil.optMode # "NoOptimization" -> "Release"
                 [] OTHER -> "Debug"

(* An explicit -enforce-exclusivity decides both static and dynamic       *)
(* enforcement; without one, static enforcement stays on and removing     *)
(* runtime asserts (-Ounchecked or -remove-runtime-asserts) turns dynamic *)
(* enforcement off.                                                        *)
ExclusivityEnforced ==
    Parsed =>
        /\ sil.removeAsserts = (args.opt = "Ounchecked" \/ args.removeAsserts)
        /\ IF args.excl \in ExclusivityModes
           THEN /\ sil.exclStatic = (args.excl \in {"unchecked", "checked"})
                /\ sil.exclDynamic = (args.excl \in {"checked", "dynamic-only"})
           ELSE sil.exclStatic /\ sil.exclDynamic = ~sil.removeAsserts
=============================================================================
