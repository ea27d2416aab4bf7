------------------------------- MODULE BuildExe -------------------------------
(***************************************************************************)
(* The two programs of the repository that are build scripts themselves,   *)
(* from main to exit, over several runs on one disk: buildexe, which       *)
(* builds a target described on its command line (immediate mode) or       *)
(* builds a build script against the library of buildcc and runs it        *)
(* (script mode), and the bootstrap, which builds that library and an      *)
(* example.  A main is the sequence of its steps; the graph, the executor  *)
(* and the outputs are those of Register.  Processes fail and are killed.  *)
(***************************************************************************)
EXTENDS Bootstrap

CONSTANTS
  Sessions,     \* the environments and command lines a process can have
  Host,         \* the directories of the host: their files
  Edited,       \* the builders whose inputs are edited between processes
  MaxSessions,  \* bound on the processes
  MaxSaved      \* bound on the versions of a builder's inputs

Builders == {"libtpl", "libbuildcc", "script", "program", "hybrid"}

Uses ==
  {<<"libbuildcc", "libtpl">>}
  \cup {"script", "hybrid"} \X {"libbuildcc", "libtpl"}

-----------------------------------------------------------------------------
(* The command line *)

RootArgs == {"root_dir", "build_dir"}
TargetArgs == {"name", "type", "relative_to_root"}

(* The options each program requires. *)
Required(mode) ==
  IF mode = "bootstrap" THEN RootArgs ELSE RootArgs \cup TargetArgs \cup {"mode"}

ToolchainIds == {"Gcc", "Msvc", "MinGW", "Clang", "Custom", "Undefined"}

(* ArgTargetInputs: what the command line gives a target. *)
GivenFields ==
  {"sources", "include_dirs", "lib_dirs", "external_libs",
   "preprocessor_flags", "common_compile_flags", "asm_compile_flags",
   "c_compile_flags", "cpp_compile_flags", "link_flags"}

(* The bootstrap names its target itself. A script may have the name of a    *)
(* library of the package, which is then one builder twice; an immediate     *)
(* target of that name is another one, in a directory of its own.            *)
UserNames(mode) ==
  CASE mode = "bootstrap" -> {"hybrid"}
    [] mode = "immediate" -> {"script", "program"}
    [] OTHER -> {"script", "program", "libtpl", "libbuildcc"}

IsList(s) == s \in Seq(ToSet(s))

(* The files buildexe writes for a program of its own. *)
kVerifier == "verify_host_toolchain.cpp"
kLibDirs == "buildexe_lib_dirs.h"

(* session.options are the options given, session.named says whether the     *)
(* executables of the toolchain are, session.lib_files are the files asked   *)
(* for of the libraries in BUILDCC_HOME, session.writable those of its own files *)
(* that buildexe can open for writing.                                       *)
IsSession(s) ==
  /\ s.mode \in {"immediate", "script", "bootstrap"}
  /\ s.options \subseteq RootArgs \cup TargetArgs \cup {"mode"}
  /\ s.name \in UserNames(s.mode)
  /\ "sources" \in DOMAIN s.given /\ DOMAIN s.given \subseteq GivenFields
  /\ \A f \in DOMAIN s.given : IsList(s.given[f])
  /\ IsList(s.paths) /\ IsList(s.lib_files)
  /\ s.writable \subseteq {kVerifier, kLibDirs}
  /\ {s.named, s.build, s.clean, s.libs_listed} \subseteq BOOLEAN

ASSUME SessionsAssumption ==
  Sessions # {} /\ (\A s \in Sessions : IsSession(s)) /\ MaxSessions \in Nat \ {0}
ASSUME VersionsAssumption == Edited \subseteq Builders /\ MaxSaved \in Nat

VARIABLES
  session,           \* the environment and the command line
  sessions,          \* the processes so far
  todo,              \* the steps main has left
  outcome,           \* how the process ends
  up,                \* what is initialised
  storage,           \* what the storages hold: <<identifier, type>>
  toolchain,         \* {} or the host toolchain
  inputs,            \* what each target was given: user_
  commands,          \* what Build made of it
  built,             \* the targets for which IsBuilt holds
  madeBy,            \* the directory of the compilers that made an output
  verifier,          \* the verification program: its source, its compilers
  compile_commands,  \* {} or the output the file describes
  missed,            \* whether a process ended before it wrote that file
  lib_dirs,          \* the targets whose buildexe_lib_dirs.h exists
  ver, out, build, edges, tests, phase, task, taskState, testing

R == INSTANCE Register WITH DepCalls <- {}, TestCalls <- {}

process == <<todo, outcome, up, storage, toolchain, inputs, commands, built>>
disk == <<madeBy, verifier, compile_commands, missed>>
registered == <<ver, out, build, edges, tests, phase, task, taskState, testing>>
vars == <<session, sessions, process, disk, lib_dirs, registered>>

Unique(S) == CHOOSE x \in S : TRUE
T == Unique(toolchain)
Dir == T.executables.cpp_compiler.dir

-----------------------------------------------------------------------------
(* The main functions *)

Start == <<"Args::Init", "Parse", "Reg::Init", "Clean", "ConstructToolchain">>

(* The dependency before what depends. *)
PackageDepFirst == <<"HeaderOnly", "DepBuildcc", "BuildTpl", "BuildBuildcc">>

(* BuildBuildCC::Setup *)
Package == <<"HeaderOnly", "BuildTpl", "BuildBuildcc", "DepBuildcc">>

(* BuildEnvSetup::Setup *)
ConstructUserTarget == <<"NewUser", "UserInputs", "BuildUser">>

ConstructUserTargetWithBuildcc ==
  <<"NewPackage">> \o Package
  \o <<"NewUser", "UserInputs", "UserInsert", "UserLibs", "BuildUser",
       "DepUser">>

HostToolchainVerify == <<"WriteVerifier", "BuildVerifier", "RunVerifier">>

BuildExeMain(mode) ==
  <<"BuildccHome::Init">> \o Start \o <<"Verify">>
  \o (IF mode = "script"
      THEN HostToolchainVerify \o ConstructUserTargetWithBuildcc
           \o <<"Run", "RunUserTarget">>
      ELSE ConstructUserTarget \o <<"Run">>)
  \o <<"Generate">>

(* Reg::Toolchain does nothing without --build. *)
IfBuild(b, steps) == IF b THEN steps ELSE <<>>

(* The toolchain verified when the package is set up. *)
BootstrapMainLate(b) ==
  Start \o <<"NewPackage", "NewUser">>
  \o IfBuild(b, Package \o <<"Verify", "UserInsert", "BuildUser", "DepUser">>)
  \o <<"Run", "Generate", "SaveGraph">>

BootstrapMain(b) ==
  Start \o <<"NewPackage", "NewUser">>
  \o IfBuild(b, <<"Verify">> \o Package \o <<"UserInsert", "BuildUser", "DepUser">>)
  \o <<"Run", "Generate", "SaveGraph">>

Main(s) ==
  IF s.mode = "bootstrap" THEN BootstrapMain(s.build) ELSE BuildExeMain(s.mode)

InBuildDir ==
  IF session.mode = "bootstrap" THEN {} ELSE {"script", "program"}

(* The target whose commands the plugin writes. *)
Described == IF session.mode = "bootstrap" THEN "libbuildcc" ELSE session.name

-----------------------------------------------------------------------------
(* Steps *)

At(step) == outcome = "running" /\ phase \in {"script", "ok"}
            /\ todo # <<>> /\ Head(todo) = step

(* What a step asserts: what is initialised before it, and what it takes    *)
(* out of a storage.                                                        *)
Needs(step) ==
  CASE step = "Args::Init" /\ session.mode # "bootstrap" -> {"BuildccHome"}
    [] step = "Parse" -> {"Args"}
    [] step = "Reg::Init" -> {"Parsed"}
    [] step \in {"Clean", "BuildTpl", "BuildBuildcc", "BuildUser",
                 "DepBuildcc", "DepUser", "Run"} -> {"Reg"}
    [] step \in {"NewPackage", "NewUser", "BuildVerifier"} -> {"Project"}
    [] OTHER -> {}

Refs(step) ==
  CASE step = "HeaderOnly" -> {<<name, "TargetInfo">> : name \in HeaderOnly}
    [] step \in {"BuildTpl", "BuildBuildcc", "DepBuildcc"} -> PackageStorage
    [] step = "UserInsert" /\ session.mode = "script" ->
         {<<"UserTarget", "Target_generic">>,
          <<"BuildccPackage", "BuildBuildCC">>,
          <<"libbuildcc", "StaticTarget_generic">>}
    [] step \in {"UserInputs", "UserLibs", "RunUserTarget"} ->
         {<<"UserTarget", "Target_generic">>}
    [] OTHER -> {}

BuilderOf(step) ==
  CASE step = "BuildTpl" -> {"libtpl"}
    [] step = "BuildBuildcc" -> {"libbuildcc"}
    [] step = "BuildUser" -> {session.name}
    [] OTHER -> {}

DepOf(step) ==
  CASE step = "DepBuildcc" -> {<<"libbuildcc", "libtpl">>}
    [] step = "DepUser" -> {<<session.name, "libbuildcc">>}
    [] OTHER -> {}

Asserted(step) ==
  /\ Needs(step) \subseteq up /\ Refs(step) \subseteq storage
  /\ BuilderOf(step) \cap build = {}
  /\ \A d \in DepOf(step) :
       {d[1], d[2]} \subseteq build
       /\ ~R!Duplicate(d[1], d[2]) /\ ~R!Cyclic(d[1], d[2])

Do(step) == At(step) /\ Asserted(step)

Go ==
  /\ todo' = Tail(todo)
  /\ outcome' = IF todo' = <<>> THEN "ok" ELSE "running"
  /\ UNCHANGED <<session, sessions>>

Unwritten == "Generate" \in ToSet(todo) /\ Described \in built

(* exit(1), by an assertion on the program's own calls or by one on what is *)
(* outside of it.                                                           *)
Exit(why) ==
  /\ outcome' = why
  /\ missed' = (missed \/ Unwritten)
  /\ UNCHANGED <<session, sessions, todo, up, storage, toolchain, inputs,
                 commands, built, madeBy, verifier, compile_commands, lib_dirs>>

AssertionFails(step) ==
  At(step) /\ ~Asserted(step) /\ Exit("fatal") /\ UNCHANGED registered

Fails(step) == Do(step) /\ Exit("failed") /\ UNCHANGED registered

-----------------------------------------------------------------------------
(* The environment, the arguments, the toolchain *)

Initialised(step, what) ==
  /\ Do(step) /\ Go
  /\ up' = up \cup what
  /\ UNCHANGED <<storage, toolchain, inputs, commands, built, disk, lib_dirs,
                 registered>>

HomeExists ==
  {"BUILDCC_HOME", "home", "buildcc", "libs", "extensions"} \subseteq session.home

HomeInit == HomeExists /\ Initialised("BuildccHome::Init", {"BuildccHome"})
HomeMissing == ~HomeExists /\ Fails("BuildccHome::Init")

(* ArgsLibsInfo::Add iterates over the libs directory. *)
ArgsInit == session.libs_listed /\ Initialised("Args::Init", {"Args"})
LibsUnreadable == ~session.libs_listed /\ Fails("Args::Init")

Parses ==
  /\ Required(session.mode) \subseteq session.options
  /\ session.id \in ToolchainIds /\ session.type \in Types

Parse == Parses /\ Initialised("Parse", {"Parsed"})
ParseFails == ~Parses /\ Fails("Parse")

(* SystemInit calls Project::Init. *)
ProjectInit == {"Project"}

RegInit == Initialised("Reg::Init", {"Reg"} \cup ProjectInit)

(* No source (version 0), no program. *)
NoVerifier == [file |-> 0, made |-> 0, by |-> ""]

(* clean_cb: nothing for the bootstrap, and never the directory _build_exe *)
(* of the package.                                                         *)
CleanCb ==
  /\ Do("Clean") /\ Go
  /\ LET gone == IF session.clean THEN InBuildDir ELSE {} IN
     /\ out' = [b \in Builders |-> IF b \in gone THEN {} ELSE out[b]]
     /\ madeBy' = [b \in Builders |-> IF b \in gone THEN "" ELSE madeBy[b]]
     /\ verifier' = IF gone = {} THEN verifier ELSE NoVerifier
     /\ compile_commands' = IF gone = {} THEN compile_commands ELSE {}
     /\ missed' = (missed /\ gone = {})
     /\ lib_dirs' = IF gone = {} THEN lib_dirs ELSE {}
  /\ UNCHANGED <<up, storage, toolchain, inputs, commands, built,
                 ver, build, edges, tests, phase, task, taskState, testing>>

Given ==
  IF session.named
  THEN IF session.id = "Msvc" THEN MsvcExecutables ELSE GnuExecutables
  ELSE ToolchainExecutables("", "", "", "", "")

(* The id asked for ignored. *)
FromArgsGcc == New("Gcc", "host", {Given}, {DefaultConfig}, {})

FromArgs == New(session.id, "host", {Given}, {DefaultConfig}, {})

ToolchainIs(found, step) ==
  /\ Do(step) /\ Go
  /\ found # {} /\ toolchain' = found
  /\ UNCHANGED <<up, storage, inputs, commands, built, disk, lib_dirs, registered>>

ConstructToolchain == ToolchainIs(FromArgs, "ConstructToolchain")
ToolchainRefused == FromArgs = {} /\ Fails("ConstructToolchain")

ExeExt == IF session.os = "win" THEN ".exe" ELSE ""

Verified ==
  UNION {Verify(t, session.paths, Host, ExeExt, session.prompt) : t \in toolchain}

VerifyToolchain == ToolchainIs(Verified, "Verify")
VerifyFails == Verified = {} /\ Fails("Verify")

-----------------------------------------------------------------------------
(* The verification of the host toolchain, in script mode *)

Ran(step) ==
  /\ Do(step) /\ Go
  /\ UNCHANGED <<up, storage, toolchain, inputs, commands, built, disk, lib_dirs,
                 registered>>

(* Only a file that is not there is written. *)
WriteVerifierOnce ==
  /\ Do("WriteVerifier") /\ Go
  /\ kVerifier \in session.writable
  /\ verifier' = IF verifier.by = "" THEN [verifier EXCEPT !.file = @ + 1]
                 ELSE verifier
  /\ UNCHANGED <<up, storage, toolchain, inputs, commands, built, madeBy,
                 compile_commands, missed, lib_dirs, registered>>

WriteVerifier ==
  /\ Do("WriteVerifier") /\ Go
  /\ kVerifier \in session.writable
  /\ verifier' = [verifier EXCEPT !.file = @ + 1]
  /\ UNCHANGED <<up, storage, toolchain, inputs, commands, built, madeBy,
                 compile_commands, missed, lib_dirs, registered>>

(* Nobody looks at what save_file returns: the file stays, or stays away. *)
WriteVerifierUnsaved == kVerifier \notin session.writable /\ Ran("WriteVerifier")

(* The values of new, and of old where new has none. *)
Over(new, old) == AddDefaultArguments(new, old)

Cached(name, user, type) ==
  \E config \in GenericConfig(type, T.id) :
    \E made \in {Commands(user, T, config)} :
      commands' = Over([n \in {name} |-> made], commands)

VerifierInputs ==
  LET target == Unique(GenericTypeTarget("Executable", T))
      source == [dirs |-> <<>>, name |-> "verify_host_toolchain", ext |-> ".cpp"]
  IN Add(Add(target, "sources", source), "cpp_compile_flags",
         IF T.id = "Msvc" THEN "/std:c++17" ELSE "-std=c++17")

(* In an executor of its own, before the others are registered; a source that *)
(* is not there fails it.                                                      *)
BuildVerifier ==
  /\ Do("BuildVerifier") /\ Go
  /\ verifier.file > 0
  /\ GenericTypeTarget("Executable", T) # {}
  /\ Cached("verify", VerifierInputs, "Executable")
  /\ verifier' = IF verifier.by # "" /\ verifier.made = verifier.file
                 THEN verifier
                 ELSE [verifier EXCEPT !.made = verifier.file, !.by = Dir]
  /\ UNCHANGED <<up, storage, toolchain, inputs, built, madeBy,
                 compile_commands, missed, lib_dirs, registered>>

BuildVerifierFails == Fails("BuildVerifier")

RunVerifier == Ran("RunVerifier")
RunVerifierFails == Fails("RunVerifier")

-----------------------------------------------------------------------------
(* The targets *)

Gave(targets, identifiers) ==
  /\ \E given \in {targets} : inputs' = Over(given, inputs)
  /\ storage' = storage \cup identifiers
  /\ UNCHANGED <<up, toolchain, built, disk>>

GaveUser(user, identifiers) ==
  Gave([role \in {"user"} |-> user], identifiers)

NewPackage ==
  /\ Do("NewPackage") /\ Go
  /\ GenericTypeTarget("StaticLibrary", T) # {}
  /\ Gave([name \in HeaderOnly \cup {"libtpl", "libbuildcc"} |->
               IF name \in HeaderOnly THEN TargetInfo(T)
               ELSE Unique(GenericTypeTarget("StaticLibrary", T))],
            PackageStorage \cup {<<"BuildccPackage", "BuildBuildCC">>})
  /\ UNCHANGED <<commands, lib_dirs, registered>>

PackageRefused ==
  Fails("NewPackage") /\ GenericTypeTarget("StaticLibrary", T) = {}

HeaderOnlyCbs ==
  /\ Do("HeaderOnly") /\ Go
  /\ Gave([name \in HeaderOnly |-> HeaderOnlyCb(inputs[name], name)], {})
  /\ UNCHANGED <<commands, lib_dirs, registered>>

Build(step, name, role, given, type) ==
  /\ Do(step) /\ Go
  /\ \E user \in {given} : Gave([n \in {role} |-> user], {}) /\ Cached(role, user, type)
  /\ R!BuildCall(name)
  /\ UNCHANGED lib_dirs

BuildTpl ==
  Build("BuildTpl", "libtpl", "libtpl",
        TplCb(GlobalFlags(inputs["libtpl"], T), session.os), "StaticLibrary")

BuildBuildcc ==
  Build("BuildBuildcc", "libbuildcc", "libbuildcc",
        BuildccCb(GlobalFlags(inputs["libbuildcc"], T), inputs, T, session.os),
        "StaticLibrary")

(* The call left out. *)
DepForgotten(step) == Ran(step)

Dep(step) ==
  /\ Do(step) /\ Go
  /\ \E d \in DepOf(step) : R!DepAdded(d[1], d[2])
  /\ UNCHANGED <<up, storage, toolchain, inputs, commands, built, disk, lib_dirs>>

NewTargets ==
  IF session.mode = "bootstrap" THEN GenericTypeTarget("Executable", T)
  ELSE Target_generic(session.type, T)

NewUser ==
  /\ Do("NewUser") /\ Go
  /\ NewTargets # {}
  /\ GaveUser(Unique(NewTargets), {<<"UserTarget", "Target_generic">>})
  /\ UNCHANGED <<commands, lib_dirs, registered>>

UserRefused == Fails("NewUser") /\ NewTargets = {}

UserTargetCb ==
  [f \in Fields |->
     inputs["user"][f] \o IF f \in GivenFields \cap DOMAIN session.given
                          THEN session.given[f] ELSE <<>>]

SourcesAccepted ==
  \A file \in ToSet(session.given.sources) : Accepts(T, "sources", file)

UserInputs ==
  /\ Do("UserInputs") /\ Go
  /\ SourcesAccepted
  /\ GaveUser(UserTargetCb, {})
  /\ UNCHANGED <<commands, lib_dirs, registered>>

UserInputsRefused == Fails("UserInputs") /\ ~SourcesAccepted

kScriptOptions ==
  <<"preprocessor_flags", "cpp_compile_flags", "include_dirs", "link_flags",
    "headers", "include_dirs", "libs", "external_libs">>

kHybridOptions ==
  <<"preprocessor_flags", "cpp_compile_flags", "link_flags", "headers",
    "include_dirs", "libs", "external_libs">>

(* The libraries of the library before the library itself. *)
WithBuildccLast(user, options) ==
  Add(Insert(user, inputs["libbuildcc"], options, FALSE)[1],
      "libs", "libbuildcc")

WithBuildcc(user, options) ==
  Insert(Add(user, "libs", "libbuildcc"), inputs["libbuildcc"], options, FALSE)[1]

UserWithBuildcc ==
  IF session.mode = "bootstrap"
  THEN Add(WithBuildcc(inputs["user"], kHybridOptions), "sources",
           [dirs |-> <<>>, name |-> "build", ext |-> ".cpp"])
  ELSE LET user == WithBuildcc(inputs["user"], kScriptOptions)
       IN IF T.id = "MinGW"
          THEN Add(user, "link_flags", "-Wl,--allow-multiple-definition")
          ELSE user

UserInsert ==
  /\ Do("UserInsert") /\ Go
  /\ GaveUser(UserWithBuildcc, {})
  /\ UNCHANGED <<commands, lib_dirs, registered>>

(* The directory of the target with the header that lists the library         *)
(* folders, if there is one, and the files of the libraries asked for.        *)
UserTargetWithLibs(listed) ==
  LET user == inputs["user"]
      lists == IF session.name \in listed
               THEN <<<<"script", kLibDirs>>>> ELSE <<>>
      files == ToSet(session.lib_files)
      sources == Kept(session.lib_files,
                      {file \in files : IsValidSource(T.config, file.ext)})
      found == Kept(session.lib_files,
                    {file \in files : IsValidHeader(T.config, file.ext)})
  IN [user EXCEPT
        !.include_dirs = Append(@, <<"script", "">>)
                         \o [i \in DOMAIN found |-> found[i].dirs],
        !.headers = @ \o lists \o found,
        !.sources = @ \o sources]

Saved(b) == ver[b] < MaxSaved /\ ver' = [ver EXCEPT ![b] = @ + 1]

UserLibs ==
  /\ Do("UserLibs") /\ Go
  /\ kLibDirs \in session.writable
  /\ lib_dirs' = lib_dirs \cup {session.name}
  /\ GaveUser(UserTargetWithLibs(lib_dirs'), {})
  /\ Saved(session.name)
  /\ UNCHANGED <<commands, out, build, edges, tests, phase, task, taskState,
                 testing>>

(* Here too what save_file returns is ignored. *)
UserLibsUnsaved ==
  /\ Do("UserLibs") /\ Go
  /\ kLibDirs \notin session.writable
  /\ GaveUser(UserTargetWithLibs(lib_dirs), {})
  /\ UNCHANGED <<commands, lib_dirs, registered>>

BuildUser ==
  Build("BuildUser", session.name, "user", inputs["user"],
        IF session.mode = "bootstrap" THEN "Executable" ELSE session.type)

-----------------------------------------------------------------------------
(* Reg::Run and what follows it *)

Run ==
  /\ Do("Run") /\ Go
  /\ R!RunBuild
  /\ UNCHANGED <<up, storage, toolchain, inputs, commands, built, disk, lib_dirs>>

Running == outcome = "running" /\ UNCHANGED <<session, sessions>>

Executor ==
  /\ Running
  /\ \/ \E b \in Builders : R!Start(b) \/ R!FinishSkipped(b) \/ R!FinishFails(b)
     \/ R!RunBuildSucceeds \/ R!PostBuild \/ R!RunTestEnds
  /\ UNCHANGED <<process, disk, lib_dirs>>

(* The End task of a target that had something to do stores it: IsBuilt. *)
Finish(b) ==
  /\ Running
  /\ R!Finish(b)
  /\ built' = IF R!Fresh(b) THEN built ELSE built \cup {b}
  /\ madeBy' = IF R!Fresh(b) THEN madeBy ELSE [madeBy EXCEPT ![b] = Dir]
  /\ UNCHANGED <<todo, outcome, up, storage, toolchain, inputs, commands,
                 verifier, compile_commands, missed, lib_dirs>>

RunBuildFails == outcome = "running" /\ R!RunBuildFails /\ Exit("failed")

(* What the script returns is not looked at. *)
RunUserTarget == Ran("RunUserTarget")

(* Written when there is no file yet. *)
GenerateFirst ==
  /\ Do("Generate") /\ Go
  /\ Described \in built
  /\ compile_commands' =
       IF compile_commands = {}
       THEN {[of |-> Described, from |-> out[Described]]} ELSE compile_commands
  /\ missed' = FALSE
  /\ UNCHANGED <<up, storage, toolchain, inputs, commands, built, madeBy,
                 verifier, lib_dirs, registered>>

Generate ==
  /\ Do("Generate") /\ Go
  /\ Described \in built
  /\ compile_commands' = {[of |-> Described, from |-> out[Described]]}
  /\ missed' = FALSE
  /\ UNCHANGED <<up, storage, toolchain, inputs, commands, built, madeBy,
                 verifier, lib_dirs, registered>>

GenerateNothing == Described \notin built /\ Ran("Generate")
GenerateFails == Described \in built /\ Fails("Generate")

SaveGraph == Ran("SaveGraph")
SaveGraphFails == Fails("SaveGraph")

-----------------------------------------------------------------------------
(* The end of the process, and the next one *)

(* A builder that was under way is left with no output that counts. *)
Kill ==
  /\ outcome = "running"
  /\ Exit("killed")
  /\ \E lost \in SUBSET {b \in Builders : task[b] = "running"} :
       out' = [b \in Builders |-> IF b \in lost THEN {} ELSE out[b]]
  /\ UNCHANGED <<ver, build, edges, tests, phase, task, taskState, testing>>

Fits(s) == s.mode = "bootstrap" <=> session.mode = "bootstrap"

NothingRuns ==
  /\ build' = {} /\ edges' = {} /\ tests' = {} /\ testing' = {}
  /\ phase' = "script" /\ taskState' = "SUCCESS"
  /\ task' = [b \in Builders |-> "none"]

NextSession ==
  /\ outcome # "running" /\ sessions < MaxSessions
  /\ sessions' = sessions + 1
  /\ \E s \in Sessions :
       /\ Fits(s) /\ s.os = session.os /\ s.id = session.id
       /\ session' = s /\ todo' = Main(s)
  /\ outcome' = "running" /\ up' = {} /\ storage' = {} /\ toolchain' = {}
  /\ inputs' = <<>> /\ commands' = <<>> /\ built' = {}
  /\ NothingRuns
  /\ UNCHANGED ver \/ \E b \in Edited : Saved(b)
  /\ UNCHANGED <<disk, lib_dirs, out>>

Init ==
  /\ session \in Sessions /\ sessions = 1
  /\ todo = Main(session) /\ outcome = "running"
  /\ up = {} /\ storage = {} /\ toolchain = {}
  /\ inputs = <<>> /\ commands = <<>> /\ built = {}
  /\ madeBy = [b \in Builders |-> ""]
  /\ verifier = NoVerifier
  /\ compile_commands = {} /\ missed = FALSE
  /\ lib_dirs = {}
  /\ R!Init

Setup ==
  \/ HomeInit \/ HomeMissing \/ ArgsInit \/ LibsUnreadable
  \/ Parse \/ ParseFails \/ RegInit \/ CleanCb
  \/ ConstructToolchain \/ ToolchainRefused \/ VerifyToolchain \/ VerifyFails
  \/ WriteVerifier \/ WriteVerifierUnsaved
  \/ BuildVerifier \/ BuildVerifierFails
  \/ RunVerifier \/ RunVerifierFails

Targets ==
  \/ NewPackage \/ PackageRefused \/ HeaderOnlyCbs \/ BuildTpl \/ BuildBuildcc
  \/ Dep("DepBuildcc") \/ Dep("DepUser")
  \/ NewUser \/ UserRefused \/ UserInputs \/ UserInputsRefused
  \/ UserInsert \/ UserLibs \/ UserLibsUnsaved \/ BuildUser

RunAll ==
  \/ Run \/ Executor \/ RunBuildFails
  \/ \E b \in Builders : Finish(b)
  \/ RunUserTarget \/ Generate \/ GenerateNothing \/ GenerateFails
  \/ SaveGraph \/ SaveGraphFails

Process ==
  Setup \/ Targets \/ RunAll
  \/ \E step \in ToSet(Main(session)) : AssertionFails(step)

Next == Process \/ Kill \/ NextSession

Spec == Init /\ [][Next]_vars

-----------------------------------------------------------------------------
(* Properties *)

TypeOK ==
  /\ session \in Sessions /\ sessions \in 1..MaxSessions
  /\ outcome \in {"running", "ok", "failed", "fatal", "killed"}
  /\ outcome = "ok" => todo = <<>> /\ "Reg" \in up
  /\ \A t \in toolchain : t.id = session.id
  /\ DOMAIN commands \subseteq DOMAIN inputs \cup {"verify"}
  /\ built \subseteq build
  /\ verifier.made <= verifier.file
  /\ missed \in BOOLEAN
  /\ lib_dirs \subseteq Builders
  /\ R!TypeOK

(* Every command names executables of the directory this process has         *)
(* verified, although the bootstrap creates its targets before it verifies   *)
(* the toolchain they refer to (main.buildcc.cpp:45-51).                      *)
Executables == {"compiler", "cpp_compiler", "archiver", "linker"}

OfDir(command, dir) ==
  \A c \in command : \A k \in Executables \cap DOMAIN c : c[k].dir = dir

CommandsUseVerified ==
  \A name \in DOMAIN commands :
    /\ toolchain # {} /\ Dir \in ToSet(session.paths)
    /\ OfDir(commands[name].link, Dir)
    /\ \A file \in DOMAIN commands[name].objects :
         OfDir(commands[name].objects[file], Dir)

(* When the executor starts, a target that links a library links what that   *)
(* library links too, after it, as a linker that reads its arguments once    *)
(* wants them, and finds its headers (the order of the calls in              *)
(* UserTargetWithBuildccSetup and hybrid_simple_example_cb).                 *)
LinksWhatItUses ==
  phase = "build" => \A name \in DOMAIN commands \cap DOMAIN inputs :
    LET libs == inputs[name].libs IN \A i \in DOMAIN libs :
      /\ \A d \in ToSet(inputs[libs[i]].libs) :
           \E j \in DOMAIN libs : i < j /\ libs[j] = d
      /\ \A f \in {"external_libs", "include_dirs", "headers"} :
           ToSet(inputs[libs[i]][f]) \subseteq ToSet(inputs[name][f])

(* What is run after a build that succeeded is what its inputs make now, and *)
(* so is every library it links: each library is registered, and built       *)
(* before (DepUserTargetOnBuildcc, BuildBuildCC::Setup).                     *)
RunsFresh ==
  phase \in {"post", "test", "ok"} => \A b \in build : R!Fresh(b)

(* The programs buildexe runs itself, the verification program and the build *)
(* script, were made by the compilers this process verified, although no     *)
(* stored schema names a compiler: a source or a header of theirs is written *)
(* anew in every process (toolchain_setup.cpp:46, build_env_setup.cpp:191).   *)
(* Except when that file could not be written, which nobody notices: what is *)
(* run then may be the program that the compilers of an earlier process made. *)
RunsMadeByVerified ==
  /\ At("RunVerifier") /\ kVerifier \in session.writable => verifier.by = Dir
  /\ At("RunUserTarget") /\ kLibDirs \in session.writable => madeBy[session.name] = Dir

(* A process that ends well leaves a compile_commands.json, and when it is   *)
(* that of its target it describes what the target's output was made from,   *)
(* unless an earlier process ended after it built the target and before it   *)
(* wrote the file (ClangCompileCommands::Generate).                          *)
CompileCommandsCurrent ==
  outcome = "ok" /\ ~missed /\ Described \in build =>
    \E c \in compile_commands : c.of = Described => c.from = out[Described]

(* The programs meet no assertion about the order of their own calls         *)
(* (initialised, found in storage, registered before), except for a target   *)
(* that has the name of a library of the package (Reg::BuildStoreTask).      *)
OrderIsRight ==
  outcome = "fatal" => session.mode = "script"
                       /\ session.name \in {"libtpl", "libbuildcc"}
=============================================================================
