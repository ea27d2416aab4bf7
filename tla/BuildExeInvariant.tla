-------------------------- MODULE BuildExeInvariant --------------------------
(***************************************************************************)
(* Why the programs of BuildExe meet no assertion about their own calls    *)
(* and run what is fresh, as an inductive invariant: how far main has come *)
(* says what is initialised, stored and registered, and how far the        *)
(* executor has come says which outputs stay as they are.                  *)
(***************************************************************************)
EXTENDS BuildExe

(* Where a step is in the main functions, which agree on what they share but *)
(* for the verification and the new target.                                  *)
BootRank(step) ==
  CASE step = "Args::Init" -> 1
    [] step = "Parse" -> 2
    [] step = "Reg::Init" -> 3
    [] step = "Clean" -> 4
    [] step = "ConstructToolchain" -> 5
    [] step = "NewPackage" -> 6
    [] step = "NewUser" -> 7
    [] step = "Verify" -> 8
    [] step = "HeaderOnly" -> 9
    [] step = "BuildTpl" -> 10
    [] step = "BuildBuildcc" -> 11
    [] step = "DepBuildcc" -> 12
    [] step = "UserInsert" -> 13
    [] step = "BuildUser" -> 14
    [] step = "DepUser" -> 15
    [] step = "Run" -> 16
    [] step = "Generate" -> 17
    [] OTHER -> 18

ExeRank(step) ==
  CASE step = "BuildccHome::Init" -> 0
    [] step = "Args::Init" -> 1
    [] step = "Parse" -> 2
    [] step = "Reg::Init" -> 3
    [] step = "Clean" -> 4
    [] step = "ConstructToolchain" -> 5
    [] step = "Verify" -> 6
    [] step = "WriteVerifier" -> 7
    [] step = "BuildVerifier" -> 8
    [] step = "RunVerifier" -> 9
    [] step = "NewPackage" -> 10
    [] step = "HeaderOnly" -> 11
    [] step = "BuildTpl" -> 12
    [] step = "BuildBuildcc" -> 13
    [] step = "DepBuildcc" -> 14
    [] step = "NewUser" -> 15
    [] step = "UserInputs" -> 16
    [] step = "UserInsert" -> 17
    [] step = "UserLibs" -> 18
    [] step = "BuildUser" -> 19
    [] step = "DepUser" -> 20
    [] step = "Run" -> 21
    [] step = "RunUserTarget" -> 22
    [] OTHER -> 23

Rank(mode, step) == IF mode = "bootstrap" THEN BootRank(step) ELSE ExeRank(step)

(* A part of a main function: its steps, in order, from one rank to another. *)
Part(mode, s, lo, hi, steps) ==
  /\ s \in Seq(steps) /\ ToSet(s) = steps
  /\ \A i \in DOMAIN s : Rank(mode, s[i]) \in lo..hi
  /\ \A i, j \in DOMAIN s : i < j => Rank(mode, s[i]) < Rank(mode, s[j])

StartSteps == {"Args::Init", "Parse", "Reg::Init", "Clean", "ConstructToolchain"}
PackageSteps == {"HeaderOnly", "BuildTpl", "BuildBuildcc", "DepBuildcc"}

(* The steps of a main function. *)
MainSteps(s) ==
  StartSteps \cup {"Run", "Generate", "NewUser"} \cup
  (IF s.mode = "bootstrap"
   THEN {"NewPackage", "SaveGraph"}
          \cup (IF s.build
                THEN {"Verify", "UserInsert", "BuildUser", "DepUser"} \cup PackageSteps
                ELSE {})
   ELSE {"BuildccHome::Init", "Verify", "UserInputs", "BuildUser"}
          \cup (IF s.mode = "script"
                THEN {"WriteVerifier", "BuildVerifier", "RunVerifier", "NewPackage",
                      "UserInsert", "UserLibs", "DepUser", "RunUserTarget"}
                       \cup PackageSteps
                ELSE {}))

-----------------------------------------------------------------------------
(* What a process has done *)

Left == ToSet(todo)
Past == MainSteps(session) \ Left

RankOf(step) == Rank(session.mode, step)

(* What is left of main is its last steps, in order. *)
PlanInv ==
  /\ session \in Sessions
  /\ outcome \in {"running", "ok", "failed", "fatal", "killed"}
  /\ outcome = "ok" => todo = <<>>
  /\ Part(session.mode, todo, 0, 23, Left)
  /\ Left \subseteq MainSteps(session)
  /\ \A x \in Past : \A y \in Left : RankOf(x) < RankOf(y)

Provides(step) ==
  CASE step = "BuildccHome::Init" -> {"BuildccHome"}
    [] step = "Args::Init" -> {"Args"}
    [] step = "Parse" -> {"Parsed"}
    [] step = "Reg::Init" -> {"Reg", "Project"}
    [] OTHER -> {}

Stores(step) ==
  CASE step = "NewPackage" ->
         PackageStorage \cup {<<"BuildccPackage", "BuildBuildCC">>}
    [] step = "NewUser" -> {<<"UserTarget", "Target_generic">>}
    [] OTHER -> {}

EdgeOf(step) == {<<d[2], d[1]>> : d \in DepOf(step)}

(* Nothing else is registered, no test is. *)
DoneInv ==
  /\ up = UNION {Provides(x) : x \in Past}
  /\ storage = UNION {Stores(x) : x \in Past}
  /\ build = UNION {BuilderOf(x) : x \in Past}
  /\ edges = UNION {EdgeOf(x) : x \in Past}
  /\ tests = {} /\ testing = {}

(* A builder that would be registered twice. *)
SameName == session.mode = "script" /\ session.name \in {"libtpl", "libbuildcc"}

NameInv == SameName => "BuildUser" \notin Past

PhaseInv ==
  /\ phase \in {"script", "build", "post", "test", "ok", "failed"}
  /\ (phase = "script" <=> "Run" \notin Past)
  /\ Past \cap {"RunUserTarget", "Generate", "SaveGraph"} # {} => phase = "ok"
  /\ phase = "failed" => outcome = "failed"

-----------------------------------------------------------------------------
(* Outputs *)

TaskInv ==
  /\ ver \in [Builders -> 0..MaxSaved]
  /\ DOMAIN out = Builders
  /\ task \in [Builders -> {"none", "waiting", "running", "done"}]
  /\ taskState \in {"SUCCESS", "FAILURE"}
  /\ \A b \in Builders : task[b] # "none" <=> phase # "script" /\ b \in build
  /\ phase \in {"script", "post", "test", "ok"} => taskState = "SUCCESS"
  /\ phase \in {"post", "test", "ok"} => \A b \in build : task[b] = "done"

(* What a builder reads stands still once it has started. *)
ReadInv ==
  \A b \in Builders : task[b] \in {"running", "done"} =>
    /\ \A e \in edges : e[2] = b => task[e[1]] = "done"
    /\ \A d \in R!Used(b) : task[d] \in {"none", "done"}

FreshInv ==
  taskState = "SUCCESS" => \A b \in Builders : task[b] = "done" => R!Fresh(b)

(* What it was made from is of the past. *)
OwnInv == \A b \in Builders : \A o \in out[b] : o.own \in 0..ver[b]

(* The target the plugin would describe, whatever its session. *)
Describables ==
  IF session.mode = "bootstrap" THEN {"libbuildcc"} ELSE {"script", "program"}

Pending(n) == n = Described /\ n \in built /\ "Generate" \in Left

CommandsFileInv ==
  /\ \A c \in compile_commands : c.of \in Describables
  /\ outcome # "running" /\ Unwritten => missed
  /\ ~missed =>
       /\ \A c \in compile_commands :
            c.from = out[c.of] \/ out[c.of] = {} \/ Pending(c.of)
       /\ \A n \in Describables :
            out[n] = {} \/ compile_commands # {} \/ Pending(n)
  /\ built \subseteq build
  /\ missed \in BOOLEAN

(* The verification program is never newer than its source. *)
VerifierIs ==
  /\ verifier \in [file : Nat, made : Nat, by : {verifier.by}]
  /\ verifier.made <= verifier.file

(* A source that was written makes it new. *)
VerifierMade ==
  kVerifier \in session.writable =>
    /\ "WriteVerifier" \in Past /\ "BuildVerifier" \in Left =>
         verifier.made < verifier.file
    /\ "BuildVerifier" \in Past => verifier.by = Dir

(* The output was made before the last save. *)
Behind(name) == \A o \in out[name] : o.own < ver[name]

(* A header that was written puts the output of the script behind. *)
ScriptMade ==
  kLibDirs \in session.writable /\ "UserLibs" \in Past =>
    Behind(session.name) \/ madeBy[session.name] = Dir

MadeInv == VerifierIs /\ VerifierMade /\ ScriptMade /\ DOMAIN madeBy = Builders

-----------------------------------------------------------------------------
(* What is constructed and given *)

(* The host toolchain: an executable has a name, and no flags are given. *)
IsHostToolchain(t) ==
  /\ DOMAIN t = {"id", "name", "executables", "config", "info_cb", "flags"}
  /\ t.id = session.id
  /\ t.config = GlobalToolchainMetadata(t.id).config
  /\ \A tool \in Tools : DOMAIN t.executables[tool] = {"dir", "name"}
  /\ \A f \in FlagFields : t.flags[f] = <<>>

ToolInv ==
  /\ \A t \in toolchain : IsHostToolchain(t) /\ toolchain = {t}
  /\ toolchain # {} <=> "ConstructToolchain" \in Past
  /\ "Verify" \in Past =>
       \A t \in toolchain : \E dir \in ToSet(session.paths) :
         \A tool \in Tools : t.executables[tool].dir = dir

Gives(step) ==
  CASE step = "NewPackage" -> HeaderOnly \cup {"libtpl", "libbuildcc"}
    [] step = "NewUser" -> {"user"}
    [] OTHER -> {}

Makes(step) ==
  CASE step = "BuildVerifier" -> {"verify"}
    [] step = "BuildTpl" -> {"libtpl"}
    [] step = "BuildBuildcc" -> {"libbuildcc"}
    [] step = "BuildUser" -> {"user"}
    [] OTHER -> {}

KeysInv ==
  /\ DOMAIN inputs = UNION {Gives(x) : x \in Past}
  /\ DOMAIN commands = UNION {Makes(x) : x \in Past}

(* The fields of a target are lists, and its sources have a compiler. *)
AreSources(s) == \A file \in ToSet(s) : IsValidSource(DefaultConfig, file.ext)

Lists(u) == u = [f \in Fields |-> u[f]] /\ \A f \in Fields : IsList(u[f])

IsGiven(u) == Lists(u) /\ AreSources(u.sources)

GivenInv == \A n \in DOMAIN inputs : IsGiven(inputs[n])

CommandsInv ==
  \A n \in DOMAIN commands :
    /\ OfDir(commands[n].link, Dir)
    /\ \A file \in DOMAIN commands[n].objects : OfDir(commands[n].objects[file], Dir)

(* A target has all that one that uses it must have. *)
Passed(used, user) ==
  \A f \in {"external_libs", "include_dirs", "headers"} :
    ToSet(used[f]) \subseteq ToSet(user[f])

LinksInv ==
  /\ "NewPackage" \in Past =>
       /\ inputs["libtpl"].libs = <<>> /\ inputs["libtpl"].external_libs = <<>>
       /\ inputs["libbuildcc"].libs
            = IF "BuildBuildcc" \in Past THEN <<"libtpl">> ELSE <<>>
  /\ "BuildBuildcc" \in Past => Passed(inputs["libtpl"], inputs["libbuildcc"])
  /\ "NewUser" \in Past =>
       inputs["user"].libs
         = IF "UserInsert" \in Past THEN <<"libbuildcc", "libtpl">> ELSE <<>>
  /\ "UserInsert" \in Past => Passed(inputs["libbuildcc"], inputs["user"])

SessionsInv == sessions \in 1..MaxSessions

(* The directories that have a header that lists the libraries. *)
DirsInv == lib_dirs \subseteq Builders

(* All of it. *)
IInv ==
  /\ PlanInv /\ DoneInv /\ NameInv /\ PhaseInv /\ TaskInv /\ ReadInv /\ FreshInv
  /\ OwnInv /\ CommandsFileInv /\ MadeInv
  /\ ToolInv /\ KeysInv /\ GivenInv /\ CommandsInv /\ LinksInv
  /\ SessionsInv /\ DirsInv
=============================================================================
