# TLA+ models of buildcc

buildcc is a build system used as a C++ library: a build script is a C++ program that registers
targets, generators, dependencies and tests, and runs them. What it must get right is *incremental*
building: skip everything that is up to date, never anything that is not, in spite of parallel tasks, tasks that
fail, runs that are killed, and a script that changes from one run to the next. That is what these
modules model. Paths are those of the repository; `lib/` stands for `src/buildcc/lib/`.

Status: the incremental build of a target, the custom generator, the register, the inputs of a
target with the commands made of them, file and template generators, and the two programs of the
repository that are build scripts, `buildexe` and the bootstrap, from main to exit, are modelled,
model-checked and proved about.

## 1. Inventory

### Parts, their state and their operations

| Part | State | Operations | What makes it correct |
|---|---|---|---|
| Target (`lib/target/src/target/`) | `user_` (what the script listed), `dirty_`, the tasks' graph, outputs on disk | `Build`; tasks Pch, Objects (with a subtask per source), Target, End | skips only what is up to date; success means outputs of a build from nothing; a failed run keeps what it did |
| Target schema (`src/buildcc/schema/`) | the `.json` file, `load_`, `store_` | `LoadFromFile`, `UpdatePchCompiled`, `AddSource`, `UpdateStore`, `StoreToFile` | never vouches for outputs that are not those it describes |
| Custom generator (`lib/target/src/custom_generator/`) | `user_.ids`, its schema, `dirty_`, `states` of the subtasks | `AddIdInfo`, `Build`, the Generate task with a subtask per id | as the target, id by id |
| File and template generators (`lib/target/src/generator/`) | inputs, outputs, commands; templates | `AddInput`, `AddCommand`, `AddTemplate`, `Build` | their schema records all their callback reads |
| Register (`lib/args/src/register.cpp`, `tasks.cpp`) | `build_`, `build_tf_`, `tests_` | `Build`, `Dep`, `Test`, `Run` (`RunBuild`, callback, `RunTest`) | an acyclic graph; builders after what they use; tests after a build that succeeded |
| Task state (`lib/env/src/task_state.cpp`) | one value, SUCCESS or FAILURE, for the process | get, set | a failure is never lost |
| Assertions (`lib/env/src/assert_fatal.cpp`) | none | exit on the main thread, throw on another | |
| Arguments, project, storage (`lib/args/`, `lib/env/`) | process-wide singletons | `Init`, `Parse`, `Deinit`, `Add`, `Ref`, `Clear` | used only between Init and Deinit; objects of the storage outlive their users |
| Toolchain (`lib/toolchain/`) | executables, config, verified compilers | `FindToolchains`, `VerifyToolchains`, `GetFileExt` | finds what the host has, selects one match |
| Target API (`lib/target/include/target/api/`) | fields of `user_` | `AddSource`, `GlobSources`, `AddIncludeDir`, `Copy`, `Insert`, ... | |
| Plugins (`src/buildcc/plugins/`) | the list of targets | `Generate` | `compile_commands.json` follows the targets |
| buildexe, bootstrap (`src/buildexe/`, `src/bootstrap/`) | none of their own | host toolchain, build of the script, its execution | |

### How they interact

The script (one thread) calls `Reg`, which calls the build callback of every builder: its fields are
filled in and its `Build` makes a task graph. `Reg::Dep` orders the graphs of two builders.
`Reg::Run` gives all of it to a taskflow executor, with as many threads as the host has. Tasks of
different builders share the task state; tasks of one builder share its `store_`, `dirty_` and
`user_`. Two runs share only the disk: outputs and the schema of each builder. taskflow itself is a
submodule, and is modelled by what it is used for: a task starts when those it succeeds are done, a subflow is joined before
its task is, `wait_for_all` returns when nothing runs and nothing can start, at once from an empty graph
and never from one in which every task waits for another.

### What is hard

* the schema and the outputs are written at different times: a run may be killed or fail in between;
* files are read (their timestamps) at other times than the tools read them, and a user saves files meanwhile;
* subtasks run in any order, and a failure anywhere makes those not started yet return at once;
* a script that is edited back makes an old schema look right again;
* a failing run must store enough, and not too much, for the next;
* cycles in the graph have to be refused one call at a time;
* commands are made when `Build` is called, compared are the fields when the tasks run, and not all fields;
* main functions are long lines of calls that need one another, and a name or a path in them is the user's.

`PROJECT.json` lists these hazards line by line, each with the properties that cover it or the reason none does.

## 2. Modules

| Module | Models | Extends |
|---|---|---|
| `BuildContract` | the abstract promise of an incremental build, whatever it skips | |
| `TargetBuild` | a target over many runs | (instances `BuildContract`) |
| `TargetBuildInvariant` | its inductive invariant | `TargetBuild` |
| `TargetBuildSafety`, `TargetBuildContract` | its theorems | the two above, `TLAPS` |
| `CustomGenerator` | a custom generator over many runs | (instances `BuildContract`) |
| `CustomGeneratorInvariant`, `CustomGeneratorProofs` | its inductive invariant and theorems | as above |
| `Register` | the script's calls of `Reg`, the executor, the tests, over many runs | |
| `RegisterProofs` | its theorems | `Register`, `TLAPS` |
| `Command` | default values and patterns of `env::Command` | |
| `Toolchain` | toolchains: construction, configuration, find and verify; definitions only | |
| `TargetApi` | fields of a target, Copy and Insert, ready-made targets, the commands `Build` makes; definitions only | `Toolchain`, `Command` |
| `TargetInputs` | one target from the script's calls to the commands that made its outputs, over several processes | `TargetApi` |
| `TargetApiProofs` | lemmas about the operators of `TargetApi` | `TargetApi`, `TLAPS` |
| `TargetInputsProofs` | its inductive invariant and theorems | `TargetInputs`, `TargetApiProofs` |
| `Generators` | file and template generators, from the script's calls to the files made | `Command` |
| `GeneratorsProofs` | its inductive invariant and theorems | `Generators`, `TLAPS` |
| `Bootstrap` | the package of libraries and what its callbacks give them; definitions only | `TargetApi` |
| `BuildExe` | the main functions of `buildexe` and of the bootstrap, over several processes | `Bootstrap` (instances `Register`) |
| `BuildExeInvariant`, `BuildExeProofs` | its inductive invariant and theorems | `BuildExe`, `TargetApiProofs` |
| `MCTargetBuild`, `MCCustomGenerator`, `MCRegister`, `MCTargetInputs`, `MCGenerators`, `MCBuildExe` | values of the constants for TLC | the invariant modules, `Register`, ... |

`BuildContract` is what holds them together: a run that reports success leaves clean outputs unless
something was edited meanwhile, and a run with nothing new to do leaves the outputs alone.
`TargetBuild` and `CustomGenerator` are shown to implement it (property `ImplementsContract`), and
`Register` uses it: its builders are black boxes that make, when they finish, what their inputs and
the outputs they use make now.

### TargetBuild

The fields of `TargetSchema` hold version numbers in place of lists: equal numbers, equal lists, for
lists of files with equal timestamps. An output is `{}` or the singleton of a record of the inputs it was made from; so
"this object is up to date" is an equation, not a convention. The variables are

* the world: `cfg` (fields), `ver` (timestamp of each source), `srcs` (sources listed);
* the disk: `pch`, `obj`, `bin`, and `file`, the schema, `{}` when missing or unreadable;
* the process: `phase`, `load`, `user`, `store`, `dirty`, `todo` (the subtasks that are not done), `taskState`;
* history: `last` and `calm`, for the properties.

Each task is a disjunction of its early return (`PchSkip`, `ObjectsSkip`, `LinkSkip`), its checks
(`PchCheck`, `SelectSources`, `LinkCheck`), their failure when a listed file does not exist (`...HashFails`),
and the tool it runs (`PchExecute`, `CompileSource`, `LinkExecute`) with its failure. Check and
tool are two steps, since a file may be saved between the two. `PchCompared`, `ObjectCompared`
and `LinkCompared` are the lists of fields the code compares; `PchInputs`, `ObjectInputs` and
`LinkInputs` are those the command lines use. That the first cover the second is what
`NoMissedRebuild` depends on. The End task stores `UpdatedStore` whatever the task state.
`ListSource`, `EditField`, `SaveSource` and their kin are the user; `Interrupt` kills the process anywhere.

### CustomGenerator

An id has an entry (`io` its lists, `time` the timestamps of its inputs, `blob` what its handler
serializes, with `NoBlob` for no handler). `Select` is `ComputeBuild`; a subtask is
`SkipId`, `CheckId` or `CheckIdFails` and then `CallGenerate` or `CallGenerateFails`; `Join` and
`Store` are the end of the Generate task, and `FinalSchema` the second `ConvertToInternal` in it. Blobs and
callbacks are the user's; a callback makes outputs from what it is given. What is
not given to a handler is not followed, so an id without one is up to date whatever its old blob was.

### Register

`edges` is the task graph, `<<dependency, target>>`. `Reached(b, E)` is what a walk from `b` can
meet, defined as the members of every closed set, so that it can be proved about without recursion; it
is also what the search of `DepDetectCyclicDependency` visits. `DepRefused`, `DepEndless` and
`DepAdded` are its three outcomes: the search keeps no set of visited tasks, so on a graph with a cycle it does not end. `Sources`
are the builders the executor can begin with; without one `AllDone` is never true and the build never ends. `Start`
to `FinishSkipped` are the executor, with builders as `BuildContract` promises them. `NextProcess`
is an edit of some builder's inputs and the next run of a script that may register other things.
`Registered` limits two properties to scripts that register what they use, as `Reg::Dep` asks (`register.h:98`).

### Command, Toolchain, TargetApi

Operators that the three modules below share. A field of a target is a sequence of values. A pattern of
a command is the set of the placeholders it names, and the command made from it is the function from these to
their values, so two commands are equal when they say the same; `{}` is a command that could not be
made, which is fatal. An executable is `[dir, name]`, with the empty directory until the toolchain
is verified. `Find` compares stems of file names only, as the code does (`ld.gold` passes for `ld`; a
directory of `gcc.1`, ... is found and then not verified). `Copy` and `Insert` return the target and what is left in
the one they took from. `Target_generic`, `GenericTypeTarget` and `SpecializedTarget` are the
three layers of temporaries in `target_generic.h`.

### TargetInputs

`TargetBuild` takes the fields of the schema for what the commands are made of. `TargetInputs` is about that:
`user` is what the script gave, `commands` what `BuildCall` made of it, `late` the fields that
changed afterwards, `stored` the schema, `made` the commands that made the outputs on disk. A run is
one step here (`RunDirty`, `RunClean`, `RunFails`): what happens inside of it is `TargetBuild`'s. The
comparisons have three holes, which `CommandsCurrent` names and leaves out:

* `late`: an input given after `Build` is in no command and is stored as if it were;
* `pch_removed`: see the run of that name;
* `language`: the precompiled header is C or C++ depending on whether a source is C++, and nothing compares that.

A hole stays in `made.holes` until everything is made again.

### Generators

`CustomGenerator` has ids and blobs that are values; `Generators` has the calls that make them.
`AddPatterns` goes through an unordered map, so `WithPatterns` is what any order gives, and a pattern that
uses another may fail in some orders. A file generator is one id whose callback executes commands
(`Execute`, `ExecuteFails`, `Return`); its blob refers to `commands_`, so `Entry` reads them when it is
called, not when `Build` was. A template generator is an id per template, and fills in the values its
command has when the callback runs. Two templates of one input are one id twice, which is fatal.
Files have a time and a content; a content says what it was made from and with which values.

`OutputsCurrent` is about the steps of `Followed`, in scripts that make every file once
(`OneMaker`). Both are conditions on what the user writes, not on what the code does, and each part
is needed: two generators, or two commands of one, that write a file overwrite each other; a user who
saves a made file replaces it; a command that reads what is neither an input nor made before it in
its id is not run again when that changes; an input made by a generator that is not waited for is hashed
before or after it is made. The last one counts over all scripts, since an entry
stored by the script before is what the next compares with.

### Bootstrap and BuildExe

A main function is the sequence of its steps (`BuildExeMain`, `BootstrapMain`), held in `todo`, and
every step is an action, some with a second action for the way it fails. `Needs`, `Refs`, `BuilderOf`
and `DepOf` are what the assertions of a step ask for; when they do not hold the process ends with
`outcome = "fatal"`, and `OrderIsRight` says that this never happens (but for a target the user
gives the name of a library of the package). Other ends are `failed` (the environment, the command line, a tool) and `killed`.
The graph, the executor and the outputs are those of `Register`, instanced with the variables of
the same names. `madeBy` and `verifier` add which
compilers made an output, which no schema says. `lib_dirs` has the targets whose `buildexe_lib_dirs.h` exists; a file that
`session.writable` leaves out stays as it is (`WriteVerifierUnsaved`, `UserLibsUnsaved`), as `env::save_file`
only returns that it failed. `compile_commands` is the file of the plugin,
`missed` says that a process ended between a build and the file.

## 3. Runs

TLC explores each of these completely.

| Run | What varies | Properties | Shows |
|---|---|---|---|
| `crash` | 2 sources; PCH list edited and saved during runs; runs killed anywhere; schema not written | `TypeOK` `NoMissedRebuild` `SuccessIsClean` `NoSpuriousRebuild` `SkipInv` `ImplementsContract` | the schema on disk never lets a run skip what it has to do; the invariant of the proof holds |
| `revert` | 2 sources that come and go, flags and PCH list edited back and forth, tasks that fail | `NoMissedRebuild` `SuccessIsClean` `HonestInv` | going back to earlier values is noticed when runs are not killed: the schema says what the outputs were made of |
| `live` | 2 sources, tasks that fail, fairness | `RunEnds` `NoRedundantCompile` | a run ends; what a failed run compiled is not compiled again |
| `generator` | 2 ids, one that comes and goes, blobs, lists and inputs edited; killed runs, or reverts | `TypeOK` `NoMissedGenerate` `NoSpuriousGenerate` `GenerateInv` `ImplementsContract` `RunEnds` `NoRedundantGenerate` | every callback that has to be called is called, and no other |
| `register` | 3 builders, all dependencies between them and one of a builder on itself, a test, 2 edits | `TypeOK` `NoLongerCycle` `SearchEnds` `TestsRunFresh` `BuiltFromFresh` `RunEnds` | no cycle of two or more; the executor ends unless a builder depends on itself; after success everything is fresh; a failure never feeds a dependent |
| `inputs` | executable with gcc, static library with msvc, dynamic library with mingw; two scripts of two calls each, anywhere around `Build` | `TypeOK` `GenericIsSpecialized` `ObjectsDistinct` `EverySourceCompiled` `CommandsCurrent` `CommandsConstructed` | the compared fields cover the commands but for three holes; generic targets are the specialized ones; no command lacks a value |
| `generators` | ten scripts of a file generator and a template generator that reads what it makes, three processes, commands that fail, an input saved | `TypeOK` `OutputsCurrent` `RunsNothingAgain` | after success what is followed is current; the same script again runs nothing |
| `buildexe` | two modes and the bootstrap, on Linux and Windows hosts, eleven sessions that work and twelve that do not, three processes killed or failing anywhere, edits | `TypeOK` `CommandsUseVerified` `LinksWhatItUses` `RunsFresh` `RunsMadeByVerified` `CompileCommandsCurrent` `OrderIsRight` | what is run is fresh and, unless its file could not be written, made by verified compilers; libraries come in link order; calls in the order their assertions ask |

Four properties that a document, a message or an assertion of the code states fail, each in a run of its own:

| Run | Property | What happens |
|---|---|---|
| `pch_removed` | `PathChangeRebuilds` | the last PCH file is removed from the script: no Pch task exists, nobody else compares the list, objects compiled with the PCH stay |
| `header_saved` | `NoMissedRebuild` | a header saved between the Pch task's hash and that of the Objects task is stored with the newer hash |
| `blob_added` | `StoredBlobsVerify` | an id gets its first blob handler: the empty stored blob counts as corrupted |
| `self_dep` | `Acyclic` | `Dep(a, a)` is accepted; when all builders of a build are such, it never ends |

Other disagreements need no run of their own, as a property or a constant already names them: an input saved while callbacks
run is missed (`Still`), as is a value that a killed run compiled with and that is then taken back
(neither `Forward` nor `Orderly`); a `compile_commands.json` that a killed process did not write is not written by the next (`missed`);
sources share an object when their paths differ in a dot or an underscore only and one has two dots in a row, which the code takes
for out of the root even in a file's name (`HasDotDot`); a file of its own that `buildexe` cannot write is left as
it was and nobody notices, so a program of an earlier process's compilers may be run (`session.writable`); a target
called as a library of the package ends `buildexe` with a duplicate (`OrderIsRight`).

### Bounds, and why they are enough

* Two sources or ids: one that fails, is skipped or lost, and one that is not. Comparisons are per source and per id.
* `MaxVersion` 2, so that a field has a past, a present and a value saved during the run (1 in runs
  where two values suffice: `revert` needs one to leave and to come back to). `MaxSaved` 1: one save of a file, at every moment of a run.
* Which fields are edited differs from run to run (`Edited`): a field with nothing of its own adds
  states but no behaviours. `pchs` is there because it changes the task graph and is read twice;
  `pch_object_flags` because only the Objects task compares it and only a PCH makes it matter.
* The number of runs of the script is not bounded, only the edits between them.
* Three builders make cycles of one, two and three; the two uses `lib` of `gen`, `exe` of `lib` make a chain, so a failure has dependents of dependents.
* In `CustomGenerator` a history has one kind of trouble (`Troubles`). Kills and reverts together
  are left out there, since they combine to what `Dependable` excludes for the target.
* `inputs`: two calls a script, before and after `Build` (`MaxCalls`), in two processes: one to make outputs and
  one to trust them. The other target holds a flag and a precompiled header, the two kinds of field that Copy and Insert treat
  differently; the sources are C and C++ (the language), one is refused, one is out of the root, and two in it have two dots in their names
and share an object.
* `generators`: two commands make a chain, so a failure has something before and after it. Three
  processes: one that makes, one that fails or changes, one that must notice. The scripts are written out, for calls
  in any order would mostly fail at once.
* `buildexe`: three processes, as above. Edits are to `libtpl`, which the library and every
  script use. One session can write neither of the two files of `buildexe` and finds the toolchain in another
  directory, so it meets the programs that the other sessions' compilers left. `MaxSaved` 5 is never reached, so that no script has to stop there:
  three processes save at most one version each and edit twice.

`CHECK_DEADLOCK FALSE` is said where a process ends for good: `register` and `self_dep` (nothing left
to edit, or a search or a build that never returns because a builder waits for itself), `inputs`, `generators` and `buildexe` (no process left).

### Fairness

`FairSpec` has weak fairness of the program's own steps only: the executor runs each task it was
given, compilers, callbacks and tests come to an end, and the process then reports. No user action
is fair: nobody has to edit, save or start a run, and nothing has to fail. In `Register` the script
itself is not fair; `RunEnds` starts when the executor does, with a graph in which no builder waits for itself. `TargetInputs`, `Generators` and `BuildExe` state no fairness: all
they promise is safety, and that what they start ends is what the other three show.

## 4. Proofs

All are checked for every value of the constants, under the constants' assumptions in the modules.
Those are subsets and natural bounds, and in three modules the shape of what the user gives:
`InfoAssumption`, `CallsAssumption`, `OptionsAssumption` and `FilesAssumption` (`TargetInputs`) say that
calls name fields of a target, and that the sources a script starts with are ones `AddSource` takes;
`KindAssumption`, `DepsAssumption`, `ScriptsAssumption` and `SavedAssumption` (`Generators`) that
calls name generators and files of the project; `SessionsAssumption` (`BuildExe`) that a command line gives
lists, and that a target has the name its program can give it (`UserNames`). TLC evaluates them in the runs.

| Theorem | States |
|---|---|
| `TargetBuildSafety!TypeCorrect` | `Spec => []TypeOK` |
| `TargetBuildSafety!SchemasStaySound` | `Dependable` implies `Spec => []SkipInv` |
| `TargetBuildSafety!NothingIsMissed` | `Dependable` implies `Spec => []NoMissedRebuild` |
| `TargetBuildSafety!RecordsAreTrue` | `Orderly` implies `Spec => []HonestInv` |
| `TargetBuildContract!SuccessMeansClean` | `Dependable` implies `Spec => []SuccessIsClean` |
| `TargetBuildContract!NothingIsRebuilt` | `Dependable` implies `Spec => []NoSpuriousRebuild` |
| `TargetBuildContract!TargetKeepsContract` | `Dependable` implies `Spec => ImplementsContract` |
| `TargetBuildContract!NothingIsRecompiled` | `Undisturbed` implies `Spec => NoRedundantCompile` |
| `CustomGeneratorProofs!GeneratorTypeCorrect` | `Spec => []TypeOK` |
| `CustomGeneratorProofs!EntriesStayTrue` | `Still` implies `Spec => []GenerateInv` |
| `CustomGeneratorProofs!NothingIsSkipped` | `Still` implies `Spec => []NoMissedGenerate` |
| `CustomGeneratorProofs!NothingIsRepeated` | `Still` implies `Spec => []NoSpuriousGenerate` |
| `CustomGeneratorProofs!GeneratorKeepsContract` | `Still` implies `Spec => ImplementsContract` |
| `CustomGeneratorProofs!NothingIsRedone` | `Still` implies `Spec => NoRedundantGenerate` |
| `RegisterProofs!NoTwoWait` | `Spec => []NoLongerCycle` |
| `RegisterProofs!ExecutorHasASource` | `Spec => [](Loops(edges) = {} /\ build # {} => Sources # {})` |
| `RegisterProofs!SearchesEnd` | `Spec => []SearchEnds` |
| `RegisterProofs!RegisterTypeCorrect` | `Spec => []TypeOK` |
| `RegisterProofs!TestsRunOnFresh` | `Spec => []TestsRunFresh` |
| `RegisterProofs!NothingFromStale` | `Spec => BuiltFromFresh` |
| `TargetInputsProofs!InputsTypeCorrect` | `Spec => []TypeOK` |
| `TargetInputsProofs!GenericAreSpecialized` | `Spec => []GenericIsSpecialized` |
| `TargetInputsProofs!ObjectsAreDistinct` | `Spec => []ObjectsDistinct` |
| `TargetInputsProofs!NoSourceIsLeftOut` | `Spec => []EverySourceCompiled` |
| `TargetInputsProofs!CommandsAreMade` | `Spec => CommandsConstructed` |
| `TargetInputsProofs!CommandsAreCurrent` | `Spec => []CommandsCurrent` |
| `GeneratorsProofs!GeneratorsTypeCorrect` | `Spec => []TypeOK` |
| `GeneratorsProofs!NothingRunsAgain` | `Spec => []RunsNothingAgain` |
| `GeneratorsProofs!OutputsStayCurrent` | `Spec => []OutputsCurrent` |
| `BuildExeProofs!AssertionsHold` | `Spec => []OrderIsRight` |
| `BuildExeProofs!ProgramsRunFresh` | `Spec => []RunsFresh` |
| `BuildExeProofs!CompileCommandsAreCurrent` | `Spec => []CompileCommandsCurrent` |
| `BuildExeProofs!ProgramsRunAreMadeByVerified` | `Spec => []RunsMadeByVerified` |
| `BuildExeProofs!CommandsAreOfVerified` | `Spec => []CommandsUseVerified` |
| `BuildExeProofs!LibrariesAreLinkedInOrder` | `Spec => []LinksWhatItUses` |
| `BuildExeProofs!BuildExeTypes` | `Spec => []TypeOK` |

**NothingIsMissed.** `NoMissedRebuild` speaks of the schema on disk and is not inductive: a run
writes outputs while the old schema is still there. `SkipInv` adds that (1) every schema, the one on disk and the one
the run would store now, is *sound*: what it lets a run skip is what a build from nothing
would make; (2) a schema speaks of the *past*, so no edit can make it match again; (3) an output is
written only while the schema on disk does not vouch for it, so a run killed there leaves no lie;
(4) what the run has read and recorded so far. The proof has one lemma per action of `Next`, each
with a step per conjunct of `SkipInv`. Of these lemmas only the one for the user needs to know what kind of history
it is in, and `Dependable` says that it is in one of two.

* `Forward`: no value reverts and no header is saved during a run. Sources and PCH files may be saved during a run,
  and runs killed anywhere. An edit then makes no schema match that did not match before. Without the second
  half see `header_saved`.
* `Orderly`: fields and the list of sources go back to what they were, but every run comes to its end and nothing is saved
  during one. Then a schema of the past may match again, and (2) is kept for the fields that do not revert only. What
  carries the proof is `HonestInv`: the schema on disk says of every output it lists what it was made of
  (`RecordedObject`, `RecordedBinary`), so if it matches again, they are right again (`HonestEdit`); each task knows that what it records is
  read from the world as it is (`StoreTrue`, `MakingInv`), so what `EndTask` stores is honest again (`UpdatedStoreHonest`).
  **RecordsAreTrue** states it. The list of PCH files may be edited, but may not revert: nobody notices when it gets empty (`pch_removed`).

Both at once is too much: an include directory is added, the run that compiles with it is killed, the directory is removed,
and the schema of the run before matches objects it was not written for.

**NothingIsSkipped** has the same shape for an arbitrary set of ids. A history in which runs are
killed rests on `PastInv`; one in which values revert, but runs reach their end, rests on
`HonestInv` (the outputs are those of the entry stored). `Still` (no input saved during a run) is needed: the
inputs are hashed again after the callbacks, and this second hash is stored (`custom_generator.cpp:304`).

**TargetKeepsContract** and **GeneratorKeepsContract** are the refinements. Both use a second invariant
(`ContractInv`): `DoneInv` says, task by task, that a run in which nothing failed and nothing was edited has read the world as it
is and recorded all of it; `CalmInv` says that when such a run has ended the schema on disk is that of the
world (`Settled`), and that this stays so until the next edit. Then `SkipInv` (`GenerateInv`) gives clean outputs, and it also says
that a tool only runs while the schema does not vouch for its output, which a settled schema does: so the next run
changes nothing, even if it is killed. The target needs one fact more, that a source is recorded once (`OnceInv`):
the code compares the lists of sources by what is missing from each, not by equality.
`SuccessMeansClean`, `NothingIsRebuilt` and `NothingIsRepeated` come from the same invariant.

**NothingIsRecompiled** is the converse of `NothingIsMissed`: a source is compiled only if its object is not already the
one of a build from nothing. `KnowInv` says that the schema on disk, or after the subtasks the store, knows of
every object that is clean, and `OldInv` that no output is of values yet to come, so that an edit makes nothing clean. It needs
`Undisturbed`: nothing reverts, nothing is saved during a run, no run is killed (each leaves clean outputs that no schema
knows), and `pch_object_flags` is not edited: a script without a PCH compares these flags too, and compiles again what does not
depend on them. **NothingIsRedone** is the same for ids (`VouchInv`: after a successful run an entry speaks of the
outputs there are, unless its callback is under way).

**NoTwoWait** goes through closed sets: if an edge into `t` closed a cycle of two or more, the
dependency would be in what `t` reaches, and `Dep` would have refused it. **SearchesEnd** follows:
without loops no vertex is on a cycle. **ExecutorHasASource** is what `RunEnds` needs of the graph, for
any number of builders: if each waited for another, they would be the endless descent that `GroundInv` (below) excludes.

**TestsRunOnFresh** and **NothingFromStale** rest on one invariant, `ExecInv`. The executor returns
when no builder can start; that then all are done is a fact about the graph, which the proof
takes from `GroundInv`: without its loops the graph has no endless descent (a set of builders each of which
waits for one of the set), which every call of `Dep` keeps because it refuses what closes a cycle. The rest is
that a builder starts with all it waits for done (`StartedInOrder`) and that, while nothing has failed and
the script registers what it uses, the done ones are fresh (`DoneIsFresh`).

**The theorems of TargetInputs** share one invariant, `IInv`. `Shapes` says that a target has every
field, that its sources are files `AddSource` takes, and that there is one target, one set of
commands, one schema and one set of outputs at most. `CachedIsCurrent` (the commands are those of the
target as it is, if nothing came late), `StoredSourcesMade` (what the schema lists as compiled is what has an object) and
`MadeAsStored` (without holes the outputs are those of the *stored* target's commands) are what carries
a promise from one process to the next; `RanOn` says that a run that succeeds has stored the target.
`CommandsAreCurrent` then comes down to the operators: `TargetApiProofs` says which placeholders each
pattern names and where its value comes from, so two targets that agree on the compared fields
have equal commands (`CompileSame`, `LinkSame`, `PchSame`). That no placeholder is without a value is the same
table. `GenericAreSpecialized` is field by field: what `Copy` and `Insert` leave of each field,
through two temporaries. For `ObjectsAreDistinct` an object's path keeps the
source's name, its extension and its depth, and its directories unless two dots are found.

**GeneratorsTypeCorrect** needs `TaskInv`: that every callback has its id, that what it has left is the
end of its steps (`TodoInv`), that a generator that runs has those it waits for done
(`StageInv`). One fact of it is an induction over the patterns of `AddPatterns` in whichever order
the map gives them: none loses a value there is already. It is done by least counterexample, on the
function that `FoldLeft` stands for.

**NothingRunsAgain**: `SettledInv` says that a generator that has ended without a failure has
stored the entries of its ids *as they would be computed now*; this holds to the end of the run because those that
write its inputs ended before (`Ordered`). `LastInv` carries it over to the next process, with the
script kept as a value, until a file is saved.

**OutputsStayCurrent** has the longest argument. An entry stored by an earlier process, of whatever script, says of
each of its steps: if its input still has the time it had, its output was made from it, unless a
callback is just making it again (`EntryInv`). So an id that finds its entry unchanged may leave its
outputs alone (`DoneInv`), and one that runs has made the outputs of the steps it is past (`UnderInv`).
What could break an entry is a write to one of its files by anything else; `OneMaker` rules out a second
maker (`MakesInv` says so of the calls not made yet), and `Followed` an input
that is written after it was compared.

**The theorems of BuildExe** follow main. Every step has a rank in its main function (`BootRank`, `ExeRank`),
and a main function is one sequence of rising ranks, whatever its mode: the proof puts it together from its parts
(`MainIs`). So what is left of main is its end, and every step is either left or past (`PlanInv`). What is
initialised, stored, registered and depended on is then an equation, a union over the past steps (`DoneInv`),
and what a step asserts is a matter of ranks: `AssertionsHold`. The one thing ranks do not rule out is a builder registered
twice under one name, the exception of `OrderIsRight`; such a process ends before its target is registered (`NameInv`).

Three more add the executor. When `Run` is reached the graph is the package below the target, or the
target alone (`GraphIs`), so tasks that cannot start are tasks that have ended (`AllDoneIs`), what a builder
reads stands still while it works (`ReadInv`), and what has ended well is fresh (`FreshInv`): `ProgramsRunFresh`.
Who made an output is nowhere stored; that the script and the verification program are made again in
each process is `MadeInv`: their source, where it can be written, was written after what they were last made from (`OwnInv` says that outputs are of versions there
were), so they are not fresh until a task of this process has made them. `CommandsFileInv` says that a target built
and not yet described has the plugin left to run, unless a process was killed in between.

The last three are about data: what the callbacks put in a target. The targets and commands there are, are again a union
over the past steps (`KeysInv`). Every field of a target is a list and every source has a compiler, since each callback
only adds to lists (`Grows`, `GivenInv`; `Insert` and the filter over a directory, `Kept`, by least counterexample). Every command
names executables of one directory (`CommandsInv`), the one verified (`ToolInv`), because commands are
made after `Verify` only. `LinksInv` says who links what, and that a user has what it links needs (`Passed`), step by step:
`libtpl` is complete before `libbuildcc` takes from it, and that before the user does. `TypeOK` needs all of `IInv`.

Only model-checked:

* liveness (`RunEnds`), which is out of the prover's reach;
* what a recursive definition computes for *every* input: only the induction that `AddPatterns` needs
  was done by hand, since the library's induction theorems take an operator as a parameter.

## 5. What is not modelled, and abstractions

* Text: the wording of command lines, paths, JSON and log lines. What a command says is modelled (`TargetApi`), the order it says it in is not.
* A timestamp is a new number at each save. Two saves within the clock's resolution are one.
* Outputs deleted by hand: nothing looks for an output before it is needed (TODOs in
  `compile_pch.cpp:104`, `link_target.cpp:97`). A source listed twice, or two sources that share
  an object (`ObjectsDistinct` says which can): two compilers of one object, whose result is the compilers'.
* Which compilers made an output is in no schema (`build.cpp:85`): `CommandsCurrent` compares
  commands without the directory of their executables, and `RunsMadeByVerified` says it of the programs `buildexe` runs only.
* Values filled in a template are in no blob: a template is made again when its input changes, and keeps older values till then.
* Two `buildexe` in one `BUILDCC_HOME` share the directory `_build_exe` without a lock; processes of `BuildExe` come one after the other.
* The bootstrap's globs of headers leave out `custom_generator/` and `args/register/`
  (`build_buildcc.cpp:48-81`): a change there rebuilds the library only by its sources.
* Not modelled: logging; `BuildccFind` and `build_flatbuffers.cpp`, which no program uses; the versions and architectures compilers print;
  option text and TOML; a test's redirected output; the order of destruction at exit.
* Read races on the task state (`task_state.cpp:39` reads without the mutex): a task that misses a
  failure is one that read it before; the verdict is read after all tasks joined.
* A builder in `Register` finishes in one step. One whose last task was under way when another
  builder failed is one that finished just before.
* taskflow, CLI11, nlohmann json, tiny-process-library: external.

## 6. Plan

What is left, in this order:

1. `Register` over two real builders: a generator feeding a target, instances of the modules in place of the black boxes.
2. The order of destruction at exit, over the storages of `BuildExe`.
