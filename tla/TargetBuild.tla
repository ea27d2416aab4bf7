------------------------------ MODULE TargetBuild ------------------------------
(***************************************************************************)
(* One target's incremental build over many runs of the build script: the  *)
(* checks of Target::Build and of the Pch, Objects, Target and End tasks,  *)
(* the compiler and linker calls they make, and the serialized schema that *)
(* one run leaves for the next.                                            *)
(*                                                                         *)
(* Values of the schema's fields are version numbers: two equal numbers    *)
(* are two equal lists (for a list of files: same paths, same timestamps). *)
(* An output (precompiled header, object, binary) is {} when absent or     *)
(* unusable, and otherwise the singleton of the inputs it was made from.   *)
(***************************************************************************)
EXTENDS Integers

CONSTANTS
  Sources,      \* the source files a script can list
  First,        \* those the first version of the script lists
  Edited,       \* what the user changes: fields of the schema, or "sources"
  Reverts,      \* the members of Edited that may go back to an earlier value
  MidRun,       \* the lists of files that may be saved while a run is going on
  Interrupts,   \* TRUE when a run may be killed, or fail to write its schema
  MaxVersion,   \* bound on the versions of a field
  MaxSaved      \* bound on the timestamps of a source

(* The fields of TargetSchema a script fills with strings and directories. *)
FlagFields ==
  {"preprocessor_flags", "common_compile_flags", "pch_compile_flags",
   "pch_object_flags", "asm_compile_flags", "c_compile_flags",
   "cpp_compile_flags", "link_flags", "external_libs", "include_dirs",
   "lib_dirs"}

(* The fields that list files: each file is compared by its timestamp, which *)
(* is read when the task that needs it starts. "sources" is kept apart.      *)
FileFields == {"headers", "pchs", "compile_dependencies", "libs",
               "link_dependencies"}

Fields == FlagFields \cup FileFields

(* What each task compares with the loaded schema to set dirty_. *)
PchCompared ==
  {"preprocessor_flags", "common_compile_flags", "pch_compile_flags",
   "c_compile_flags", "cpp_compile_flags", "include_dirs", "headers", "pchs"}

(* A list written by hand is easily one short. *)
ObjectComparedShort ==
  {"preprocessor_flags", "common_compile_flags", "asm_compile_flags",
   "c_compile_flags", "cpp_compile_flags", "include_dirs", "headers",
   "compile_dependencies"}

ObjectCompared ==
  {"preprocessor_flags", "common_compile_flags", "pch_object_flags",
   "asm_compile_flags", "c_compile_flags", "cpp_compile_flags",
   "include_dirs", "headers", "compile_dependencies"}

LinkCompared == {"link_flags", "lib_dirs", "external_libs",
                 "link_dependencies", "libs"}

(* What the command lines (and the files they name) give to each tool. *)
PchInputs ==
  {"preprocessor_flags", "include_dirs", "common_compile_flags",
   "pch_compile_flags", "c_compile_flags", "cpp_compile_flags",
   "headers", "pchs"}

ObjectInputs ==
  {"preprocessor_flags", "include_dirs", "common_compile_flags",
   "pch_object_flags", "asm_compile_flags", "c_compile_flags",
   "cpp_compile_flags", "headers", "compile_dependencies"}

LinkInputs == {"link_flags", "lib_dirs", "external_libs", "libs",
               "link_dependencies"}

ASSUME FirstAssumption == First \subseteq Sources
ASSUME EditedAssumption == Edited \subseteq Fields \cup {"sources"}
ASSUME RevertsAssumption == Reverts \subseteq Edited
ASSUME MidRunAssumption == MidRun \subseteq FileFields \cup {"sources"}
ASSUME InterruptsAssumption == Interrupts \in BOOLEAN
ASSUME BoundsAssumption == MaxVersion \in Nat \ {0} /\ MaxSaved \in Nat

VARIABLES
  cfg,       \* the fields as the script and the files now are
  ver,       \* the timestamp of each source file
  srcs,      \* the sources the script lists
  pch,       \* the compiled precompiled header
  obj,       \* the object file of each source
  bin,       \* the linked target
  file,      \* the serialized schema: {} when missing or unreadable
  phase,     \* where the run is; "idle" between runs
  load,      \* load_: what LoadFromFile found
  user,      \* user_: the fields as this run has read them
  store,     \* store_: the part of it the tasks fill in
  dirty,     \* dirty_
  todo,      \* the compile subtasks not finished: <<source, hash>>
  taskState, \* env::get_task_state()
  last,      \* how the previous run ended
  calm       \* history: 0 after an edit; 1 if nothing was edited since the
             \* run began; 2 if nor since an earlier run that succeeded began

world   == <<cfg, ver, srcs>>
outputs == <<pch, obj, bin>>
process == <<load, user, store, dirty, todo>>
vars == <<world, outputs, file, phase, process, taskState, last, calm>>

Version == 0..MaxVersion
Timestamp == 0..MaxSaved

(* The hash of a listed file before ComputeHashForAll: the empty string. *)
Unhashed == -1
Empty == 0

Phases == {"idle", "pch", "pch_exec", "objects", "compile", "link",
           "link_exec", "end", "exit"}

Agree(a, b, S) == \A f \in S : a[f] = b[f]

-----------------------------------------------------------------------------
(* Outputs and the inputs they are made from *)

HasPch == cfg["pchs"] # Empty

(* A command line holds the flags the script had when it called Build; the   *)
(* files are read when the tool runs.                                        *)
Arg(f) == IF f \in FlagFields THEN user[f] ELSE cfg[f]

(* Without PCH files Target::Build passes "" for the two pch flags. *)
ObjectArg(f, value) ==
  IF f = "pch_object_flags" /\ ~HasPch THEN Empty ELSE value

PchFrom(value) == {[f \in PchInputs |-> value[f]]}

(* What a build from nothing makes of the world as it is. *)
CleanPch == IF HasPch THEN PchFrom(cfg) ELSE {}

CleanObject(s) ==
  [src |-> ver[s],
   in  |-> [f \in ObjectInputs |-> ObjectArg(f, cfg[f])],
   pch |-> CleanPch]

CleanBinary ==
  [in   |-> [f \in LinkInputs |-> cfg[f]],
   objs |-> [s \in srcs |-> {CleanObject(s)}]]

(* A precompiled header nothing includes any more may stay on disk. *)
Clean ==
  /\ HasPch => pch = CleanPch
  /\ \A s \in srcs : obj[s] = {CleanObject(s)}
  /\ bin = {CleanBinary}

-----------------------------------------------------------------------------
(* The user: edits between runs, and files saved while one is going on *)

EmptyStore == [pchs |-> Empty, pch_compiled |-> FALSE, sources |-> {},
               target_linked |-> FALSE]

NothingRead == [f \in Fields |-> Empty]

Init ==
  /\ cfg \in [Fields -> 0..1]
  /\ \A f \in Fields \ Edited : cfg[f] = Empty
  /\ ver = [s \in Sources |-> 0]
  /\ srcs = First
  /\ pch = {} /\ bin = {} /\ file = {}
  /\ obj = [s \in Sources |-> {}]
  /\ phase = "idle"
  /\ load = {} /\ user = NothingRead /\ store = EmptyStore
  /\ dirty = FALSE /\ todo = {} /\ taskState = "SUCCESS"
  /\ last = "none"
  /\ calm = 0

(* A fresh value is newer than any before it. *)
NewValues(name, now) ==
  (IF now < MaxVersion THEN {now + 1} ELSE {})
    \cup (IF name \in Reverts THEN Version \ {now} ELSE {})

EditField(f) ==
  /\ f \in Edited
  /\ phase = "idle"
  /\ \E v \in NewValues(f, cfg[f]) : cfg' = [cfg EXCEPT ![f] = v]
  /\ calm' = 0
  /\ UNCHANGED <<ver, srcs, outputs, file, phase, process, taskState, last>>

(* A listed file is saved while the tasks run: the list itself is fixed. *)
SaveListedFile(f) ==
  /\ f \in Edited \cap MidRun \cap FileFields
  /\ phase # "idle"
  /\ cfg[f] # Empty /\ cfg[f] < MaxVersion
  /\ cfg' = [cfg EXCEPT ![f] = @ + 1]
  /\ calm' = 0
  /\ UNCHANGED <<ver, srcs, outputs, file, phase, process, taskState, last>>

SaveSource(s) ==
  /\ phase = "idle" \/ "sources" \in MidRun
  /\ ver[s] < MaxSaved
  /\ ver' = [ver EXCEPT ![s] = @ + 1]
  /\ calm' = 0
  /\ UNCHANGED <<cfg, srcs, outputs, file, phase, process, taskState, last>>

(* Unless lists may revert, no list of sources is ever listed again: the     *)
(* first sources only go and the others only come.                           *)
RemoveSource(s) ==
  /\ "sources" \in Edited
  /\ phase = "idle"
  /\ s \in srcs
  /\ s \in First \/ "sources" \in Reverts
  /\ srcs' = srcs \ {s}
  /\ calm' = 0
  /\ UNCHANGED <<cfg, ver, outputs, file, phase, process, taskState, last>>

ListSource(s) ==
  /\ "sources" \in Edited
  /\ phase = "idle"
  /\ s \in Sources \ srcs
  /\ s \notin First \/ "sources" \in Reverts
  /\ srcs' = srcs \cup {s}
  /\ calm' = 0
  /\ UNCHANGED <<cfg, ver, outputs, file, phase, process, taskState, last>>

User ==
  \/ \E f \in Fields : EditField(f) \/ SaveListedFile(f)
  \/ \E s \in Sources : SaveSource(s) \/ RemoveSource(s) \/ ListSource(s)

-----------------------------------------------------------------------------
(* Target::Build: reads the schema of the last run, decides the task graph *)

Unread(f) == IF cfg[f] = Empty THEN Empty ELSE Unhashed

Build ==
  /\ phase = "idle"
  /\ load' = file
  /\ user' = [f \in Fields |-> IF f \in FlagFields THEN cfg[f] ELSE Unread(f)]
  /\ store' = EmptyStore
  /\ dirty' = FALSE
  /\ todo' = {}
  /\ taskState' = "SUCCESS"
  /\ phase' = IF HasPch THEN "pch" ELSE "objects"
  /\ calm' = IF calm > 0 /\ last = "ok" THEN 2 ELSE 1
  /\ UNCHANGED <<world, outputs, file, last>>

(* ComputeHashForAll on the lists in S. *)
Hashed(S) == [f \in Fields |-> IF f \in S THEN cfg[f] ELSE user[f]]

Fail == taskState' = "FAILURE"

-----------------------------------------------------------------------------
(* Pch: CompilePch::Task *)

PchChanged(u) ==
  \/ load = {}
  \/ \E r \in load : ~Agree(r.cfg, u, PchCompared) \/ ~r.pch_compiled

(* The flag never set. *)
PchCompiledUnmarked(u) == [store EXCEPT !.pchs = u["pchs"]]

(* UpdatePchCompiled, the last statement of the try block. *)
PchCompiled(u) == [store EXCEPT !.pchs = u["pchs"], !.pch_compiled = TRUE]

PchSkip ==
  /\ phase = "pch"
  /\ taskState = "FAILURE"
  /\ phase' = "objects"
  /\ UNCHANGED <<world, outputs, file, process, taskState, last, calm>>

(* PreCompile and the comparisons; nothing to do when nothing changed. *)
PchCheck ==
  /\ phase = "pch"
  /\ taskState = "SUCCESS"
  /\ LET u == Hashed({"headers", "pchs"}) IN
       /\ user' = u
       /\ dirty' = PchChanged(u)
       /\ IF PchChanged(u)
            THEN phase' = "pch_exec" /\ UNCHANGED store
            ELSE phase' = "objects" /\ store' = PchCompiled(u)
  /\ UNCHANGED <<world, outputs, file, load, todo, taskState, last, calm>>

(* A listed header or PCH file does not exist: ComputeHash asserts. *)
PchHashFails ==
  /\ phase = "pch"
  /\ taskState = "SUCCESS"
  /\ \E S \in {{}, {"headers"}} : user' = Hashed(S)
  /\ Fail
  /\ phase' = "objects"
  /\ UNCHANGED <<world, outputs, file, load, store, dirty, todo, last, calm>>

PchExecute ==
  /\ phase = "pch_exec"
  /\ pch' = PchFrom([f \in Fields |-> Arg(f)])
  /\ store' = PchCompiled(user)
  /\ phase' = "objects"
  /\ UNCHANGED <<world, obj, bin, file, load, user, dirty, todo, taskState,
                 last, calm>>

(* The generated header cannot be saved, or the compiler fails: the old      *)
(* output stays or is gone.                                                  *)
PchExecuteFails ==
  /\ phase = "pch_exec"
  /\ pch' \in {pch, {}}
  /\ Fail
  /\ phase' = "objects"
  /\ UNCHANGED <<world, obj, bin, file, process, last, calm>>

Pch == PchSkip \/ PchCheck \/ PchHashFails \/ PchExecute \/ PchExecuteFails

-----------------------------------------------------------------------------
(* Objects: CompileObject::Task *)

ObjectChanged(u) ==
  load = {} \/ \E r \in load : ~Agree(r.cfg, u, ObjectCompared)

Listed == {<<s, ver[s]>> : s \in srcs}

(* RecompileSources: the sources added or updated since the loaded schema, *)
(* and whether one was removed.                                            *)
AddedOrUpdated == {p \in Listed : \A r \in load : p \notin r.sources}
SourceRemovedUnseen == FALSE
SourceRemoved ==
  \E r \in load : \E p \in r.sources : p[1] \notin srcs

ObjectsSkip ==
  /\ phase = "objects"
  /\ taskState = "FAILURE"
  /\ phase' = "link"
  /\ UNCHANGED <<world, outputs, file, process, taskState, last, calm>>

(* PreObjectCompile, the comparisons, and the choice of the sources that get *)
(* a subtask. The others are recorded again as they are.                     *)
SelectSources ==
  /\ phase = "objects"
  /\ taskState = "SUCCESS"
  /\ LET u == Hashed({"headers", "compile_dependencies"})
         all == dirty \/ ObjectChanged(u)
         selected == IF all THEN Listed ELSE AddedOrUpdated
     IN
       /\ user' = u
       /\ dirty' = (all \/ selected # {} \/ SourceRemoved)
       /\ todo' = selected
       /\ store' = [store EXCEPT !.sources = Listed \ selected]
  /\ phase' = "compile"
  /\ UNCHANGED <<world, outputs, file, load, taskState, last, calm>>

(* A listed source, header or dependency does not exist. *)
ObjectHashFails ==
  /\ phase = "objects"
  /\ taskState = "SUCCESS"
  /\ \E S \in {{}, {"headers"}} : user' = Hashed(S)
  /\ Fail
  /\ phase' = "link"
  /\ UNCHANGED <<world, outputs, file, load, store, dirty, todo, last, calm>>

(* The subtasks run in any order and do not look at the task state. *)
CompileSource(p) ==
  /\ phase = "compile"
  /\ p \in todo
  /\ obj' = [obj EXCEPT ![p[1]] =
       {[src |-> ver[p[1]],
         in  |-> [f \in ObjectInputs |-> ObjectArg(f, Arg(f))],
         pch |-> IF HasPch THEN pch ELSE {}]}]
  /\ store' = [store EXCEPT !.sources = @ \cup {p}]
  /\ todo' = todo \ {p}
  /\ UNCHANGED <<world, pch, bin, file, phase, load, user, dirty, taskState,
                 last, calm>>

(* The source recorded before the result of the compiler is known. *)
CompileSourceFailsRecorded(p) ==
  /\ phase = "compile"
  /\ p \in todo
  /\ \E left \in {obj[p[1]], {}} : obj' = [obj EXCEPT ![p[1]] = left]
  /\ Fail
  /\ store' = [store EXCEPT !.sources = @ \cup {p}]
  /\ todo' = todo \ {p}
  /\ UNCHANGED <<world, pch, bin, file, phase, load, user, dirty, last, calm>>

CompileSourceFails(p) ==
  /\ phase = "compile"
  /\ p \in todo
  /\ \E left \in {obj[p[1]], {}} : obj' = [obj EXCEPT ![p[1]] = left]
  /\ Fail
  /\ todo' = todo \ {p}
  /\ UNCHANGED <<world, pch, bin, file, phase, load, user, store, dirty, last,
                 calm>>

CompileJoin ==
  /\ phase = "compile"
  /\ todo = {}
  /\ phase' = "link"
  /\ UNCHANGED <<world, outputs, file, process, taskState, last, calm>>

Objects ==
  \/ ObjectsSkip \/ SelectSources \/ ObjectHashFails \/ CompileJoin
  \/ \E p \in todo : CompileSource(p) \/ CompileSourceFails(p)

-----------------------------------------------------------------------------
(* Target: LinkTarget::Task *)

(* Without the flag, a link that failed is never tried again. *)
LinkChangedUnlinked(u) ==
  load = {} \/ \E r \in load : ~Agree(r.cfg, u, LinkCompared)

LinkChanged(u) ==
  \/ load = {}
  \/ \E r \in load : ~Agree(r.cfg, u, LinkCompared) \/ ~r.target_linked

(* The early return without leaving the task. *)
LinkSkipStays ==
  /\ phase = "link"
  /\ taskState = "FAILURE"
  /\ UNCHANGED vars

LinkSkip ==
  /\ phase = "link"
  /\ taskState = "FAILURE"
  /\ phase' = "end"
  /\ UNCHANGED <<world, outputs, file, process, taskState, last, calm>>

LinkCheck ==
  /\ phase = "link"
  /\ taskState = "SUCCESS"
  /\ LET u == Hashed({"libs", "link_dependencies"}) IN
       /\ user' = u
       /\ dirty' = (dirty \/ LinkChanged(u))
       /\ phase' = IF dirty \/ LinkChanged(u) THEN "link_exec" ELSE "end"
  /\ UNCHANGED <<world, outputs, file, load, store, todo, taskState, last,
                 calm>>

(* A library or link dependency does not exist. *)
LinkHashFails ==
  /\ phase = "link"
  /\ taskState = "SUCCESS"
  /\ \E S \in {{}, {"libs"}} : user' = Hashed(S)
  /\ Fail
  /\ phase' = "end"
  /\ UNCHANGED <<world, outputs, file, load, store, dirty, todo, last, calm>>

LinkExecute ==
  /\ phase = "link_exec"
  /\ \A s \in srcs : obj[s] # {}
  /\ bin' = {[in   |-> [f \in LinkInputs |-> Arg(f)],
              objs |-> [s \in srcs |-> obj[s]]]}
  /\ store' = [store EXCEPT !.target_linked = TRUE]
  /\ phase' = "end"
  /\ UNCHANGED <<world, pch, obj, file, load, user, dirty, todo, taskState,
                 last, calm>>

LinkExecuteFails ==
  /\ phase = "link_exec"
  /\ bin' \in {bin, {}}
  /\ Fail
  /\ phase' = "end"
  /\ UNCHANGED <<world, pch, obj, file, process, last, calm>>

Link ==
  LinkSkip \/ LinkCheck \/ LinkHashFails \/ LinkExecute \/ LinkExecuteFails

-----------------------------------------------------------------------------
(* End: Target::EndTask, which runs whatever the task state is *)

(* The sources taken from the script, whether compiled or not. *)
UpdatedStoreAllSources ==
  [cfg           |-> [user EXCEPT !["pchs"] = store.pchs],
   pch_compiled  |-> store.pch_compiled,
   sources       |-> Listed,
   target_linked |-> store.target_linked]

(* UpdateStore: everything the run read, but what the tasks recorded. *)
UpdatedStore ==
  [cfg           |-> [user EXCEPT !["pchs"] = store.pchs],
   pch_compiled  |-> store.pch_compiled,
   sources       |-> store.sources,
   target_linked |-> store.target_linked]

EndClean ==
  /\ phase = "end"
  /\ ~dirty
  /\ phase' = "exit"
  /\ UNCHANGED <<world, outputs, file, process, taskState, last, calm>>

(* The schema of a run that failed thrown away. *)
EndStoreSuccess ==
  /\ phase = "end"
  /\ dirty
  /\ file' = IF taskState = "SUCCESS" THEN {UpdatedStore} ELSE file
  /\ phase' = "exit"
  /\ UNCHANGED <<world, outputs, process, taskState, last, calm>>

EndStore ==
  /\ phase = "end"
  /\ dirty
  /\ file' = {UpdatedStore}
  /\ phase' = "exit"
  /\ UNCHANGED <<world, outputs, process, taskState, last, calm>>

(* StoreToFile cannot open the file, or leaves it truncated. *)
EndStoreFails ==
  /\ phase = "end"
  /\ dirty
  /\ Interrupts
  /\ file' \in {file, {}}
  /\ Fail
  /\ phase' = "exit"
  /\ UNCHANGED <<world, outputs, process, last, calm>>

End == EndClean \/ EndStore \/ EndStoreFails

-----------------------------------------------------------------------------
(* The process around the target's tasks *)

(* The process is gone and its memory with it. *)
ProcessGone ==
  /\ phase' = "idle"
  /\ load' = {} /\ user' = NothingRead /\ store' = EmptyStore
  /\ dirty' = FALSE /\ todo' = {} /\ taskState' = "SUCCESS"

(* The result of the run does not look at the task state. *)
RunBuildAlwaysOk ==
  /\ phase = "exit"
  /\ last' = "ok"
  /\ ProcessGone
  /\ UNCHANGED <<world, outputs, file, calm>>

(* The task state itself taken for the result. *)
RunBuildRaw ==
  /\ phase = "exit"
  /\ last' = taskState
  /\ ProcessGone
  /\ UNCHANGED <<world, outputs, file, calm>>

(* The executor is done: the process reports the task state and exits. *)
RunBuild ==
  /\ phase = "exit"
  /\ last' = IF taskState = "SUCCESS" THEN "ok" ELSE "failed"
  /\ ProcessGone
  /\ UNCHANGED <<world, outputs, file, calm>>

(* A task of another target, or a generator, fails: the state is shared. *)
OtherTaskFails ==
  /\ phase # "idle"
  /\ taskState = "SUCCESS"
  /\ Fail
  /\ UNCHANGED <<world, outputs, file, phase, process, last, calm>>

(* The process is killed. The output being written is lost, and the schema *)
(* may be when the End task was writing it.                                *)
Interrupt ==
  /\ Interrupts
  /\ phase # "idle"
  /\ IF phase = "pch_exec" THEN pch' \in {pch, {}} ELSE pch' = pch
  /\ IF phase = "compile"
       THEN \E lost \in SUBSET {p[1] : p \in todo} :
              obj' = [s \in Sources |-> IF s \in lost THEN {} ELSE obj[s]]
       ELSE obj' = obj
  /\ IF phase = "link_exec" THEN bin' \in {bin, {}} ELSE bin' = bin
  /\ IF phase = "end" /\ dirty THEN file' \in {file, {}} ELSE file' = file
  /\ last' = "killed"
  /\ ProcessGone
  /\ UNCHANGED <<world, calm>>

Tasks == Pch \/ Objects \/ Link \/ End

Next == User \/ Build \/ Tasks \/ RunBuild \/ OtherTaskFails \/ Interrupt

Spec == Init /\ [][Next]_vars

(* The executor runs every task it was given, and the run then reports: only *)
(* the process's own steps are fair. Nobody has to start a run or edit.      *)
FairSpec == Spec /\ WF_vars(Tasks) /\ WF_vars(RunBuild)

-----------------------------------------------------------------------------
(* Properties *)

Value == Version \cup {Unhashed}

PchFile == [PchInputs -> Value]

ObjectFile ==
  [src : Timestamp, in : [ObjectInputs -> Value], pch : SUBSET PchFile]

Recorded ==
  [pchs : Value, pch_compiled : BOOLEAN,
   sources : SUBSET (Sources \X Timestamp), target_linked : BOOLEAN]

Schema ==
  [cfg : [Fields -> Value], pch_compiled : BOOLEAN,
   sources : SUBSET (Sources \X Timestamp), target_linked : BOOLEAN]

WorldType ==
  /\ cfg \in [Fields -> Version]
  /\ ver \in [Sources -> Timestamp]
  /\ srcs \subseteq Sources

OutputType ==
  /\ pch \subseteq PchFile
  /\ obj \in [Sources -> SUBSET ObjectFile]
  /\ \A b \in bin :
       /\ b.in \in [LinkInputs -> Value]
       /\ \E S \in SUBSET Sources : b.objs \in [S -> SUBSET ObjectFile]

ProcessType ==
  /\ file \subseteq Schema
  /\ load \subseteq Schema
  /\ user \in [Fields -> Value]
  /\ store \in Recorded
  /\ todo \subseteq Sources \X Timestamp

ControlType ==
  /\ phase \in Phases
  /\ dirty \in BOOLEAN
  /\ taskState \in {"SUCCESS", "FAILURE"}
  /\ last \in {"none", "ok", "failed", "killed"}
  /\ calm \in 0..2

TypeOK == WorldType /\ OutputType /\ ProcessType /\ ControlType

(* The checks of a run that started now, all of them, would find nothing: *)
(* nothing would be compiled, linked or stored.                           *)
NothingToDo(r) ==
  /\ HasPch => Agree(r.cfg, cfg, PchCompared) /\ r.pch_compiled
  /\ Agree(r.cfg, cfg, ObjectCompared)
  /\ r.sources = Listed
  /\ Agree(r.cfg, cfg, LinkCompared) /\ r.target_linked

(* Whenever a run would find nothing to do, there is nothing to do: every    *)
(* output on disk is the one a build from nothing would make. This is what   *)
(* makes skipping work safe, whatever was edited, failed or was killed       *)
(* between the run that wrote the schema and now.                            *)
NoMissedRebuild == \A r \in file : NothingToDo(r) => Clean

(* A run that reports success, with nothing edited since it began, leaves   *)
(* the outputs of a build from nothing (tasks.cpp, Target::EndTask and      *)
(* Register::RunBuild: task state SUCCESS is the promise made to the user). *)
SuccessIsClean == phase = "idle" /\ last = "ok" /\ calm > 0 => Clean

(* A run that follows a successful one with no edit between finds nothing    *)
(* changed: it never becomes dirty, so it compiles, links and stores nothing.*)
NoSpuriousRebuild == calm = 2 /\ phase # "idle" => ~dirty

(* A list of files that is not the one the last schema recorded (a path      *)
(* added, removed or updated) makes the run dirty: the rebuild conditions of *)
(* a target, docs/source/arch/testing.rst:79-82.                             *)
PathChangeRebuilds ==
  phase = "end" /\ taskState = "SUCCESS" /\ calm > 0 =>
    \A r \in load : ~Agree(r.cfg, cfg, FileFields) => dirty

(* Every run that starts comes to an end. *)
RunEnds == phase # "idle" ~> phase = "idle"

(* Work done is not done again: a source is compiled only if its object is   *)
(* not the one a build from nothing would make. In particular a run that     *)
(* failed keeps, through Target::EndTask, what it did compile. Holds where   *)
(* nothing reverts, nothing is saved during a run, no run is killed and the  *)
(* flags for objects with a PCH stay: those recompile a target without one.  *)
NoRedundantCompile ==
  [][\A p \in todo \ todo' : obj[p[1]] # {CleanObject(p[1])}]_vars

(* The target keeps the contract of an incremental build. *)
Contract == INSTANCE BuildContract
              WITH running <- phase # "idle", clean <- Clean

ImplementsContract == Contract!Spec
=============================================================================
