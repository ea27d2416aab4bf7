----------------------------- MODULE TargetInputs -----------------------------
(***************************************************************************)
(* One target from the calls of the build script to what is on disk: the   *)
(* script creates it, gives it inputs and takes over those of another,     *)
(* calls Build, which makes the commands at once, and runs the tasks, which*)
(* compare the inputs with the ones stored, run commands, and store the    *)
(* inputs as they are by then.  The next process does it again with an     *)
(* edited script and perhaps another toolchain directory.  Files do not    *)
(* change and commands do not fail here: TargetBuild is about that.        *)
(***************************************************************************)
EXTENDS TargetApi

CONSTANTS
  Kinds,         \* the targets a script can create: <<type, toolchain id>>
  Dirs,          \* the directory each process finds the toolchain in
  InfoInputs,    \* what the other target holds: a function from some Fields
  Calls,         \* the calls that add a value: <<field, value>>
  DirHeaders,    \* a directory of headers to glob
  Options,       \* the sequences of options of Copy and Insert
  MaxCalls,      \* bound on the calls of a script
  MaxProcesses   \* bound on the processes

ASSUME KindsAssumption == Kinds \subseteq Types \X {"Gcc", "Msvc", "MinGW"}
ASSUME BoundAssumption == MaxCalls \in Nat /\ MaxProcesses \in Nat \ {0}
ASSUME DirsAssumption == Len(Dirs) >= MaxProcesses
ASSUME InfoAssumption == InfoInputs = [f \in Fields |-> InfoInputs[f]]
ASSUME CallsAssumption == \A c \in Calls : c[1] \in Fields
ASSUME OptionsAssumption == Options \subseteq Seq(Fields)

SourceFiles ==
  ToSet(InfoInputs["sources"])
  \cup {c[2] : c \in {d \in Calls : d[1] = "sources"}}

ASSUME FilesAssumption ==
  /\ InfoInputs["sources"] \in
       Seq({file \in SourceFiles : IsValidSource(DefaultConfig, file.ext)})
  /\ \A file \in SourceFiles :
       /\ file = [dirs |-> file.dirs, name |-> file.name, ext |-> file.ext]
       /\ file.dirs \in Seq(ToSet(file.dirs))

VARIABLES
  type,       \* the target's type, the same in every process
  toolchain,  \* the verified toolchain
  user,       \* {} or what the target was given: user_
  info,       \* what the other target holds
  commands,   \* {} or the commands Build made
  late,       \* the fields that changed after Build
  phase,      \* where the process is
  calls,      \* the calls the script has made
  processes,  \* the processes so far
  stored,     \* {} or the target's .bin file
  made        \* {} or the commands that made its outputs

script == <<user, info, commands, late>>
disk == <<stored, made>>
vars == <<type, toolchain, script, phase, calls, processes, disk>>

Phases == {"script", "ok", "failed"}

Unique(S) == CHOOSE x \in S : TRUE
User == Unique(user)
Cached == Unique(commands)
Stored == Unique(stored)
Made == Unique(made)

Config == Unique(GenericConfig(type, toolchain.id))

-----------------------------------------------------------------------------
(* The script *)

Verified(id, dir) ==
  LET t == Unique(New(id, "t", {}, {}, {}))
  IN [t EXCEPT !.executables = CreateToolchainExecutables(dir, @)]

Init ==
  /\ \E kind \in Kinds :
       type = kind[1] /\ toolchain = Verified(kind[2], Dirs[1])
  /\ user = {} /\ info = InfoInputs
  /\ commands = {} /\ late = {}
  /\ phase = "script"
  /\ calls = 0 /\ processes = 1
  /\ stored = {} /\ made = {}

Scripting == phase = "script"

Call == Scripting /\ calls < MaxCalls /\ calls' = calls + 1

Exit ==
  /\ phase' = "failed"
  /\ UNCHANGED <<type, toolchain, script, processes, disk>>

Changed(f) == late' = IF commands = {} THEN late ELSE late \cup {f}

(* AddLinkFlag and the others on the toolchain: targets made later start *)
(* with the flag, this one if it is not made yet.                        *)
ToolchainFlag(f, value) ==
  /\ Call
  /\ toolchain' = [toolchain EXCEPT !.flags[f] = Append(@, value)]
  /\ UNCHANGED <<type, script, phase, processes, disk>>

NewTarget ==
  /\ Scripting /\ user = {}
  /\ user' = Target_generic(type, toolchain)
  /\ UNCHANGED <<type, toolchain, info, commands, late, phase, calls,
                 processes, disk>>

AddCall(f, value) ==
  /\ Call
  /\ user # {} /\ Accepts(toolchain, f, value)
  /\ user' = {Add(User, f, value)}
  /\ Changed(f)
  /\ UNCHANGED <<type, toolchain, info, commands, phase, processes, disk>>

AddRefused(f, value) ==
  /\ Call
  /\ user # {} /\ ~Accepts(toolchain, f, value)
  /\ Exit

GlobCall ==
  /\ Call
  /\ user # {}
  /\ user' = {Glob(User, toolchain, "headers", DirHeaders)}
  /\ Changed("headers")
  /\ UNCHANGED <<type, toolchain, info, commands, phase, processes, disk>>

Took(pair, options) ==
  /\ user' = {pair[1]} /\ info' = pair[2]
  /\ late' = IF commands = {} THEN late ELSE late \cup ToSet(options)
  /\ UNCHANGED <<type, toolchain, commands, phase, processes, disk>>

CopyCall(options, moved) ==
  Call /\ user # {} /\ Took(Copy(User, info, options, moved), options)

InsertCall(options, moved) ==
  Call /\ user # {} /\ Took(Insert(User, info, options, moved), options)

BuildCall ==
  /\ Scripting /\ user # {} /\ commands = {}
  /\ commands' = {Commands(User, toolchain, Config)}
  /\ UNCHANGED <<type, toolchain, user, info, late, phase, calls,
                 processes, disk>>

-----------------------------------------------------------------------------
(* The tasks *)

(* Nothing stored differs from everything. *)
Differs(fields) ==
  \A s \in stored : \E f \in fields : s.user[f] # User[f]

PchFields ==
  {"preprocessor_flags", "common_compile_flags", "pch_compile_flags",
   "c_compile_flags", "cpp_compile_flags", "include_dirs", "headers", "pchs"}

ObjectFields ==
  {"preprocessor_flags", "common_compile_flags", "pch_object_flags",
   "asm_compile_flags", "c_compile_flags", "cpp_compile_flags",
   "include_dirs", "headers", "compile_dependencies"}

LinkFields ==
  {"link_flags", "lib_dirs", "external_libs", "link_dependencies", "libs"}

(* Whether Build gave the target a Pch task. *)
HasPchTask == Cached.pch # {}

CompilesPch ==
  /\ HasPchTask
  /\ \A s \in stored : Differs(PchFields) \/ ~s.pch_compiled

CompilesAll == CompilesPch \/ Differs(ObjectFields)

Sources == ToSet(User.sources)

SelectedSources ==
  IF CompilesAll THEN Sources ELSE Sources \ Stored.sources

(* A source listed after Build has no command: GetObjectData is fatal, *)
(* which its subtask catches.                                          *)
Compiled == SelectedSources \cap DOMAIN Cached.objects

SourcesChanged ==
  CompilesAll \/ \A s \in stored : s.sources # Sources

(* Without a look at the libraries that are targets. *)
LinksByFlags ==
  \/ SourcesChanged \/ Differs(LinkFields \ {"libs"})
  \/ \A s \in stored : ~s.target_linked

Links ==
  \/ SourcesChanged \/ Differs(LinkFields)
  \/ \A s \in stored : ~s.target_linked

PastHoles == IF made = {} THEN {} ELSE Made.holes

(* What the comparisons above cannot see: an input of a command given after *)
(* the command was made, a precompiled header taken away, and one compiled  *)
(* as C that the first C++ source wants as C++, or the other way round.     *)
CommandFields ==
  Fields \ {"headers", "compile_dependencies", "link_dependencies"}

LateHole == IF late \cap CommandFields # {} THEN {"late"} ELSE {}

PchHoles ==
  (IF stored # {} /\ Stored.pch_compiled /\ ~HasPchTask
   THEN {"pch_removed"} ELSE {})
  \cup (IF made # {} /\ HasPchTask
            /\ Made.language # PchLanguage(User, toolchain)
         THEN {"language"} ELSE {})

MadeAgain == CompilesAll /\ (HasPchTask => CompilesPch)

(* Target's EndTask: UpdateStore keeps what the tasks put there. *)
CompiledNow == (Sources \ SelectedSources) \cup Compiled

NewStore(linked) ==
  [user |-> [f \in JsonFields |->
               IF f = "pchs" /\ ~HasPchTask THEN <<>> ELSE User[f]],
   sources |-> CompiledNow,
   pch_compiled |-> HasPchTask, target_linked |-> linked]

Store(linked) == stored' = {NewStore(linked)}

NewOutputs(linked) ==
  [pch |-> IF CompilesPch THEN Cached.pch
           ELSE IF made = {} THEN {} ELSE Made.pch,
   language |-> IF CompilesPch \/ made = {} THEN PchLanguage(User, toolchain)
                ELSE Made.language,
   objects |-> [file \in CompiledNow |->
                  IF file \in Compiled THEN Cached.objects[file]
                  ELSE Made.objects[file]],
   link |-> IF linked THEN Cached.link
            ELSE IF made = {} THEN {} ELSE Made.link,
   holes |-> LateHole \cup (IF MadeAgain THEN {} ELSE PastHoles \cup PchHoles)]

MadeNow(linked) == made' = {NewOutputs(linked)}

Run(result) ==
  /\ Scripting /\ commands # {}
  /\ phase' = result
  /\ UNCHANGED <<type, toolchain, script, calls, processes>>

(* The sources without a command left out in silence. *)
RunDirtyAnyway ==
  /\ Run("ok")
  /\ Links
  /\ Store(TRUE) /\ MadeNow(TRUE)

RunDirty ==
  /\ Run("ok")
  /\ Links
  /\ Compiled = SelectedSources
  /\ Store(TRUE) /\ MadeNow(TRUE)

RunClean ==
  /\ Run("ok")
  /\ ~Links
  /\ UNCHANGED disk

(* The link is left out, what was compiled is stored. *)
RunFails ==
  /\ Run("failed")
  /\ Compiled # SelectedSources
  /\ Store(FALSE) /\ MadeNow(FALSE)

NextProcess ==
  /\ phase # "script" /\ processes < MaxProcesses
  /\ processes' = processes + 1
  /\ toolchain' = Verified(toolchain.id, Dirs[processes'])
  /\ user' = {} /\ info' = InfoInputs
  /\ commands' = {} /\ late' = {}
  /\ phase' = "script" /\ calls' = 0
  /\ UNCHANGED <<type, disk>>

Next ==
  \/ ToolchainFlag("link_flags", "t")
  \/ NewTarget
  \/ \E c \in Calls : AddCall(c[1], c[2]) \/ AddRefused(c[1], c[2])
  \/ GlobCall
  \/ \E o \in Options, moved \in BOOLEAN :
       CopyCall(o, moved) \/ InsertCall(o, moved)
  \/ BuildCall
  \/ RunDirty \/ RunClean \/ RunFails
  \/ NextProcess

Spec == Init /\ [][Next]_vars

-----------------------------------------------------------------------------
(* Properties *)

TypeOK ==
  /\ <<type, toolchain.id>> \in Kinds
  /\ \A u \in user : DOMAIN u = Fields
  /\ DOMAIN info = Fields
  /\ late \subseteq Fields
  /\ commands # {} => user # {}
  /\ phase \in Phases
  /\ calls \in 0..MaxCalls /\ processes \in 1..MaxProcesses
  /\ stored = {} <=> made = {}

(* Target_generic gives a target what the specialized class for that type   *)
(* and toolchain would, and nothing twice, although it builds it from two   *)
(* temporaries that each start with the toolchain's own flags               *)
(* (target_generic.h, kGenericCopyOptions).                                 *)
GenericIsSpecialized ==
  Target_generic(type, toolchain) = SpecializedTarget(type, toolchain)

(* Two sources share an object file only when the path to one of them has    *)
(* two dots in a row, they have the same name and extension, and they are    *)
(* equally deep below, or beside, the root: lib.d/v1..c and lib_d/v1..c do,  *)
(* although both are in the root (CompileObject::ConstructObjectPath).       *)
ObjectsDistinct ==
  \A u \in user : \A f, g \in ToSet(u.sources) :
    /\ f # g
    /\ ConstructObjectPath(toolchain, f) = ConstructObjectPath(toolchain, g)
    => /\ HasDotDot(f) \/ HasDotDot(g)
       /\ f.name = g.name /\ f.ext = g.ext
       /\ Len(f.dirs) = Len(g.dirs)

(* Whatever order the script gives its inputs in, a run that succeeds has an *)
(* object for every source of the target: one listed too late to get a       *)
(* command fails the run (CompileObject::GetObjectData).                     *)
EverySourceCompiled ==
  phase = "ok" => Sources \subseteq DOMAIN Made.objects

(* Build never meets a placeholder without a value in the commands of the    *)
(* ready-made targets, with or without a precompiled header                  *)
(* (Command::Construct).                                                     *)
CommandsConstructed ==
  [][commands' # commands /\ commands' # {} => Constructed(User, Unique(commands'))]_vars

(* After a run that succeeds, every output was made by the command the script *)
(* asks for now: the fields the tasks compare cover the commands, but for the *)
(* three holes and for the directory of the executables.                      *)
Executables == {"compiler", "cpp_compiler", "archiver", "linker"}

Plain(command) ==
  {[k \in DOMAIN c \ Executables |-> c[k]] : c \in command}

CommandsCurrent ==
  phase = "ok" /\ LateHole \cup PchHoles \cup PastHoles = {} =>
    /\ HasPchTask => Plain(Made.pch) = Plain(Cached.pch)
    /\ \A file \in Sources :
         Plain(Made.objects[file]) = Plain(Cached.objects[file])
    /\ Plain(Made.link) = Plain(Cached.link)
=============================================================================
