------------------------------ MODULE Generators ------------------------------
(***************************************************************************)
(* File and template generators, from the calls of the script to the files *)
(* they make, over several processes: the data that CustomGenerator leaves *)
(* out.  A file generator has one id, whose callback runs its commands one *)
(* after the other; a template generator has one id for each template,     *)
(* whose callback puts values in place of the template's identifiers.      *)
(* Generators are ordered by Reg::Dep.  Runs are not killed here and       *)
(* schemas are stored: CustomGenerator is about that.                      *)
(***************************************************************************)
EXTENDS Command, Integers, Sequences, FiniteSets, SequencesExt

CONSTANTS
  Generators,    \* the generators of the script
  Kind,          \* "file" or "template", for each
  Deps,          \* the calls of Reg::Dep: <<dependency, generator>>
  Scripts,       \* the scripts: sequences of calls [of, call, arg]
  Identifiers,   \* the identifiers in each file, when it is a template
  Saved,         \* the files the user saves
  MaxProcesses   \* bound on the processes

Paths == DOMAIN Identifiers

Called == UNION {ToSet(s) : s \in Scripts}
Making == {call \in Called : call.call \in {"AddCommand", "AddTemplate"}}

ASSUME KindAssumption == Kind \in [Generators -> {"file", "template"}]
ASSUME DepsAssumption == Deps \subseteq Generators \X Generators
ASSUME ScriptsAssumption ==
  /\ Scripts \subseteq Seq(Called)
  /\ \A call \in Called :
       /\ call.of \in Generators
       /\ call.call = "AddPatterns" => IsFiniteSet(call.arg)
       /\ call.call \in {"AddInput", "AddOutput"} => call.arg \in Paths
       /\ call \in Making => call.arg.reads \in Paths /\ call.arg.writes \in Paths
ASSUME SavedAssumption == Saved \subseteq Paths
ASSUME BoundAssumption == Scripts # {} /\ MaxProcesses \in Nat \ {0}

(* The files that some script has g make. *)
Makes(g) == {call.arg.writes : call \in {c \in Making : c.of = g}}

(* A file is made by one generator, by one call of a script, and by no user. *)
OneMaker ==
  /\ \A g, h \in Generators : g # h => Makes(g) \cap Makes(h) = {}
  /\ \A s \in Scripts : \A i, j \in DOMAIN s :
       /\ {s[i], s[j]} \subseteq Making
       /\ s[i].arg.writes = s[j].arg.writes
       => i = j
  /\ \A g \in Generators : Makes(g) \cap Saved = {}

VARIABLES
  command,      \* command_ of each generator: its identifiers
  given,        \* its inputs_, outputs_, commands_ and template_infos_
  ids,          \* its user_.ids
  built,        \* the generators for which Build was called
  calls,        \* the calls the script has left
  phase,        \* where the process is
  taskState,    \* env::get_task_state()
  stage,        \* where the Generate task of each generator is
  waiting,      \* the ids whose subtask did not start
  todo,         \* what the callbacks under way have left to do, for each id
  should_run, run_success, dirty,
  files,        \* each file: the time it was last written, its content
  stored,       \* {} or the schema, for each generator
  last,         \* history: {} or the script of a run that succeeded, if
                \* nothing was saved since
  processes

script == <<command, given, ids, built, calls>>
tasks == <<stage, waiting, todo, should_run, run_success, dirty>>
vars == <<script, phase, taskState, tasks, files, stored, last, processes>>

-----------------------------------------------------------------------------
(* The script *)

(* CustomGenerator::Initialize *)
Defaults ==
  [k \in {"project_root_dir", "project_build_dir", "current_root_dir",
          "current_build_dir"} |-> k]

NewScript ==
  /\ command' = [g \in Generators |-> Defaults]
  /\ given' = [g \in Generators |-> [inputs |-> {}, outputs |-> {},
                                     commands |-> <<>>, templates |-> <<>>]]
  /\ ids' = [g \in Generators |-> <<>>]
  /\ built' = {} /\ calls' \in Scripts
  /\ phase' = "script" /\ taskState' = "SUCCESS"

NoTasks ==
  /\ stage' = [g \in Generators |-> "none"]
  /\ waiting' = [g \in Generators |-> {}]
  /\ todo' = [g \in Generators |-> <<>>]
  /\ should_run' = [g \in Generators |-> {}]
  /\ run_success' = [g \in Generators |-> {}]
  /\ dirty' = [g \in Generators |-> FALSE]

Calling(call) ==
  /\ phase = "script" /\ calls # <<>> /\ Head(calls).call = call
  /\ calls' = Tail(calls)

Of == Head(calls).of
Arg == Head(calls).arg

Elsewhere == UNCHANGED <<taskState, tasks, files, stored, last, processes>>

(* The value put in place of all the others. *)
WithPatternAlone(args, p) ==
  {[k \in {p.identifier} |-> [text |-> p.text, with |-> values]] :
     values \in Construct(p.uses, args)}

(* AddPattern on args: {} when it names an identifier without a value. *)
WithPattern(args, p) ==
  {AddDefaultArguments(args, value) : value \in WithPatternAlone(args, p)}

(* AddPatterns goes through an unordered map. *)
WithPatterns(args, ps) ==
  UNION {FoldLeft(LAMBDA made, p : UNION {WithPattern(a, p) : a \in made},
                  {args}, order) : order \in SetToSeqs(ps)}

AddPatterns ==
  /\ Calling("AddPatterns")
  /\ \E args \in WithPatterns(command[Of], Arg) :
       command' = [command EXCEPT ![Of] = args]
  /\ UNCHANGED <<given, ids, built, phase>> /\ Elsewhere

(* Some order meets an identifier before its value. *)
AddPatternsFails ==
  /\ Calling("AddPatterns")
  /\ \E order \in SetToSeqs(Arg) : \E i \in DOMAIN order :
       ~order[i].uses \subseteq DOMAIN command[Of]
                                \cup {order[j].identifier : j \in 1..(i - 1)}
  /\ phase' = "failed"
  /\ UNCHANGED <<command, given, ids, built>> /\ Elsewhere

Give(field, value) ==
  /\ given' = [given EXCEPT ![Of][field] = value]
  /\ UNCHANGED <<command, ids, built, phase>> /\ Elsewhere

AddInput ==
  Calling("AddInput") /\ Give("inputs", given[Of].inputs \cup {Arg})

AddOutput ==
  Calling("AddOutput") /\ Give("outputs", given[Of].outputs \cup {Arg})

(* The command is constructed with the values there are by now. *)
AddCommand ==
  /\ Calling("AddCommand")
  /\ \E values \in Construct(Arg.uses, command[Of]) :
       Give("commands",
            Append(given[Of].commands,
                   [reads |-> Arg.reads, writes |-> Arg.writes,
                    with |-> values]))

AddCommandFails ==
  /\ Calling("AddCommand")
  /\ Construct(Arg.uses, command[Of]) = {}
  /\ phase' = "failed"
  /\ UNCHANGED <<command, given, ids, built>> /\ Elsewhere

AddTemplate ==
  Calling("AddTemplate")
  /\ Give("templates", Append(given[Of].templates, Arg))

Templates(g) == ToSet(given[g].templates)

(* An id of its own for each template: the input's path. *)
GivenIds(g) ==
  IF Kind[g] = "file"
  THEN [id \in {"Generate"} |->
          [inputs |-> given[g].inputs, outputs |-> given[g].outputs]]
  ELSE [input \in {t.reads : t \in Templates(g)} |->
          [inputs |-> {input},
           outputs |-> {t.writes : t \in {u \in Templates(g) : u.reads = input}}]]

DuplicateId ==
  \/ Cardinality({t.reads : t \in Templates(Of)}) < Len(given[Of].templates)
  \/ DOMAIN ids[Of] \cap DOMAIN GivenIds(Of) # {}

Build ==
  /\ Calling("Build")
  /\ ~DuplicateId
  /\ ids' = [ids EXCEPT ![Of] = GivenIds(Of)] /\ built' = built \cup {Of}
  /\ UNCHANGED <<command, given, phase>> /\ Elsewhere

(* Two templates of one input are one id twice, and so is a second Build. *)
BuildFails ==
  /\ Calling("Build")
  /\ DuplicateId
  /\ phase' = "failed"
  /\ UNCHANGED <<command, given, ids, built>> /\ Elsewhere

Script ==
  \/ AddPatterns \/ AddPatternsFails \/ AddInput \/ AddOutput
  \/ AddCommand \/ AddCommandFails \/ AddTemplate \/ Build \/ BuildFails

-----------------------------------------------------------------------------
(* The Generate task *)

(* Reg::Run *)
Run ==
  /\ phase = "script" /\ calls = <<>>
  /\ phase' = "build"
  /\ stage' = [g \in Generators |-> IF g \in built THEN "waiting" ELSE "done"]
  /\ UNCHANGED <<script, taskState, waiting, todo, should_run, run_success,
                 dirty, files, stored, last, processes>>

Exists(path) == files[path].time > 0

(* The blob left out. *)
EntryNoBlob(g, id) ==
  [inputs |-> [path \in ids[g][id].inputs |-> files[path].time],
   outputs |-> ids[g][id].outputs, blob |-> <<>>]

(* ConvertToInternal. The blob of a file generator refers to commands_; an  *)
(* id of a template generator has none.                                     *)
Entry(g, id) ==
  [inputs |-> [path \in ids[g][id].inputs |-> files[path].time],
   outputs |-> ids[g][id].outputs, blob |-> given[g].commands]

Tasks == UNCHANGED <<script, phase, last, processes>>

(* What the generator depends on not waited for. *)
BeginAnyway(g) ==
  /\ stage[g] = "waiting"
  /\ taskState = "SUCCESS"
  /\ stage' = [stage EXCEPT ![g] = "running"]
  /\ waiting' = [waiting EXCEPT ![g] = DOMAIN ids[g]]
  /\ dirty' = [dirty EXCEPT ![g] = \A s \in stored[g] : DOMAIN s # DOMAIN ids[g]]
  /\ UNCHANGED <<taskState, todo, should_run, run_success, files, stored>>
  /\ Tasks

Begin(g) ==
  /\ stage[g] = "waiting"
  /\ \A d \in Deps : d[2] = g => stage[d[1]] = "done"
  /\ taskState = "SUCCESS"
  /\ stage' = [stage EXCEPT ![g] = "running"]
  /\ waiting' = [waiting EXCEPT ![g] = DOMAIN ids[g]]
  /\ dirty' = [dirty EXCEPT ![g] = \A s \in stored[g] : DOMAIN s # DOMAIN ids[g]]
  /\ UNCHANGED <<taskState, todo, should_run, run_success, files, stored>>
  /\ Tasks

BeginSkips(g) ==
  /\ stage[g] = "waiting" /\ taskState = "FAILURE"
  /\ stage' = [stage EXCEPT ![g] = "done"]
  /\ UNCHANGED <<taskState, waiting, todo, should_run, run_success, dirty,
                 files, stored>>
  /\ Tasks

(* The commands in the blob of a file generator; the callback of a template *)
(* reads its first input and writes its first output.                       *)
Callback(g, inputs, outputs, blob) ==
  IF Kind[g] = "file" THEN blob
  ELSE <<[reads |-> CHOOSE path \in inputs : TRUE,
          writes |-> CHOOSE path \in outputs : TRUE]>>

CallbackOf(g, id) ==
  Callback(g, ids[g][id].inputs, ids[g][id].outputs, given[g].commands)

Starts(g, id) ==
  /\ id \in waiting[g]
  /\ waiting' = [waiting EXCEPT ![g] = @ \ {id}]

Changed(g, id) ==
  \A s \in stored[g] : id \in DOMAIN s => s[id] # Entry(g, id)

With(f, id, value) ==
  [i \in DOMAIN f \cup {id} |-> IF i = id THEN value ELSE f[i]]

Check(g, id) ==
  /\ Starts(g, id)
  /\ taskState = "SUCCESS" /\ \A path \in ids[g][id].inputs : Exists(path)
  /\ IF Changed(g, id)
     THEN /\ should_run' = [should_run EXCEPT ![g] = @ \cup {id}]
          /\ todo' = [todo EXCEPT ![g] = With(@, id, CallbackOf(g, id))]
          /\ UNCHANGED run_success
     ELSE /\ run_success' = [run_success EXCEPT ![g] = @ \cup {id}]
          /\ UNCHANGED <<should_run, todo>>
  /\ UNCHANGED <<taskState, stage, dirty, files, stored>> /\ Tasks

CheckFails(g, id) ==
  /\ Starts(g, id)
  /\ taskState = "SUCCESS" /\ \E path \in ids[g][id].inputs : ~Exists(path)
  /\ taskState' = "FAILURE"
  /\ UNCHANGED <<stage, todo, should_run, run_success, dirty, files, stored>>
  /\ Tasks

CheckSkips(g, id) ==
  /\ Starts(g, id)
  /\ taskState = "FAILURE"
  /\ UNCHANGED <<taskState, stage, todo, should_run, run_success, dirty, files,
                 stored>>
  /\ Tasks

Without(f, id) == [i \in DOMAIN f \ {id} |-> f[i]]

(* A command has its values; a template takes those of now. *)
Values(g, step) ==
  IF Kind[g] = "file" THEN {step.with}
  ELSE Construct(Identifiers[step.reads], command[g])

Content(step, values) ==
  [saved |-> 0, from |-> <<files[step.reads].content>>, with |-> values]

Write(path, content) ==
  files' = [files EXCEPT ![path] = [time |-> @.time + 1, content |-> content]]

Under(g, id) == id \in DOMAIN todo[g] /\ todo[g][id] # <<>>

Execute(g, id) ==
  /\ Under(g, id)
  /\ LET step == Head(todo[g][id]) IN
       /\ Exists(step.reads)
       /\ \E values \in Values(g, step) : Write(step.writes, Content(step, values))
  /\ todo' = [todo EXCEPT ![g][id] = Tail(@)]
  /\ UNCHANGED <<taskState, stage, waiting, should_run, run_success, dirty,
                 stored>>
  /\ Tasks

Broken == [saved |-> 0, from |-> <<>>, with |-> <<>>]

(* The commands after it are not run. *)
ExecuteFails(g, id) ==
  /\ Under(g, id)
  /\ UNCHANGED files \/ Write(Head(todo[g][id]).writes, Broken)
  /\ todo' = [todo EXCEPT ![g] = Without(@, id)]
  /\ taskState' = "FAILURE"
  /\ UNCHANGED <<stage, waiting, should_run, run_success, dirty, stored>>
  /\ Tasks

Return(g, id) ==
  /\ id \in DOMAIN todo[g] /\ todo[g][id] = <<>>
  /\ todo' = [todo EXCEPT ![g] = Without(@, id)]
  /\ run_success' = [run_success EXCEPT ![g] = @ \cup {id}]
  /\ UNCHANGED <<taskState, stage, waiting, should_run, dirty, files, stored>>
  /\ Tasks

Join(g) ==
  /\ stage[g] = "running" /\ waiting[g] = {} /\ DOMAIN todo[g] = {}
  /\ stage' = [stage EXCEPT ![g] = "done"]
  /\ dirty' = [dirty EXCEPT ![g] = @ \/ should_run[g] # {}]
  /\ stored' = IF dirty'[g]
               THEN [stored EXCEPT ![g] = {[id \in run_success[g] |-> Entry(g, id)]}]
               ELSE stored
  /\ UNCHANGED <<taskState, waiting, todo, should_run, run_success, files>>
  /\ Tasks

Generate(g) ==
  \/ Begin(g) \/ BeginSkips(g) \/ Join(g)
  \/ \E id \in DOMAIN ids[g] :
       \/ Check(g, id) \/ CheckFails(g, id) \/ CheckSkips(g, id)
       \/ Execute(g, id) \/ ExecuteFails(g, id) \/ Return(g, id)

(* The executor returns, RunBuild looks at the task state. *)
RunBuildEnds ==
  /\ phase = "build" /\ \A g \in Generators : stage[g] = "done"
  /\ phase' = IF taskState = "SUCCESS" THEN "ok" ELSE "failed"
  /\ last' = IF taskState = "SUCCESS" THEN {<<command, given, ids, built>>} ELSE {}
  /\ UNCHANGED <<script, taskState, tasks, files, stored, processes>>

-----------------------------------------------------------------------------
(* Processes *)

Save(path) ==
  /\ Write(path, [files[path].content EXCEPT !.saved = @ + 1])
  /\ last' = {}

NextProcess ==
  /\ phase \in {"ok", "failed"} /\ processes < MaxProcesses
  /\ processes' = processes + 1
  /\ NewScript /\ NoTasks
  /\ UNCHANGED <<files, last>> \/ \E path \in Saved : Save(path)
  /\ UNCHANGED stored

Next ==
  \/ Script \/ Run \/ RunBuildEnds \/ NextProcess
  \/ \E g \in Generators : Generate(g)

Init ==
  /\ command = [g \in Generators |-> Defaults]
  /\ given = [g \in Generators |-> [inputs |-> {}, outputs |-> {},
                                    commands |-> <<>>, templates |-> <<>>]]
  /\ ids = [g \in Generators |-> <<>>]
  /\ built = {} /\ calls \in Scripts
  /\ phase = "script" /\ taskState = "SUCCESS"
  /\ stage = [g \in Generators |-> "none"]
  /\ waiting = [g \in Generators |-> {}] /\ todo = [g \in Generators |-> <<>>]
  /\ should_run = [g \in Generators |-> {}]
  /\ run_success = [g \in Generators |-> {}]
  /\ dirty = [g \in Generators |-> FALSE]
  /\ files = [path \in Paths |->
                [time |-> IF path \in Saved THEN 1 ELSE 0,
                 content |-> [saved |-> 0, from |-> <<>>, with |-> <<>>]]]
  /\ stored = [g \in Generators |-> {}] /\ last = {} /\ processes = 1

Spec == Init /\ [][Next]_vars

-----------------------------------------------------------------------------
(* Properties *)

TypeOK ==
  /\ built \subseteq Generators /\ processes \in 1..MaxProcesses
  /\ phase \in {"script", "build", "ok", "failed"}
  /\ taskState \in {"SUCCESS", "FAILURE"}
  /\ \A g \in Generators :
       /\ DOMAIN Defaults \subseteq DOMAIN command[g]
       /\ stage[g] \in {"none", "waiting", "running", "done"}
       /\ waiting[g] \cup DOMAIN todo[g] \cup should_run[g] \cup run_success[g]
            \subseteq DOMAIN ids[g]
       /\ dirty[g] \in BOOLEAN /\ Cardinality(stored[g]) <= 1
  /\ \A path \in Paths : files[path].time \in Nat

(* The files the steps of an id write, and those of a generator. *)
Steps(g) == UNION {ToSet(CallbackOf(g, id)) : id \in DOMAIN ids[g]}
Writes(g) == {step.writes : step \in Steps(g)}

(* A step whose input a rebuild follows: it is an input of the id, which no *)
(* script has a generator make but one that runs before; or it is what      *)
(* earlier commands of the id, and no other, write.                         *)
Followed(g, inputs, steps, i) ==
  LET path == steps[i].reads
      Writers == {j \in DOMAIN steps : steps[j].writes = path}
  IN \/ /\ path \in inputs \ Makes(g)
        /\ \A h \in Generators \ {g} : path \in Makes(h) => <<h, g>> \in Deps
     \/ /\ Writers # {} /\ \A j \in Writers : j < i
        /\ \A h \in Generators \ {g} : path \notin Makes(h)

(* After a run that succeeds every step was made from its input as it is     *)
(* now, a command with the values the script gives it now: whatever was      *)
(* added to the generator after Build, whichever commands of an earlier run  *)
(* failed half-way, across generators ordered by Reg::Dep. The values put in *)
(* a template are not followed, no step that Followed leaves out, and no     *)
(* file that two calls make (FileGeneratorGenerateCb, template_generate_cb). *)
OutputsCurrent ==
  phase = "ok" /\ OneMaker => \A g \in Generators : \A id \in DOMAIN ids[g] :
    LET steps == CallbackOf(g, id) IN \A i \in DOMAIN steps :
      Followed(g, ids[g][id].inputs, steps, i) =>
        LET content == files[steps[i].writes].content IN
        /\ content.from = <<files[steps[i].reads].content>>
        /\ Kind[g] = "file" => content.with = steps[i].with

(* A script that is run again after it succeeded, with nothing saved         *)
(* meanwhile, runs no command and fills in no template, unless a generator   *)
(* reads what another that it does not wait for writes: what a generator     *)
(* stores of its inputs is what was there when its callbacks had ended       *)
(* (CustomGenerator::GenerateTask).                                          *)
Ordered ==
  \A g \in Generators : \A h \in Generators \ {g} :
    (\E id \in DOMAIN ids[g] : ids[g][id].inputs \cap Writes(h) # {})
      => <<h, g>> \in Deps

RunsNothingAgain ==
  phase = "build" /\ last = {<<command, given, ids, built>>} /\ Ordered =>
    \A g \in Generators : should_run[g] = {} /\ ~dirty[g]
=============================================================================
