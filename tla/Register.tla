------------------------------- MODULE Register -------------------------------
(***************************************************************************)
(* Reg: the build script registers builders (targets and generators),      *)
(* dependencies and tests, then runs them all: the executor builds them in *)
(* the order of the graph, and the tests follow a build that succeeded.    *)
(* What a builder does is what BuildContract promises: when its tasks      *)
(* succeed, its output is that of a build from nothing.                    *)
(***************************************************************************)
EXTENDS Integers

CONSTANTS
  Builders,
  Uses,      \* the builders whose outputs a builder reads: pairs <<user, used>>
  DepCalls,  \* the calls Dep(target, dependency) a script can make: pairs
  TestCalls, \* the targets a script can call Test for
  Edited,    \* the builders with inputs of their own that are edited
  MaxSaved   \* bound on the versions of these inputs

ASSUME UsesAssumption == Uses \subseteq Builders \X Builders
ASSUME DepCallsAssumption == DepCalls \subseteq Builders \X Builders
ASSUME SubsetsAssumption == TestCalls \subseteq Builders /\ Edited \subseteq Builders
ASSUME BoundAssumption == MaxSaved \in Nat

VARIABLES
  ver,       \* the version of a builder's own inputs
  out,       \* the output of each builder: {} or what it was made from
  build,     \* build_: the builders registered
  edges,     \* the dependencies: <<dependency, target>>
  tests,     \* tests_
  phase,     \* where the process is
  task,      \* where the executor is with each builder
  taskState, \* env::get_task_state()
  testing    \* the tests not run yet

script == <<build, edges, tests>>
vars == <<ver, out, script, phase, task, taskState, testing>>

Phases == {"script", "endless", "build", "post", "test", "ok", "failed"}
Steps == {"none", "waiting", "running", "done"}

-----------------------------------------------------------------------------
(* Outputs and the graph *)

Used(b) == {d \in Builders : <<b, d>> \in Uses}

(* What the builder makes of its inputs as they are. *)
MadeNow(b) == {[own |-> ver[b], from |-> [d \in Used(b) |-> out[d]]]}

Fresh(b) == out[b] = MadeNow(b)

Loops(E) == {e \in E : e[1] = e[2]}

(* What the registered builders use is registered with them. *)
Registered ==
  /\ \A u \in Uses :
       u[1] \in build => u[2] \in build /\ <<u[2], u[1]>> \in edges
  /\ Loops(edges) = {}

Closed(S, E) == \A e \in E : e[1] \in S => e[2] \in S

(* The tasks a walk along the edges can meet after b, b itself included when *)
(* it is on a cycle: the members of every closed set the walk must stay in.  *)
Reached(b, E) ==
  {v \in Builders :
     \A S \in SUBSET Builders :
       Closed(S, E) /\ (\A e \in E : e[1] = b => e[2] \in S) => v \in S}

OnCycle(v, E) == v \in Reached(v, E)

(* DepDetectDuplicate *)
Duplicate(t, d) == <<d, t>> \in edges

(* The search one step deep, and from the wrong end. *)
DirectlyCyclic(t, d) == <<t, d>> \in edges
CyclicWrongWay(t, d) == t \in Reached(d, edges)

(* DepDetectCyclicDependency: the search finds d among the successors. *)
Cyclic(t, d) == d \in Reached(t, edges)

(* The search has no set of visited tasks: it goes round a cycle for ever. *)
SearchEndless(t) == \E v \in Reached(t, edges) : OnCycle(v, edges)

-----------------------------------------------------------------------------
(* The script *)

Init ==
  /\ ver = [b \in Builders |-> 0]
  /\ out = [b \in Builders |-> {}]
  /\ build = {} /\ edges = {} /\ tests = {}
  /\ phase = "script"
  /\ task = [b \in Builders |-> "none"]
  /\ taskState = "SUCCESS"
  /\ testing = {}

(* assert_fatal on the main thread: exit(1). *)
Exit == phase' = "failed" /\ UNCHANGED script

(* A task of that name exists. *)
BuildAgain(b) ==
  /\ phase = "script"
  /\ b \in build
  /\ Exit
  /\ UNCHANGED <<ver, out, task, taskState, testing>>

BuildCall(b) ==
  /\ phase = "script"
  /\ b \notin build
  /\ build' = build \cup {b}
  /\ UNCHANGED <<ver, out, edges, tests, phase, task, taskState, testing>>

DepRefused(t, d) ==
  /\ phase = "script"
  /\ {t, d} \subseteq build => Duplicate(t, d) \/ Cyclic(t, d)
  /\ Exit
  /\ UNCHANGED <<ver, out, task, taskState, testing>>

DepEndless(t, d) ==
  /\ phase = "script"
  /\ {t, d} \subseteq build /\ ~Duplicate(t, d) /\ ~Cyclic(t, d)
  /\ SearchEndless(t)
  /\ phase' = "endless"
  /\ UNCHANGED <<ver, out, script, task, taskState, testing>>

(* Without asking whether both are registered. *)
DepAddedUnregistered(t, d) ==
  /\ phase = "script"
  /\ ~Duplicate(t, d) /\ ~Cyclic(t, d)
  /\ ~SearchEndless(t)
  /\ edges' = edges \cup {<<d, t>>}
  /\ UNCHANGED <<ver, out, build, tests, phase, task, taskState, testing>>

DepAdded(t, d) ==
  /\ phase = "script"
  /\ {t, d} \subseteq build /\ ~Duplicate(t, d) /\ ~Cyclic(t, d)
  /\ ~SearchEndless(t)
  /\ edges' = edges \cup {<<d, t>>}
  /\ UNCHANGED <<ver, out, build, tests, phase, task, taskState, testing>>

TestRefused(t) ==
  /\ phase = "script"
  /\ t \notin build \/ t \in tests
  /\ Exit
  /\ UNCHANGED <<ver, out, task, taskState, testing>>

TestAdded(t) ==
  /\ phase = "script"
  /\ t \in build \ tests
  /\ tests' = tests \cup {t}
  /\ UNCHANGED <<ver, out, build, edges, phase, task, taskState, testing>>

(* Reg::Run begins with RunBuild, which hands the graph to the executor. *)
RunBuild ==
  /\ phase = "script"
  /\ phase' = "build"
  /\ task' = [b \in Builders |-> IF b \in build THEN "waiting" ELSE "none"]
  /\ UNCHANGED <<ver, out, script, taskState, testing>>

Script ==
  \/ \E b \in Builders : BuildAgain(b) \/ BuildCall(b)
  \/ \E c \in DepCalls :
       \/ DepRefused(c[1], c[2])
       \/ DepEndless(c[1], c[2])
       \/ DepAdded(c[1], c[2])
  \/ \E t \in TestCalls : TestRefused(t) \/ TestAdded(t)
  \/ RunBuild

-----------------------------------------------------------------------------
(* The executor *)

CanStart(b) ==
  /\ task[b] = "waiting"
  /\ \A e \in edges : e[2] = b => task[e[1]] = "done"

Start(b) ==
  /\ CanStart(b)
  /\ task' = [task EXCEPT ![b] = "running"]
  /\ UNCHANGED <<ver, out, script, phase, taskState, testing>>

(* The builder succeeds whatever the task state is. *)
FinishAnyway(b) ==
  /\ task[b] = "running"
  /\ out' = [out EXCEPT ![b] = MadeNow(b)]
  /\ task' = [task EXCEPT ![b] = "done"]
  /\ UNCHANGED <<ver, script, phase, taskState, testing>>

(* Its tasks found the state SUCCESS, worked, or had nothing to do. One      *)
(* whose last task was under way when another builder failed is one that     *)
(* finished just before.                                                     *)
Finish(b) ==
  /\ task[b] = "running"
  /\ taskState = "SUCCESS"
  /\ out' = [out EXCEPT ![b] = MadeNow(b)]
  /\ task' = [task EXCEPT ![b] = "done"]
  /\ UNCHANGED <<ver, script, phase, taskState, testing>>

FinishFails(b) ==
  /\ task[b] = "running"
  /\ \E left \in {out[b], {}} : out' = [out EXCEPT ![b] = left]
  /\ task' = [task EXCEPT ![b] = "done"]
  /\ taskState' = "FAILURE"
  /\ UNCHANGED <<ver, script, phase, testing>>

(* One of its tasks found the state FAILURE and returned. *)
FinishSkipped(b) ==
  /\ task[b] = "running"
  /\ taskState = "FAILURE"
  /\ task' = [task EXCEPT ![b] = "done"]
  /\ UNCHANGED <<ver, out, script, phase, taskState, testing>>

(* The executor starts a graph with the builders that wait for none. *)
Sources == {b \in build : \A e \in edges : e[2] # b}

(* wait_for_all returns: nothing runs and nothing can. It returns at once    *)
(* from an empty graph, and never from one that has no builder to start with: *)
(* none comes to an end that could end the run.                              *)
AllDone ==
  /\ build # {} => Sources # {}
  /\ \A b \in build : task[b] # "running" /\ ~CanStart(b)

(* The verdict without the assertion on the task state. *)
RunBuildUnchecked ==
  /\ phase = "build"
  /\ AllDone
  /\ phase' = "post"
  /\ UNCHANGED <<ver, out, script, task, taskState, testing>>

RunBuildSucceeds ==
  /\ phase = "build"
  /\ AllDone
  /\ taskState = "SUCCESS"
  /\ phase' = "post"
  /\ UNCHANGED <<ver, out, script, task, taskState, testing>>

RunBuildFails ==
  /\ phase = "build"
  /\ AllDone
  /\ taskState = "FAILURE"
  /\ phase' = "failed"
  /\ UNCHANGED <<ver, out, script, task, taskState, testing>>

(* The post-build callback, then RunTest. *)
PostBuild ==
  /\ phase = "post"
  /\ phase' = "test"
  /\ testing' = tests
  /\ UNCHANGED <<ver, out, script, task, taskState>>

TestRunner(t) ==
  /\ phase = "test"
  /\ t \in testing
  /\ testing' = testing \ {t}
  /\ UNCHANGED <<ver, out, script, phase, task, taskState>>

(* assert_fatal on a worker: nothing catches it. *)
TestRunnerFails(t) ==
  /\ phase = "test"
  /\ t \in testing
  /\ testing' = {}
  /\ phase' = "failed"
  /\ UNCHANGED <<ver, out, script, task, taskState>>

RunTestEnds ==
  /\ phase = "test"
  /\ testing = {}
  /\ phase' = "ok"
  /\ UNCHANGED <<ver, out, script, task, taskState, testing>>

Run ==
  \/ \E b \in Builders :
       Start(b) \/ Finish(b) \/ FinishFails(b) \/ FinishSkipped(b)
  \/ RunBuildSucceeds \/ RunBuildFails \/ PostBuild \/ RunTestEnds
  \/ \E t \in tests : TestRunner(t) \/ TestRunnerFails(t)

(* The next run of the script, perhaps edited, after an edit of the inputs. *)
NextProcess ==
  /\ phase \in {"ok", "failed"}
  /\ \E b \in Edited : ver[b] < MaxSaved /\ ver' = [ver EXCEPT ![b] = @ + 1]
  /\ build' = {} /\ edges' = {} /\ tests' = {}
  /\ phase' = "script"
  /\ task' = [b \in Builders |-> "none"]
  /\ taskState' = "SUCCESS"
  /\ testing' = {}
  /\ UNCHANGED out

Next == Script \/ Run \/ NextProcess

Spec == Init /\ [][Next]_vars

(* The executor runs what can run, builders and tests come to an end, and    *)
(* the script reaches Reg::Run if it is not stopped.                         *)
FairSpec == Spec /\ WF_vars(Run)

-----------------------------------------------------------------------------
(* Properties *)

TypeOK ==
  /\ ver \in [Builders -> 0..MaxSaved]
  /\ DOMAIN out = Builders
  /\ build \subseteq Builders
  /\ edges \subseteq build \X build
  /\ tests \subseteq build
  /\ phase \in Phases
  /\ task \in [Builders -> Steps]
  /\ \A b \in Builders : task[b] # "none" => b \in build
  /\ taskState \in {"SUCCESS", "FAILURE"}
  /\ testing \subseteq tests

(* No builder waits for itself: "Cyclic dependency detected when adding" is *)
(* what Reg::Dep says before a graph could become cyclic (register.cpp:60). *)
Acyclic == \A b \in Builders : ~OnCycle(b, edges)

(* There is no cycle of two builders or more, whatever calls of Reg::Dep the *)
(* script made and in whatever order (DepDetectCyclicDependency).            *)
NoLongerCycle == \A b \in Builders : ~OnCycle(b, edges \ Loops(edges))

(* A call of Reg::Dep that never returns has met a builder that was made to *)
(* depend on itself: the search of DepDetectCyclicDependency, which         *)
(* remembers no task it has visited, ends on every other graph.             *)
SearchEnds == phase = "endless" => Loops(edges) # {}

(* When the build succeeded, and while its tests run, every registered       *)
(* builder's output is the one its inputs make now, those that other         *)
(* builders wrote in the same run included: nothing was built before what it *)
(* reads, and no failure was passed over.                                    *)
TestsRunFresh ==
  phase \in {"post", "test", "ok"} /\ Registered => \A b \in build : Fresh(b)

(* A builder is only made from outputs that are themselves fresh: a failed   *)
(* dependency leaves its dependents as they were, to be rebuilt later.       *)
BuiltFromFresh ==
  [][Registered => \A b \in Builders :
       out'[b] # out[b] /\ out'[b] # {} => \A d \in Used(b) : Fresh(d)]_vars

(* A build that starts ends with a verdict when no builder was made to depend *)
(* on itself: no calls of Reg::Dep between different builders, however many   *)
(* and in whatever order, leave the executor without a builder to start with  *)
(* (Reg::Instance::RunBuild).                                                 *)
RunEnds ==
  phase = "build" /\ Loops(edges) = {} ~> phase \in {"ok", "failed"}
=============================================================================
