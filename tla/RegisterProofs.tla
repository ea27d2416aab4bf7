--------------------------- MODULE RegisterProofs ----------------------------
(***************************************************************************)
(* The dependency graph a script can register has no cycle of two builders *)
(* or more, the search for one ends unless a builder was made to depend on *)
(* itself, and what a build that succeeded has built is fresh: for any     *)
(* builders, any calls of Reg::Dep, any order of the executor and any      *)
(* failures.                                                               *)
(***************************************************************************)
EXTENDS Register, TLAPS

(* What the search meets is the least set it cannot leave. *)
LEMMA ReachedClosed ==
  ASSUME NEW E \in SUBSET (Builders \X Builders), NEW b \in Builders
  PROVE  /\ Reached(b, E) \in SUBSET Builders
         /\ Closed(Reached(b, E), E)
         /\ \A e \in E : e[1] = b => e[2] \in Reached(b, E)
BY DEF Reached, Closed

LEMMA ReachedLeast ==
  ASSUME NEW E, NEW b, NEW S \in SUBSET Builders,
         Closed(S, E), \A e \in E : e[1] = b => e[2] \in S
  PROVE  Reached(b, E) \subseteq S
BY DEF Reached

(* An edge from d to t, when no walk from t meets d, closes no cycle. *)
LEMMA EdgeClosesNoCycle ==
  ASSUME NEW E \in SUBSET (Builders \X Builders),
         NEW F \in SUBSET E,
         NEW t \in Builders, NEW d \in Builders, d # t,
         d \notin Reached(t, E),
         \A b \in Builders : ~OnCycle(b, F)
  PROVE  \A b \in Builders : ~OnCycle(b, F \cup {<<d, t>>})
<1>1. SUFFICES ASSUME NEW v \in Builders
               PROVE  ~OnCycle(v, F \cup {<<d, t>>})
  OBVIOUS
<1> DEFINE G == F \cup {<<d, t>>}
           R == Reached(t, E) \cup {t}
           S == Reached(v, F)
<1>2. R \in SUBSET Builders /\ Closed(R, F) /\ d \notin R /\ t \in R
  BY ReachedClosed DEF Closed
<1>3. S \in SUBSET Builders /\ Closed(S, F)
      /\ \A e \in F : e[1] = v => e[2] \in S
  <2>1. F \in SUBSET (Builders \X Builders)
    OBVIOUS
  <2> QED
    BY <2>1, ReachedClosed
<1>4. v \notin S
  BY DEF OnCycle
<1>5. SUFFICES \E U \in SUBSET Builders :
                 /\ Closed(U, G)
                 /\ \A e \in G : e[1] = v => e[2] \in U
                 /\ v \notin U
  BY DEF OnCycle, Reached
<1> HIDE DEF R, S
<1>6. CASE d \in S \cup {v}
  <2>1. Closed(S \cup R, G)
    BY <1>2, <1>3 DEF Closed
  <2>2. \A e \in G : e[1] = v => e[2] \in S \cup R
    BY <1>2, <1>3
  <2>3. v \notin R
    <3>1. SUFFICES ASSUME v \in R PROVE FALSE
      OBVIOUS
    <3>2. d \in S
      BY <1>2, <1>6, <3>1
    <3>3. \A e \in F : e[1] = v => e[2] \in R
      BY <1>2, <3>1 DEF Closed
    <3>4. S \subseteq R
      BY <1>2, <3>3, ReachedLeast DEF S
    <3> QED
      BY <1>2, <3>2, <3>4
  <2> QED
    BY <1>2, <1>3, <1>4, <2>1, <2>2, <2>3
<1>7. CASE d \notin S \cup {v}
  BY <1>3, <1>4, <1>7 DEF Closed
<1> QED
  BY <1>6, <1>7

(* Where there is no longer cycle, a builder on a cycle depends on itself. *)
LEMMA OnCycleIsLoop ==
  ASSUME edges \in SUBSET (Builders \X Builders), NoLongerCycle,
         NEW v \in Builders, OnCycle(v, edges)
  PROVE  <<v, v>> \in edges
<1>1. SUFFICES ASSUME <<v, v>> \notin edges PROVE FALSE
  OBVIOUS
<1> DEFINE F == edges \ Loops(edges)
           S == Reached(v, F)
<1>2. S \in SUBSET Builders /\ Closed(S, F)
      /\ \A e \in F : e[1] = v => e[2] \in S
  <2>1. F \in SUBSET (Builders \X Builders)
    OBVIOUS
  <2> QED
    BY <2>1, ReachedClosed
<1>3. v \notin S
  BY DEF NoLongerCycle, OnCycle
<1> HIDE DEF S
<1>4. \A e \in edges : e = <<e[1], e[2]>>
  OBVIOUS
<1>5. Closed(S, edges)
  BY <1>2 DEF Closed, Loops
<1>6. \A e \in edges : e[1] = v => e[2] \in S
  BY <1>1, <1>2, <1>4 DEF Loops
<1>7. Reached(v, edges) \subseteq S
  BY <1>2, <1>5, <1>6, ReachedLeast
<1> QED
  BY <1>3, <1>7 DEF OnCycle

-----------------------------------------------------------------------------
GraphInv ==
  /\ edges \in SUBSET (Builders \X Builders)
  /\ NoLongerCycle
  /\ SearchEnds

LEMMA DepAddedKeeps ==
  ASSUME GraphInv, NEW c \in DepCalls, DepAdded(c[1], c[2])
  PROVE  GraphInv'
<1> DEFINE t == c[1]
           d == c[2]
<1>1. t \in Builders /\ d \in Builders
  BY DepCallsAssumption
<1>2. edges' = edges \cup {<<d, t>>}
  BY DEF DepAdded
<1>3. edges' \in SUBSET (Builders \X Builders)
  BY <1>1, <1>2 DEF GraphInv
<1>4. SearchEnds'
  BY DEF DepAdded, SearchEnds
<1>5. NoLongerCycle'
  <2> DEFINE F == edges \ Loops(edges)
  <2>1. CASE d = t
    <3>1. edges' \ Loops(edges') = F
      BY <1>2, <2>1 DEF Loops
    <3> QED
      BY <3>1 DEF NoLongerCycle, GraphInv
  <2>2. CASE d # t
    <3>1. edges' \ Loops(edges') = F \cup {<<d, t>>}
      BY <1>2, <2>2 DEF Loops
    <3>2. d \notin Reached(t, edges)
      BY DEF DepAdded, Cyclic
    <3>3. \A b \in Builders : ~OnCycle(b, F)
      BY DEF GraphInv, NoLongerCycle
    <3>4. F \in SUBSET edges /\ edges \in SUBSET (Builders \X Builders)
      BY DEF GraphInv
    <3>5. \A b \in Builders : ~OnCycle(b, F \cup {<<d, t>>})
      BY <1>1, <2>2, <3>2, <3>3, <3>4, EdgeClosesNoCycle
    <3> QED
      BY <3>1, <3>5 DEF NoLongerCycle
  <2> QED
    BY <2>1, <2>2
<1> QED
  BY <1>3, <1>4, <1>5 DEF GraphInv

LEMMA DepEndlessKeeps ==
  ASSUME GraphInv, NEW c \in DepCalls, DepEndless(c[1], c[2])
  PROVE  GraphInv'
<1>1. edges' = edges
  BY DEF DepEndless, script
<1>2. PICK v \in Reached(c[1], edges) : OnCycle(v, edges)
  BY DEF DepEndless, SearchEndless
<1>3. v \in Builders
  BY <1>2 DEF Reached
<1>4. <<v, v>> \in edges
  BY <1>2, <1>3, OnCycleIsLoop DEF GraphInv
<1>5. Loops(edges) # {}
  BY <1>4 DEF Loops
<1> QED
  BY <1>1, <1>5 DEF GraphInv, NoLongerCycle, SearchEnds

LEMMA InitGraph == Init => GraphInv
<1>1. SUFFICES ASSUME Init PROVE GraphInv
  OBVIOUS
<1>2. edges = {} /\ phase = "script"
  BY <1>1 DEF Init
<1>3. \A b \in Builders : ~OnCycle(b, {})
  <2>1. Closed({}, {}) /\ {} \in SUBSET Builders
    BY DEF Closed
  <2> QED
    BY <2>1 DEF OnCycle, Reached
<1>4. edges \ Loops(edges) = {}
  BY <1>2
<1> QED
  BY <1>2, <1>3, <1>4 DEF GraphInv, NoLongerCycle, SearchEnds

(* Every other step leaves the graph alone, or throws it away. *)
LEMMA NextGraph == GraphInv /\ [Next]_vars => GraphInv'
<1>1. SUFFICES ASSUME GraphInv, [Next]_vars PROVE GraphInv'
  OBVIOUS
<1>2. ASSUME edges' = edges, phase' # "endless" \/ phase' = phase
      PROVE  GraphInv'
  BY <1>1, <1>2 DEF GraphInv, NoLongerCycle, SearchEnds
<1>3. CASE Script
  <2>1. ASSUME NEW b \in Builders, BuildAgain(b) \/ BuildCall(b)
        PROVE  GraphInv'
    BY <1>2, <2>1 DEF BuildAgain, BuildCall, Exit, script
  <2>2. ASSUME NEW c \in DepCalls, DepRefused(c[1], c[2])
        PROVE  GraphInv'
    BY <1>2, <2>2 DEF DepRefused, Exit, script
  <2>3. ASSUME NEW c \in DepCalls, DepEndless(c[1], c[2])
        PROVE  GraphInv'
    BY <1>1, <2>3, DepEndlessKeeps
  <2>4. ASSUME NEW c \in DepCalls, DepAdded(c[1], c[2])
        PROVE  GraphInv'
    BY <1>1, <2>4, DepAddedKeeps
  <2>5. ASSUME NEW t \in TestCalls, TestRefused(t) \/ TestAdded(t)
        PROVE  GraphInv'
    BY <1>2, <2>5 DEF TestRefused, TestAdded, Exit, script
  <2>6. ASSUME RunBuild PROVE GraphInv'
    BY <1>2, <2>6 DEF RunBuild, script
  <2> QED
    BY <1>3, <2>1, <2>2, <2>3, <2>4, <2>5, <2>6 DEF Script
<1>4. CASE Run
  BY <1>2, <1>4 DEF Run, Start, Finish, FinishFails, FinishSkipped,
     RunBuildSucceeds, RunBuildFails, PostBuild, RunTestEnds, TestRunner,
     TestRunnerFails, script
<1>5. CASE NextProcess
  <2>1. edges' = {} /\ phase' = "script"
    BY <1>5 DEF NextProcess
  <2>2. \A b \in Builders : ~OnCycle(b, {})
    <3>1. Closed({}, {}) /\ {} \in SUBSET Builders
      BY DEF Closed
    <3> QED
      BY <3>1 DEF OnCycle, Reached
  <2>3. edges' \ Loops(edges') = {}
    BY <2>1
  <2> QED
    BY <2>1, <2>2, <2>3 DEF GraphInv, NoLongerCycle, SearchEnds
<1>6. CASE UNCHANGED vars
  BY <1>2, <1>6 DEF vars, script
<1> QED
  BY <1>1, <1>3, <1>4, <1>5, <1>6 DEF Next

(* Whatever calls of Reg::Dep a script makes, no two builders wait for each *)
(* other, directly or not: DepDetectCyclicDependency refuses the call.      *)
THEOREM NoTwoWait == Spec => []NoLongerCycle
<1>1. GraphInv => NoLongerCycle
  BY DEF GraphInv
<1> QED
  BY <1>1, InitGraph, NextGraph, PTL DEF Spec

(* A call of Reg::Dep returns, or exits, unless a builder was made to depend *)
(* on itself before.                                                         *)
THEOREM SearchesEnd == Spec => []SearchEnds
<1>1. GraphInv => SearchEnds
  BY DEF GraphInv
<1> QED
  BY <1>1, InitGraph, NextGraph, PTL DEF Spec

-----------------------------------------------------------------------------
(* Types *)

LEMMA TypeInit == Init => TypeOK
BY BoundAssumption DEF Init, TypeOK, Phases, Steps

LEMMA TypeNext == TypeOK /\ [Next]_vars => TypeOK'
<1> SUFFICES ASSUME TypeOK, [Next]_vars PROVE TypeOK'
  OBVIOUS
<1> USE DEF TypeOK, Phases, Steps
<1>1. ASSUME NEW b \in Builders, BuildAgain(b) \/ BuildCall(b) PROVE TypeOK'
  BY <1>1 DEF BuildAgain, BuildCall, Exit, script
<1>2. ASSUME NEW c \in DepCalls, DepRefused(c[1], c[2]) \/ DepEndless(c[1], c[2])
      PROVE  TypeOK'
  BY <1>2 DEF DepRefused, DepEndless, Exit, script
<1>3. ASSUME NEW c \in DepCalls, DepAdded(c[1], c[2]) PROVE TypeOK'
  BY <1>3 DEF DepAdded
<1>4. ASSUME NEW t \in TestCalls, TestRefused(t) \/ TestAdded(t) PROVE TypeOK'
  BY <1>4 DEF TestRefused, TestAdded, Exit, script
<1>5. CASE RunBuild
  BY <1>5 DEF RunBuild, script
<1>6. ASSUME NEW b \in Builders, Start(b) PROVE TypeOK'
  BY <1>6 DEF Start, CanStart, script
<1>7. ASSUME NEW b \in Builders, Finish(b) PROVE TypeOK'
  BY <1>7 DEF Finish, script
<1>8. ASSUME NEW b \in Builders, FinishFails(b) PROVE TypeOK'
  BY <1>8 DEF FinishFails, script
<1>9. ASSUME NEW b \in Builders, FinishSkipped(b) PROVE TypeOK'
  BY <1>9 DEF FinishSkipped, script
<1>10. CASE RunBuildSucceeds \/ RunBuildFails \/ PostBuild \/ RunTestEnds
  BY <1>10 DEF RunBuildSucceeds, RunBuildFails, PostBuild, RunTestEnds, script
<1>11. ASSUME NEW t \in tests, TestRunner(t) \/ TestRunnerFails(t) PROVE TypeOK'
  BY <1>11 DEF TestRunner, TestRunnerFails, script
<1>12. CASE NextProcess
  <2>1. PICK b \in Edited : ver[b] < MaxSaved /\ ver' = [ver EXCEPT ![b] = @ + 1]
    BY <1>12 DEF NextProcess
  <2>2. b \in Builders /\ ver[b] + 1 \in 0..MaxSaved
    BY <2>1, SubsetsAssumption, BoundAssumption
  <2>3. ver' \in [Builders -> 0..MaxSaved]
    BY <2>1, <2>2
  <2> QED BY <1>12, <2>3 DEF NextProcess
<1>13. CASE UNCHANGED vars
  BY <1>13 DEF vars, script
<1> QED BY <1>1, <1>2, <1>3, <1>4, <1>5, <1>6, <1>7, <1>8, <1>9, <1>10, <1>11,
           <1>12, <1>13 DEF Next, Script, Run

(* Every variable of the register keeps its type: only registered builders    *)
(* have tasks, dependencies and tests.                                        *)
THEOREM RegisterTypeCorrect == Spec => []TypeOK
BY TypeInit, TypeNext, PTL DEF Spec

-----------------------------------------------------------------------------
(* The graph has no endless descent: some member of every set of builders   *)
(* waits for no other member.  It is what "acyclic" means for a set of      *)
(* builders of any size, and is kept by one call of Reg::Dep at a time.     *)

First(v, W, E) == \A e \in E : e[2] = v => e[1] \notin W

Grounded(E) == \A W \in SUBSET Builders : W # {} => \E v \in W : First(v, W, E)

Proper == edges \ Loops(edges)

GroundInv ==
  /\ edges \in SUBSET (Builders \X Builders)
  /\ Grounded(Proper)

LEMMA EdgeKeepsGround ==
  ASSUME NEW E \in SUBSET (Builders \X Builders), NEW F \in SUBSET E,
         NEW t \in Builders, NEW d \in Builders, d # t,
         d \notin Reached(t, E), Grounded(F)
  PROVE  Grounded(F \cup {<<d, t>>})
<1> DEFINE R == Reached(t, E) \cup {t}
<1>1. R \in SUBSET Builders /\ Closed(R, F) /\ d \notin R /\ t \in R
  BY ReachedClosed DEF Closed
<1> HIDE DEF R
<1>2. SUFFICES ASSUME NEW W \in SUBSET Builders, W # {}
               PROVE  \E v \in W : First(v, W, F \cup {<<d, t>>})
  BY DEF Grounded
<1>3. CASE W \ R = {}
  <2>1. PICK v \in W : First(v, W, F)
    BY <1>2 DEF Grounded
  <2> QED BY <1>1, <1>3, <2>1 DEF First
<1>4. CASE W \ R # {}
  <2>1. W \ R \in SUBSET Builders
    OBVIOUS
  <2>2. PICK v \in W \ R : First(v, W \ R, F)
    BY <1>4, <2>1 DEF Grounded
  <2> QED BY <1>1, <2>2 DEF First, Closed
<1> QED BY <1>3, <1>4

LEMMA GroundInit == Init => GroundInv
BY DEF Init, GroundInv, Proper, Grounded, First

LEMMA GroundNext == GroundInv /\ [Next]_vars => GroundInv'
<1> SUFFICES ASSUME GroundInv, [Next]_vars PROVE GroundInv'
  OBVIOUS
<1>1. ASSUME edges' = edges PROVE GroundInv'
  BY <1>1 DEF GroundInv, Proper, Grounded, First, Loops
<1>2. ASSUME edges' = {} PROVE GroundInv'
  BY <1>2 DEF GroundInv, Proper, Grounded, First, Loops
<1>3. ASSUME NEW c \in DepCalls, DepAdded(c[1], c[2]) PROVE GroundInv'
  <2> DEFINE t == c[1]
             d == c[2]
  <2>1. t \in Builders /\ d \in Builders
    BY DepCallsAssumption
  <2>2. edges' = edges \cup {<<d, t>>} /\ d \notin Reached(t, edges)
    BY <1>3 DEF DepAdded, Cyclic
  <2>3. edges' \in SUBSET (Builders \X Builders)
    BY <2>1, <2>2 DEF GroundInv
  <2>4. CASE d = t
    <3>1. Proper' = Proper
      BY <2>2, <2>4 DEF Proper, Loops
    <3> QED BY <2>3, <3>1 DEF GroundInv, Grounded
  <2>5. CASE d # t
    <3>1. Proper' = Proper \cup {<<d, t>>}
      BY <2>2, <2>5 DEF Proper, Loops
    <3>2. Proper \in SUBSET edges /\ Grounded(Proper)
          /\ edges \in SUBSET (Builders \X Builders)
      BY DEF Proper, GroundInv
    <3>3. Grounded(Proper \cup {<<d, t>>})
      BY <2>1, <2>2, <2>5, <3>2, EdgeKeepsGround
    <3> QED BY <2>3, <3>1, <3>3 DEF GroundInv, Grounded
  <2> QED BY <2>4, <2>5
<1>4. CASE Script
  BY <1>1, <1>3, <1>4 DEF Script, BuildAgain, BuildCall, DepRefused, DepEndless,
     TestRefused, TestAdded, RunBuild, Exit, script
<1>5. CASE Run
  BY <1>1, <1>5 DEF Run, Start, Finish, FinishFails, FinishSkipped,
     RunBuildSucceeds, RunBuildFails, PostBuild, RunTestEnds, TestRunner,
     TestRunnerFails, script
<1>6. CASE NextProcess
  BY <1>2, <1>6 DEF NextProcess
<1>7. CASE UNCHANGED vars
  BY <1>1, <1>7 DEF vars, script
<1> QED BY <1>4, <1>5, <1>6, <1>7 DEF Next

-----------------------------------------------------------------------------
(* The executor *)

Over == {"post", "test", "ok"}

(* A builder that has started has all it waits for done. *)
StartedInOrder ==
  \A b \in Builders : task[b] \in {"running", "done"} =>
    \A e \in edges : e[2] = b => task[e[1]] = "done"

DoneIsFresh ==
  taskState = "SUCCESS" /\ Registered =>
    \A b \in Builders : task[b] = "done" => Fresh(b)

ScriptIsFirst ==
  phase \in {"script", "endless"} => \A b \in Builders : task[b] = "none"

BuildHasTasks ==
  phase = "build" => \A b \in build : task[b] # "none"

(* Once the executor has returned nothing is under way nor starts. *)
NothingLeft ==
  phase # "build" => \A b \in Builders : task[b] # "running" /\ ~CanStart(b)

SucceededIsDone ==
  phase \in Over =>
    taskState = "SUCCESS" /\ (Registered => \A b \in build : task[b] = "done")

ExecInv ==
  /\ TypeOK /\ GroundInv
  /\ StartedInOrder /\ DoneIsFresh /\ ScriptIsFirst /\ BuildHasTasks
  /\ NothingLeft /\ SucceededIsDone

LEMMA ExecInit == Init => ExecInv
BY TypeInit, GroundInit
   DEF ExecInv, Init, StartedInOrder, DoneIsFresh, ScriptIsFirst, BuildHasTasks,
       NothingLeft, SucceededIsDone, CanStart, Over

(* What a registered builder reads was built before it started. *)
LEMMA UsedAreDone ==
  ASSUME ExecInv, Registered, NEW b \in Builders, task[b] \in {"running", "done"},
         NEW d \in Used(b)
  PROVE  d # b /\ d \in build /\ task[d] = "done"
<1>1. b \in build /\ d \in Builders /\ <<b, d>> \in Uses
  BY DEF ExecInv, TypeOK, Used
<1>2. <<d, b>> \in edges /\ d \in build
  BY <1>1 DEF Registered
<1>3. task[d] = "done"
  BY <1>2 DEF ExecInv, StartedInOrder
<1>4. d # b
  BY <1>2 DEF Registered, Loops
<1> QED BY <1>2, <1>3, <1>4

(* A builder that finishes is fresh, and none that was done before is not. *)
LEMMA FinishKeepsFresh ==
  ASSUME ExecInv, NEW b \in Builders, Finish(b)
  PROVE  DoneIsFresh'
<1> SUFFICES ASSUME Registered, NEW c \in Builders, task'[c] = "done"
             PROVE  Fresh(c)'
  BY DEF DoneIsFresh, Finish, Registered, script
<1>1. /\ task[b] = "running" /\ taskState = "SUCCESS"
      /\ task' = [task EXCEPT ![b] = "done"]
      /\ out' = [out EXCEPT ![b] = MadeNow(b)] /\ ver' = ver
  BY DEF Finish
<1>2. DOMAIN out = Builders /\ task \in [Builders -> Steps]
  BY DEF ExecInv, TypeOK
<1>3. task[c] = "done" \/ c = b
  BY <1>1, <1>2
<1>4. b \notin Used(c)
  BY <1>1, <1>3, UsedAreDone
<1>5. MadeNow(c)' = MadeNow(c)
  BY <1>1, <1>2, <1>4 DEF MadeNow, Used
<1>6. CASE c = b
  BY <1>1, <1>2, <1>5, <1>6 DEF Fresh
<1>7. CASE c # b
  <2>1. Fresh(c)
    BY <1>1, <1>3, <1>7 DEF ExecInv, DoneIsFresh
  <2> QED BY <1>1, <1>2, <1>5, <1>7, <2>1 DEF Fresh
<1> QED BY <1>6, <1>7

(* An executor that has nothing left has built all it was given. *)
LEMMA AllAreDone ==
  ASSUME ExecInv, phase = "build", AllDone, Registered
  PROVE  \A b \in build : task[b] = "done"
<1> DEFINE W == {b \in build : task[b] = "waiting"}
<1> SUFFICES ASSUME W # {} PROVE FALSE
  BY DEF AllDone, ExecInv, BuildHasTasks, TypeOK, Steps
<1>1. W \in SUBSET Builders /\ Proper = edges
  BY DEF ExecInv, TypeOK, Proper, Registered
<1>2. PICK v \in W : First(v, W, edges)
  BY <1>1 DEF ExecInv, GroundInv, Grounded
<1>3. PICK e \in edges : e[2] = v /\ task[e[1]] # "done"
  BY <1>2 DEF AllDone, CanStart
<1>4. e[1] \in build
  BY DEF ExecInv, TypeOK
<1>5. task[e[1]] = "waiting"
  BY <1>3, <1>4 DEF AllDone, ExecInv, BuildHasTasks, TypeOK, Steps
<1> QED BY <1>2, <1>3, <1>4, <1>5 DEF First

(* Without a builder that depends on itself, some builder waits for none. *)
LEMMA SomeSource ==
  ASSUME TypeOK, GroundInv, Loops(edges) = {}, build # {}
  PROVE  Sources # {}
<1>1. build \in SUBSET Builders /\ Proper = edges
  BY DEF TypeOK, Proper
<1>2. PICK v \in build : First(v, build, edges)
  BY <1>1 DEF GroundInv, Grounded
<1>3. \A e \in edges : e[1] \in build
  BY DEF TypeOK
<1>4. \A e \in edges : e[2] # v
  BY <1>2, <1>3 DEF First
<1> QED BY <1>2, <1>4 DEF Sources

(* A call of the script, before anything runs. *)
LEMMA ScriptKeeps ==
  ASSUME ExecInv, TypeOK', GroundInv', phase = "script",
         phase' \in {"script", "endless", "failed"},
         UNCHANGED <<task, taskState>>
  PROVE  ExecInv'
<1>1. \A b \in Builders : task'[b] = "none"
  BY DEF ExecInv, ScriptIsFirst
<1> QED BY <1>1 DEF ExecInv, StartedInOrder, DoneIsFresh, ScriptIsFirst,
           BuildHasTasks, NothingLeft, SucceededIsDone, CanStart, Over

LEMMA RunBuildKeeps ==
  ASSUME ExecInv, TypeOK', GroundInv', RunBuild PROVE ExecInv'
<1>1. \A b \in Builders : task'[b] = IF b \in build THEN "waiting" ELSE "none"
  BY DEF RunBuild
<1>2. build \subseteq Builders
  BY DEF ExecInv, TypeOK
<1> QED BY <1>1, <1>2 DEF RunBuild, script, ExecInv, StartedInOrder, DoneIsFresh,
           ScriptIsFirst, BuildHasTasks, NothingLeft, SucceededIsDone, Over

LEMMA StartKeeps ==
  ASSUME ExecInv, TypeOK', GroundInv', NEW b \in Builders, Start(b)
  PROVE  ExecInv'
<1>1. /\ task[b] = "waiting" /\ task' = [task EXCEPT ![b] = "running"]
      /\ \A e \in edges : e[2] = b => task[e[1]] = "done"
      /\ UNCHANGED <<ver, out, build, edges, tests, phase, taskState>>
      /\ task \in [Builders -> Steps] /\ edges \subseteq Builders \X Builders
  BY DEF Start, CanStart, script, ExecInv, TypeOK
<1>2. phase = "build"
  BY <1>1 DEF ExecInv, NothingLeft, Start
<1>3. StartedInOrder'
  BY <1>1 DEF ExecInv, StartedInOrder
<1>4. DoneIsFresh'
  BY <1>1 DEF ExecInv, DoneIsFresh, Registered, Fresh, MadeNow, Used
<1>5. BuildHasTasks'
  BY <1>1, <1>2 DEF ExecInv, BuildHasTasks, TypeOK
<1> QED BY <1>1, <1>2, <1>3, <1>4, <1>5
        DEF ExecInv, ScriptIsFirst, NothingLeft, SucceededIsDone, Over

(* A builder that ends, in whichever way. *)
LEMMA EndKeeps ==
  ASSUME ExecInv, TypeOK', GroundInv', DoneIsFresh', NEW b \in Builders,
         task[b] = "running", task' = [task EXCEPT ![b] = "done"],
         UNCHANGED <<build, edges, phase>>
  PROVE  ExecInv'
<1>1. phase = "build"
  BY DEF ExecInv, NothingLeft
<1>2. task \in [Builders -> Steps] /\ edges \subseteq Builders \X Builders
  BY DEF ExecInv, TypeOK
<1>3. StartedInOrder'
  BY <1>2 DEF ExecInv, StartedInOrder
<1>4. BuildHasTasks'
  BY <1>2 DEF ExecInv, BuildHasTasks, TypeOK
<1> QED BY <1>1, <1>3, <1>4
        DEF ExecInv, ScriptIsFirst, NothingLeft, SucceededIsDone, Over

LEMMA FinishKeeps ==
  ASSUME ExecInv, TypeOK', GroundInv', NEW b \in Builders,
         Finish(b) \/ FinishFails(b) \/ FinishSkipped(b)
  PROVE  ExecInv'
<1>1. DoneIsFresh'
  BY FinishKeepsFresh DEF FinishFails, FinishSkipped, DoneIsFresh
<1> QED BY <1>1, EndKeeps DEF Finish, FinishFails, FinishSkipped, script

LEMMA VerdictKeeps ==
  ASSUME ExecInv, TypeOK', GroundInv', RunBuildSucceeds \/ RunBuildFails
  PROVE  ExecInv'
<1>1. /\ phase = "build" /\ AllDone /\ phase' \in {"post", "failed"}
      /\ phase' = "post" => taskState = "SUCCESS"
      /\ UNCHANGED <<ver, out, build, edges, tests, task, taskState>>
  BY DEF RunBuildSucceeds, RunBuildFails, script
<1>2. \A b \in Builders : task[b] # "running" /\ ~CanStart(b)
  BY <1>1 DEF AllDone, ExecInv, TypeOK, CanStart
<1>3. NothingLeft'
  BY <1>1, <1>2 DEF NothingLeft, CanStart
<1>4. SucceededIsDone'
  BY <1>1, AllAreDone DEF SucceededIsDone, Registered, Over
<1>5. DoneIsFresh' /\ StartedInOrder'
  BY <1>1 DEF ExecInv, DoneIsFresh, StartedInOrder, Registered, Fresh, MadeNow, Used
<1> QED BY <1>1, <1>3, <1>4, <1>5 DEF ExecInv, ScriptIsFirst, BuildHasTasks

(* What follows the build leaves builders alone. *)
LEMMA AfterwardsKeeps ==
  ASSUME ExecInv, TypeOK', GroundInv', phase \in Over,
         phase' \in Over \cup {"failed"},
         UNCHANGED <<ver, out, build, edges, task, taskState>>
  PROVE  ExecInv'
<1>1. NothingLeft'
  BY DEF ExecInv, NothingLeft, CanStart, Over
<1>2. SucceededIsDone'
  BY DEF ExecInv, SucceededIsDone, Registered, Over
<1>3. DoneIsFresh' /\ StartedInOrder'
  BY DEF ExecInv, DoneIsFresh, StartedInOrder, Registered, Fresh, MadeNow, Used
<1> QED BY <1>1, <1>2, <1>3 DEF ExecInv, ScriptIsFirst, BuildHasTasks, Over

LEMMA ExecNext == ExecInv /\ [Next]_vars => ExecInv'
<1> SUFFICES ASSUME ExecInv, [Next]_vars PROVE ExecInv'
  OBVIOUS
<1>1. TypeOK' /\ GroundInv'
  BY TypeNext, GroundNext DEF ExecInv
<1>2. CASE Script /\ ~RunBuild
  BY <1>1, <1>2, ScriptKeeps DEF Script, BuildAgain, BuildCall, DepRefused,
     DepEndless, DepAdded, TestRefused, TestAdded, Exit, script
<1>3. CASE RunBuild
  BY <1>1, <1>3, RunBuildKeeps
<1>4. ASSUME NEW b \in Builders, Start(b) PROVE ExecInv'
  BY <1>1, <1>4, StartKeeps
<1>5. ASSUME NEW b \in Builders, Finish(b) \/ FinishFails(b) \/ FinishSkipped(b)
      PROVE  ExecInv'
  BY <1>1, <1>5, FinishKeeps
<1>6. CASE RunBuildSucceeds \/ RunBuildFails
  BY <1>1, <1>6, VerdictKeeps
<1>7. CASE PostBuild \/ RunTestEnds
  BY <1>1, <1>7, AfterwardsKeeps DEF PostBuild, RunTestEnds, Over, script
<1>8. ASSUME NEW t \in tests, TestRunner(t) \/ TestRunnerFails(t) PROVE ExecInv'
  BY <1>1, <1>8, AfterwardsKeeps DEF TestRunner, TestRunnerFails, Over, script
<1>9. CASE NextProcess
  <2>1. /\ \A b \in Builders : task'[b] = "none"
        /\ edges' = {} /\ phase' = "script"
    BY <1>9 DEF NextProcess
  <2> QED BY <1>1, <2>1 DEF ExecInv, StartedInOrder, DoneIsFresh, ScriptIsFirst,
             BuildHasTasks, NothingLeft, SucceededIsDone, CanStart, Over
<1>10. CASE UNCHANGED vars
  BY <1>1, <1>10 DEF vars, script, ExecInv, StartedInOrder, DoneIsFresh,
     ScriptIsFirst, BuildHasTasks, NothingLeft, SucceededIsDone, CanStart, Over,
     Registered, Fresh, MadeNow, Used
<1> QED BY <1>2, <1>3, <1>4, <1>5, <1>6, <1>7, <1>8, <1>9, <1>10
        DEF Next, Script, Run

(* After a build that succeeded, and while its tests run, every builder a    *)
(* script registered with what it uses has the output its inputs make now:   *)
(* the executor cannot return with a builder left, for the graph has no      *)
(* endless descent, and none that was done is overtaken (RunBuild).          *)
THEOREM TestsRunOnFresh == Spec => []TestsRunFresh
<1>1. ExecInv => TestsRunFresh
  BY DEF ExecInv, TestsRunFresh, SucceededIsDone, DoneIsFresh, Over, TypeOK
<1> QED BY <1>1, ExecInit, ExecNext, PTL DEF Spec

(* Whatever calls of Reg::Dep a script made, the executor is never given a    *)
(* graph it can neither start nor return from, unless a builder was made to   *)
(* depend on itself (Reg::Dep, RunBuild).                                     *)
THEOREM ExecutorHasASource ==
  Spec => [](Loops(edges) = {} /\ build # {} => Sources # {})
<1>1. ExecInv => (Loops(edges) = {} /\ build # {} => Sources # {})
  BY SomeSource DEF ExecInv
<1> QED BY <1>1, ExecInit, ExecNext, PTL DEF Spec

(* Nothing is made from an output that is not fresh, whichever builders fail *)
(* and in whatever order the executor goes (Reg::Dep).                       *)
THEOREM NothingFromStale == Spec => BuiltFromFresh
<1> DEFINE A == Registered => \A b \in Builders :
                  out'[b] # out[b] /\ out'[b] # {} => \A d \in Used(b) : Fresh(d)
<1>1. ExecInv /\ [Next]_vars => [A]_vars
  <2> SUFFICES ASSUME ExecInv, Next, Registered, NEW b \in Builders,
                      out'[b] # out[b], out'[b] # {}, NEW d \in Used(b)
               PROVE  Fresh(d)
    OBVIOUS
  <2>1. DOMAIN out = Builders
    BY DEF ExecInv, TypeOK
  <2>2. Finish(b)
    BY <2>1 DEF Next, Script, Run, NextProcess, BuildAgain, BuildCall, DepRefused,
       DepEndless, DepAdded, TestRefused, TestAdded, RunBuild, Start, Finish,
       FinishFails, FinishSkipped, RunBuildSucceeds, RunBuildFails, PostBuild,
       RunTestEnds, TestRunner, TestRunnerFails, Exit
  <2>3. d \in Builders /\ task[d] = "done" /\ taskState = "SUCCESS"
    BY <2>2, UsedAreDone DEF Finish, Used
  <2> QED BY <2>3 DEF ExecInv, DoneIsFresh
<1> QED BY <1>1, ExecInit, ExecNext, PTL DEF Spec, BuiltFromFresh
=============================================================================
