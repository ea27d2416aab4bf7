------------------------- MODULE TargetBuildContract -------------------------
(***************************************************************************)
(* A target keeps the contract of an incremental build: a run that         *)
(* succeeds leaves clean outputs, and a run after a success with no edit   *)
(* between touches nothing. And it compiles nothing twice, where values    *)
(* move forward.                                                           *)
(***************************************************************************)
EXTENDS TargetBuildSafety

(* NothingToDo(r), task by task. *)
HeldObjects(r) == Agree(r.cfg, cfg, ObjectCompared) /\ r.sources = Listed
HeldLink(r) == Agree(r.cfg, cfg, LinkCompared) /\ r.target_linked

(* The schema on disk is that of the world as it is. *)
Settled == \E r \in file : NothingToDo(r)

AfterObjects == {"link", "link_exec", "end", "exit"}

(* What a task has left behind that did not fail, when nothing is edited: it *)
(* has read the world as it is, and without dirty_ so did the loaded schema. *)
PchDone ==
  /\ phase = "pch_exec" => Agree(user, cfg, {"headers", "pchs"})
  /\ phase \in AfterObjects \cup {"objects", "compile"} =>
       HeldPch(UpdatedStore) /\ (~dirty => \A r \in load : HeldPch(r))

ObjectsDone ==
  phase \in AfterObjects \cup {"compile"} =>
    /\ Agree(user, cfg, ObjectCompared)
    /\ store.sources \cup todo = Listed
    /\ ~dirty => load # {} /\ \A r \in load : HeldObjects(r)

LinkDone ==
  /\ phase \in {"link_exec", "end", "exit"} => Agree(user, cfg, LinkCompared)
  /\ phase = "link_exec" => dirty
  /\ phase \in {"end", "exit"} =>
       /\ dirty => store.target_linked
       /\ ~dirty => \A r \in load : HeldLink(r)

DoneInv ==
  taskState = "SUCCESS" /\ calm > 0 => PchDone /\ ObjectsDone /\ LinkDone

(* When everything is settled, and what a run then does: nothing. *)
CalmInv ==
  /\ phase = "exit" /\ taskState = "SUCCESS" /\ calm > 0 => Settled
  /\ phase = "idle" /\ last = "ok" /\ calm > 0 => Settled
  /\ calm = 2 => Settled /\ (phase \in {"end", "exit"} => ~dirty)

(* A source is recorded once. *)
OneTime(S) == \A p, q \in S : p[1] = q[1] => p = q
OnceInv == OneTime(store.sources) /\ \A r \in file : OneTime(r.sources)

ContractInv == TypeOK /\ SkipInv /\ OnceInv /\ DoneInv /\ CalmInv

-----------------------------------------------------------------------------
(* What settled means, and what it excludes *)

LEMMA SameSettled ==
  ASSUME UNCHANGED <<world, file>>
  PROVE  Settled' = Settled
  BY SameWorld DEF Settled

LEMMA SameHeld ==
  ASSUME UNCHANGED world
  PROVE  \A r : /\ HeldPch(r)' = HeldPch(r)
                /\ HeldObjects(r)' = HeldObjects(r)
                /\ HeldLink(r)' = HeldLink(r)
  <1>1. cfg' = cfg
    BY DEF world
  <1>2. QED
    BY <1>1, SameWorld DEF HeldPch, HeldObjects, HeldLink

LEMMA HeldIsNothingToDo ==
  ASSUME NEW r, HeldPch(r), HeldObjects(r), HeldLink(r)
  PROVE  NothingToDo(r)
  BY DEF HeldPch, HeldObjects, HeldLink, NothingToDo, PchUpToDate

LEMMA SettledIsClean ==
  ASSUME SkipInv, Settled
  PROVE  Clean
  BY SkipInvIsEnough DEF Settled, NoMissedRebuild

(* While the schema on disk is that of the world, no tool is run. *)
LEMMA SettledIsQuiet ==
  ASSUME SkipInv, Settled
  PROVE  /\ phase \notin {"pch_exec", "link_exec"}
         /\ phase = "compile" => todo = {}
         /\ phase \in {"pch", "objects", "compile", "link"} => ~dirty
  <1>1. PICK r \in file : NothingToDo(r)
    BY DEF Settled
  <1>2. HasPch => PchUpToDate(r)
    BY <1>1 DEF NothingToDo, PchUpToDate
  <1>3. \A s \in srcs : ObjectUpToDate(r, s)
    BY <1>1, <1>2 DEF NothingToDo, ObjectUpToDate, Listed
  <1>4. phase # "pch_exec" /\ (phase = "objects" => ~dirty)
    BY <1>2 DEF SkipInv, WriteInv
  <1>5. phase = "compile" => todo = {}
    BY <1>3 DEF SkipInv, WriteInv, TodoInv
  <1>6. /\ phase # "link_exec"
        /\ phase \in {"compile", "link"} => ~dirty
        /\ phase = "pch" => ~dirty
    BY <1>1 DEF SkipInv, WriteInv
  <1>7. QED
    BY <1>4, <1>5, <1>6

-----------------------------------------------------------------------------
(* What the steps of the tasks disturb *)

LEMMA TaskFrame ==
  ASSUME Tasks
  PROVE  /\ UNCHANGED <<world, last, calm, load>>
         /\ phase \notin {"idle", "exit"} /\ phase' # "idle"
         /\ ~End => file' = file /\ phase' # "exit"
  BY DEF Tasks, Pch, PchSkip, PchCheck, PchHashFails, PchExecute,
     PchExecuteFails, Objects, ObjectsSkip, SelectSources, ObjectHashFails,
     CompileJoin, CompileSource, CompileSourceFails, Link, LinkSkip,
     LinkCheck, LinkHashFails, LinkExecute, LinkExecuteFails, End, EndClean,
     EndStore, EndStoreFails, process

LEMMA UserFrame ==
  ASSUME User
  PROVE  calm' = 0 /\ UNCHANGED <<phase, last, file, store>>
  BY DEF User, EditField, SaveListedFile, SaveSource, RemoveSource, ListSource,
     process

-----------------------------------------------------------------------------
(* A source is recorded once *)

LEMMA OnceStep ==
  ASSUME TypeOK, SkipInv, OnceInv, [Next]_vars
  PROVE  OnceInv'
  <1>1. OneTime({}) /\ OneTime(Listed)
    BY DEF OneTime, Listed
  <1>2. \/ store'.sources = store.sources
        \/ store'.sources = {}
        \/ store'.sources \subseteq Listed
        \/ \E p \in todo : store'.sources = store.sources \cup {p}
    <2> USE DEF TypeOK, ProcessType, Recorded
    <2>1. CASE User
      BY <2>1, UserFrame
    <2>2. CASE Build \/ RunBuild \/ OtherTaskFails \/ Interrupt \/ UNCHANGED vars
      BY <2>2 DEF Build, RunBuild, OtherTaskFails, Interrupt, ProcessGone,
         EmptyStore, vars, process
    <2>3. CASE Pch
      BY <2>3 DEF Pch, PchSkip, PchCheck, PchHashFails, PchExecute,
         PchExecuteFails, PchCompiled, process
    <2>4. CASE Objects
      <3>1. CASE SelectSources
        <4>1. PICK S : store' = [store EXCEPT !.sources = Listed \ S]
          BY <3>1 DEF SelectSources
        <4>2. QED
          BY <4>1
      <3>2. ASSUME NEW p \in todo, CompileSource(p)
            PROVE  store'.sources = store.sources \cup {p}
        BY <3>2 DEF CompileSource
      <3>3. QED
        BY <2>4, <3>1, <3>2 DEF Objects, ObjectsSkip, ObjectHashFails,
           CompileJoin, CompileSourceFails, process
    <2>5. CASE Link
      BY <2>5 DEF Link, LinkSkip, LinkCheck, LinkHashFails, LinkExecute,
         LinkExecuteFails, process
    <2>6. CASE End
      BY <2>6 DEF End, EndClean, EndStore, EndStoreFails, process
    <2>7. QED
      BY <2>1, <2>2, <2>3, <2>4, <2>5, <2>6 DEF Next, Tasks
  <1>3. \A p \in todo : OneTime(store.sources \cup {p})
    BY DEF OnceInv, OneTime, SkipInv, TodoInv
  <1>4. OneTime(store'.sources)
    BY <1>1, <1>2, <1>3 DEF OnceInv, OneTime
  <1>5. file' \subseteq file \cup {UpdatedStore}
    <2>1. CASE Tasks
      BY <2>1, TaskFrame DEF End, EndClean, EndStore, EndStoreFails
    <2>2. CASE User
      BY <2>2, UserFrame
    <2>3. QED
      BY <2>1, <2>2 DEF Next, Build, RunBuild, OtherTaskFails, Interrupt, vars
  <1>6. OneTime(UpdatedStore.sources)
    BY UpdatedStoreFields DEF OnceInv
  <1>7. QED
    BY <1>4, <1>5, <1>6 DEF OnceInv

-----------------------------------------------------------------------------
(* What the tasks have done *)

LEMMA FailureKeepsDone ==
  ASSUME taskState' = "FAILURE" \/ calm' = 0 \/ phase' = "idle"
  PROVE  DoneInv'
  BY DEF DoneInv, PchDone, ObjectsDone, LinkDone, AfterObjects

LEMMA PchCheckDone ==
  ASSUME TypeOK, TypeOK', SkipInv, PchCheck
  PROVE  DoneInv'
  <1> DEFINE u == Hashed({"headers", "pchs"})
  <1>0. /\ phase = "pch" /\ UNCHANGED <<world, load>>
        /\ user' = u /\ dirty' = PchChanged(u)
        /\ \/ PchChanged(u) /\ phase' = "pch_exec" /\ store' = store
           \/ ~PchChanged(u) /\ phase' = "objects" /\ store' = PchCompiled(u)
    BY DEF PchCheck
  <1>1. Agree(u, cfg, PchCompared) /\ Agree(u, cfg, {"headers", "pchs"})
    BY <1>0, ReadsTheWorld, FieldFacts DEF Agree
  <1> HIDE DEF u
  <1>2. cfg' = cfg
    BY <1>0 DEF world
  <1>3. CASE PchChanged(u)
    BY <1>0, <1>1, <1>2, <1>3
       DEF DoneInv, PchDone, ObjectsDone, LinkDone, AfterObjects
  <1>4. CASE ~PchChanged(u)
    <2>1. \A r \in load : Agree(r.cfg, u, PchCompared) /\ r.pch_compiled
      BY <1>4 DEF PchChanged
    <2>2. \A r \in load : HeldPch(r)
      BY <1>1, <2>1 DEF HeldPch, PchUpToDate, Agree
    <2>3. store'.pchs = u["pchs"] /\ store'.pch_compiled
      BY <1>0, <1>4 DEF PchCompiled, TypeOK, ProcessType, Recorded
    <2>4. Agree(UpdatedStore'.cfg, cfg', PchCompared)
      BY <1>0, <1>1, <1>2, <2>3, UpdatedStoreFieldsNext, FieldFacts DEF Agree
    <2>5. HeldPch(UpdatedStore)'
      BY <2>3, <2>4, UpdatedStoreFieldsNext DEF HeldPch, PchUpToDate
    <2>6. \A r \in load' : HeldPch(r)'
      BY <1>0, <2>2, SameHeld
    <2>7. QED
      BY <1>0, <1>4, <2>5, <2>6
         DEF DoneInv, PchDone, ObjectsDone, LinkDone, AfterObjects
  <1>5. QED
    BY <1>3, <1>4

LEMMA PchExecuteDone ==
  ASSUME TypeOK, TypeOK', SkipInv, DoneInv, PchExecute
  PROVE  DoneInv'
  <1>0. /\ phase = "pch_exec" /\ phase' = "objects"
        /\ store' = PchCompiled(user)
        /\ UNCHANGED <<world, load, user, dirty, taskState, calm>>
    BY DEF PchExecute
  <1>1. SUFFICES ASSUME taskState = "SUCCESS", calm > 0 PROVE DoneInv'
    BY <1>0 DEF DoneInv
  <1>2. Agree(user, cfg, {"headers", "pchs"}) /\ Agree(user, cfg, FlagFields)
    BY <1>0, <1>1 DEF DoneInv, PchDone, SkipInv, ReadInv
  <1>3. cfg' = cfg /\ dirty'
    BY <1>0 DEF world, SkipInv, WriteInv
  <1>4. store'.pchs = user["pchs"] /\ store'.pch_compiled
    BY <1>0 DEF PchCompiled, TypeOK, ProcessType, Recorded
  <1>5. Agree(UpdatedStore'.cfg, cfg', PchCompared)
    BY <1>0, <1>2, <1>3, <1>4, UpdatedStoreFieldsNext, FieldFacts DEF Agree
  <1>6. HeldPch(UpdatedStore)'
    BY <1>4, <1>5, UpdatedStoreFieldsNext DEF HeldPch, PchUpToDate
  <1>7. QED
    BY <1>0, <1>3, <1>6 DEF DoneInv, PchDone, ObjectsDone, LinkDone, AfterObjects

LEMMA SelectSourcesDone ==
  ASSUME TypeOK, TypeOK', SkipInv, OnceInv, DoneInv, SelectSources
  PROVE  DoneInv'
  <1> DEFINE u == Hashed({"headers", "compile_dependencies"})
             all == dirty \/ ObjectChanged(u)
             selected == IF all THEN Listed ELSE AddedOrUpdated
  <1>0. /\ phase = "objects" /\ phase' = "compile" /\ taskState = "SUCCESS"
        /\ user' = u /\ todo' = selected
        /\ dirty' = (all \/ selected # {} \/ SourceRemoved)
        /\ store' = [store EXCEPT !.sources = Listed \ selected]
        /\ UNCHANGED <<world, load, taskState, calm>>
    BY DEF SelectSources
  <1>1. SUFFICES ASSUME calm > 0 PROVE DoneInv'
    BY <1>0 DEF DoneInv
  <1>2. /\ \A f \in Fields : u[f] \in {user[f], cfg[f]}
        /\ Agree(u, cfg, ObjectCompared)
    BY <1>0, ReadsTheWorld, FieldFacts DEF Agree
  <1>3. HeldPch(UpdatedStore) /\ (~dirty => \A r \in load : HeldPch(r))
    BY <1>0, <1>1 DEF DoneInv, PchDone
  <1> HIDE DEF u
  <1>4. /\ store'.pchs = store.pchs /\ store'.pch_compiled = store.pch_compiled
        /\ store'.sources = Listed \ selected
    BY <1>0 DEF TypeOK, ProcessType, Recorded
  <1>5. cfg' = cfg /\ Listed' = Listed
    BY <1>0, SameWorld DEF world
  <1>6. HeldPch(UpdatedStore)'
    BY <1>0, <1>2, <1>3, <1>4, PchRecordStays, FieldFacts
  <1>7. store'.sources \cup todo' = Listed'
    BY <1>0, <1>4, <1>5 DEF AddedOrUpdated
  <1>8. ASSUME ~dirty' PROVE load # {} /\ \A r \in load : HeldObjects(r)
    <2>1. ~dirty /\ ~ObjectChanged(u) /\ AddedOrUpdated = {} /\ ~SourceRemoved
      BY <1>0, <1>8
    <2>2. load # {} /\ \A r \in load : Agree(r.cfg, u, ObjectCompared)
      BY <2>1 DEF ObjectChanged
    <2>3. load = file /\ \A r1, r2 \in file : r1 = r2
      BY <1>0 DEF SkipInv, ReadInv
    <2>4. ASSUME NEW r \in load PROVE r.sources = Listed
      <3>1. Listed \subseteq r.sources
        BY <2>1, <2>3, <2>4 DEF AddedOrUpdated
      <3>2. OneTime(r.sources) /\ \A p \in r.sources : p[1] \in srcs
        BY <2>1, <2>3, <2>4 DEF OnceInv, SourceRemoved
      <3>3. \A p \in r.sources : <<p[1], ver[p[1]]>> \in r.sources
        BY <3>1, <3>2 DEF Listed
      <3>4. \A p \in r.sources : p = <<p[1], ver[p[1]]>>
        BY <3>2, <3>3 DEF OneTime
      <3>5. QED
        BY <3>1, <3>2, <3>4 DEF Listed
    <2>5. QED
      BY <1>2, <2>2, <2>4 DEF HeldObjects, Agree
  <1>9. ~dirty' => /\ load' # {}
                   /\ \A r \in load' : HeldPch(r)' /\ HeldObjects(r)'
    BY <1>0, <1>3, <1>8, SameHeld
  <1>10. Agree(user', cfg', ObjectCompared)
    BY <1>0, <1>2, <1>5
  <1>11. QED
    BY <1>0, <1>6, <1>7, <1>9, <1>10
       DEF DoneInv, PchDone, ObjectsDone, LinkDone, AfterObjects

LEMMA CompileSourceDone ==
  ASSUME TypeOK, TypeOK', SkipInv, DoneInv, NEW p \in todo, CompileSource(p)
  PROVE  DoneInv'
  <1>0. /\ phase = "compile" /\ phase' = "compile"
        /\ store' = [store EXCEPT !.sources = @ \cup {p}]
        /\ todo' = todo \ {p}
        /\ UNCHANGED <<world, load, user, dirty, taskState, calm>>
    BY DEF CompileSource
  <1>1. SUFFICES ASSUME taskState = "SUCCESS", calm > 0 PROVE DoneInv'
    BY <1>0 DEF DoneInv
  <1>2. PchDone /\ ObjectsDone
    BY <1>1 DEF DoneInv
  <1>3. /\ store'.pchs = store.pchs /\ store'.pch_compiled = store.pch_compiled
        /\ store'.sources = store.sources \cup {p}
    BY <1>0 DEF TypeOK, ProcessType, Recorded
  <1>4. cfg' = cfg /\ Listed' = Listed
    BY <1>0, SameWorld DEF world
  <1>5. HeldPch(UpdatedStore)'
    BY <1>0, <1>2, <1>3, PchRecordStays DEF PchDone
  <1>6. store'.sources \cup todo' = Listed'
    BY <1>0, <1>2, <1>3, <1>4 DEF ObjectsDone
  <1>7. ~dirty' => /\ load' # {}
                   /\ \A r \in load' : HeldPch(r)' /\ HeldObjects(r)'
    BY <1>0, <1>2, SameHeld DEF PchDone, ObjectsDone
  <1>8. Agree(user', cfg', ObjectCompared)
    BY <1>0, <1>2, <1>4 DEF ObjectsDone
  <1>9. QED
    BY <1>0, <1>5, <1>6, <1>7, <1>8
       DEF DoneInv, PchDone, ObjectsDone, LinkDone, AfterObjects

LEMMA LinkCheckDone ==
  ASSUME TypeOK, TypeOK', SkipInv, DoneInv, LinkCheck
  PROVE  DoneInv'
  <1> DEFINE u == Hashed({"libs", "link_dependencies"})
  <1>0. /\ phase = "link" /\ taskState = "SUCCESS" /\ user' = u
        /\ dirty' = (dirty \/ LinkChanged(u))
        /\ phase' = IF dirty \/ LinkChanged(u) THEN "link_exec" ELSE "end"
        /\ UNCHANGED <<world, load, store, todo, taskState, calm>>
    BY DEF LinkCheck
  <1>1. SUFFICES ASSUME calm > 0 PROVE DoneInv'
    BY <1>0 DEF DoneInv
  <1>2. PchDone /\ ObjectsDone
    BY <1>0, <1>1 DEF DoneInv
  <1>3. /\ \A f \in Fields : u[f] \in {user[f], cfg[f]}
        /\ Agree(u, cfg, LinkCompared)
    BY <1>0, ReadsTheWorld, FieldFacts DEF Agree
  <1> HIDE DEF u
  <1>4. cfg' = cfg /\ Listed' = Listed
    BY <1>0, SameWorld DEF world
  <1>5. HeldPch(UpdatedStore)'
    BY <1>0, <1>2, <1>3, PchRecordStays, FieldFacts DEF PchDone, AfterObjects
  <1>6. Agree(user', cfg', ObjectCompared)
    BY <1>0, <1>2, <1>3, <1>4, FieldFacts DEF ObjectsDone, AfterObjects, Agree
  <1>7. store'.sources \cup todo' = Listed'
    BY <1>0, <1>2, <1>4 DEF ObjectsDone, AfterObjects
  <1>8. ~dirty' =>
          /\ load' # {}
          /\ \A r \in load' : HeldPch(r)' /\ HeldObjects(r)' /\ HeldLink(r)'
    <2> SUFFICES ASSUME ~dirty'
                 PROVE  /\ load # {}
                        /\ \A r \in load : HeldPch(r) /\ HeldObjects(r)
                                             /\ HeldLink(r)
      BY <1>0, SameHeld
    <2>1. ~dirty /\ ~LinkChanged(u)
      BY <1>0
    <2>2. \A r \in load : HeldLink(r)
      BY <1>3, <2>1 DEF LinkChanged, HeldLink, Agree
    <2>3. QED
      BY <1>0, <1>2, <2>1, <2>2 DEF PchDone, ObjectsDone, AfterObjects
  <1>9. Agree(user', cfg', LinkCompared)
    BY <1>0, <1>3, <1>4
  <1>10. QED
    BY <1>0, <1>5, <1>6, <1>7, <1>8, <1>9
       DEF DoneInv, PchDone, ObjectsDone, LinkDone, AfterObjects

LEMMA LinkExecuteDone ==
  ASSUME TypeOK, TypeOK', SkipInv, DoneInv, LinkExecute
  PROVE  DoneInv'
  <1>0. /\ phase = "link_exec" /\ phase' = "end"
        /\ store' = [store EXCEPT !.target_linked = TRUE]
        /\ UNCHANGED <<world, load, user, dirty, todo, taskState, calm>>
    BY DEF LinkExecute
  <1>1. SUFFICES ASSUME taskState = "SUCCESS", calm > 0 PROVE DoneInv'
    BY <1>0 DEF DoneInv
  <1>2. PchDone /\ ObjectsDone /\ LinkDone
    BY <1>1 DEF DoneInv
  <1>3. /\ store'.pchs = store.pchs /\ store'.pch_compiled = store.pch_compiled
        /\ store'.sources = store.sources /\ store'.target_linked
    BY <1>0 DEF TypeOK, ProcessType, Recorded
  <1>4. cfg' = cfg /\ Listed' = Listed
    BY <1>0, SameWorld DEF world
  <1>5. HeldPch(UpdatedStore)'
    BY <1>0, <1>2, <1>3, PchRecordStays DEF PchDone, AfterObjects
  <1>6. dirty'
    BY <1>0, <1>2 DEF LinkDone
  <1>7. /\ store'.sources \cup todo' = Listed'
        /\ Agree(user', cfg', ObjectCompared) /\ Agree(user', cfg', LinkCompared)
    BY <1>0, <1>2, <1>3, <1>4 DEF ObjectsDone, LinkDone, AfterObjects
  <1>8. QED
    BY <1>0, <1>3, <1>5, <1>6, <1>7
       DEF DoneInv, PchDone, ObjectsDone, LinkDone, AfterObjects

(* Steps that only move on: what was done is done for the phase after. *)
LEMMA MovingOnDone ==
  ASSUME TypeOK, DoneInv,
         \/ CompileJoin \/ EndClean \/ EndStore \/ UNCHANGED vars
  PROVE  DoneInv'
  <1>1. UNCHANGED <<world, process, taskState, calm>>
    BY DEF CompileJoin, EndClean, EndStore, vars
  <1>2. /\ cfg' = cfg /\ Listed' = Listed /\ load' = load /\ user' = user
        /\ store' = store /\ dirty' = dirty /\ todo' = todo
        /\ UpdatedStore' = UpdatedStore
    BY <1>1, SameWorld DEF world, process, UpdatedStore
  <1>3. \/ phase = "compile" /\ phase' = "link"
        \/ phase = "end" /\ phase' = "exit"
        \/ phase' = phase
    BY DEF CompileJoin, EndClean, EndStore, vars
  <1>4. \A r : HeldPch(r)' = HeldPch(r) /\ HeldObjects(r)' = HeldObjects(r)
               /\ HeldLink(r)' = HeldLink(r)
    BY <1>1, SameHeld
  <1>5. HeldPch(UpdatedStore)' = HeldPch(UpdatedStore)
    BY <1>2, <1>4, SameWorld, <1>1 DEF HeldPch, PchUpToDate
  <1>6. SUFFICES ASSUME taskState = "SUCCESS", calm > 0, DoneInv PROVE DoneInv'
    BY <1>1 DEF DoneInv
  <1>7. PchDone'
    BY <1>2, <1>3, <1>4, <1>5, <1>6 DEF DoneInv, PchDone, AfterObjects
  <1>8. ObjectsDone'
    BY <1>2, <1>3, <1>4, <1>6 DEF DoneInv, ObjectsDone, AfterObjects
  <1>9. LinkDone'
    BY <1>2, <1>3, <1>4, <1>6 DEF DoneInv, LinkDone
  <1>10. QED
    BY <1>7, <1>8, <1>9 DEF DoneInv

LEMMA BuildDone ==
  ASSUME Build
  PROVE  DoneInv'
  <1>1. /\ phase' = "pch" \/ (phase' = "objects" /\ ~HasPch)
        /\ UNCHANGED world
    BY DEF Build
  <1>2. ~HasPch => \A r : HeldPch(r)'
    BY <1>1, SameWorld DEF HeldPch
  <1>3. ~HasPch => HeldPch(UpdatedStore)'
    BY <1>1, SameWorld DEF HeldPch
  <1>4. QED
    BY <1>1, <1>2, <1>3 DEF DoneInv, PchDone, ObjectsDone, LinkDone, AfterObjects

LEMMA DoneStep ==
  ASSUME TypeOK, TypeOK', SkipInv, OnceInv, DoneInv, [Next]_vars
  PROVE  DoneInv'
  <1>1. CASE User
    BY <1>1, UserFrame, FailureKeepsDone
  <1>2. CASE Pch
    BY <1>2, FailureKeepsDone, PchCheckDone, PchExecuteDone
       DEF Pch, PchSkip, PchHashFails, PchExecuteFails, Fail
  <1>3. CASE Objects
    BY <1>3, FailureKeepsDone, SelectSourcesDone, CompileSourceDone, MovingOnDone
       DEF Objects, ObjectsSkip, ObjectHashFails, CompileSourceFails, Fail
  <1>4. CASE Link
    BY <1>4, FailureKeepsDone, LinkCheckDone, LinkExecuteDone
       DEF Link, LinkSkip, LinkHashFails, LinkExecuteFails, Fail
  <1>5. CASE End
    BY <1>5, FailureKeepsDone, MovingOnDone DEF End, EndStoreFails, Fail
  <1>6. CASE RunBuild \/ OtherTaskFails \/ Interrupt
    BY <1>6, FailureKeepsDone
       DEF RunBuild, OtherTaskFails, Interrupt, ProcessGone, Fail
  <1>7. CASE Build \/ UNCHANGED vars
    BY <1>7, BuildDone, MovingOnDone
  <1>8. QED
    BY <1>1, <1>2, <1>3, <1>4, <1>5, <1>6, <1>7 DEF Next, Tasks
-----------------------------------------------------------------------------
(* When everything is settled *)

(* A run of which no task failed leaves a schema of the world as it is. *)
LEMMA EndCleanSettles ==
  ASSUME SkipInv, DoneInv, EndClean, taskState = "SUCCESS", calm > 0
  PROVE  Settled'
  <1>1. phase = "end" /\ ~dirty /\ UNCHANGED <<world, file>>
    BY DEF EndClean
  <1>2. load # {} /\ \A r \in load : HeldPch(r) /\ HeldObjects(r) /\ HeldLink(r)
    BY <1>1 DEF DoneInv, PchDone, ObjectsDone, LinkDone, AfterObjects
  <1>3. load = file
    BY <1>1 DEF SkipInv, ReadInv
  <1>4. Settled
    BY <1>2, <1>3, HeldIsNothingToDo DEF Settled
  <1>5. QED
    BY <1>1, <1>4, SameSettled

LEMMA EndStoreSettles ==
  ASSUME TypeOK, SkipInv, DoneInv, EndStore, taskState = "SUCCESS", calm > 0
  PROVE  Settled'
  <1>1. phase = "end" /\ dirty /\ file' = {UpdatedStore} /\ UNCHANGED world
    BY DEF EndStore
  <1>2. /\ HeldPch(UpdatedStore) /\ store.sources \cup todo = Listed
        /\ Agree(user, cfg, ObjectCompared) /\ Agree(user, cfg, LinkCompared)
        /\ store.target_linked
    BY <1>1 DEF DoneInv, PchDone, ObjectsDone, LinkDone, AfterObjects
  <1>3. todo = {}
    BY <1>1 DEF SkipInv, PhaseInv
  <1>4. HeldObjects(UpdatedStore) /\ HeldLink(UpdatedStore)
    BY <1>2, <1>3, UpdatedStoreFields, FieldFacts
       DEF HeldObjects, HeldLink, Agree
  <1>5. NothingToDo(UpdatedStore)
    BY <1>2, <1>4, HeldIsNothingToDo
  <1>6. NothingToDo(UpdatedStore)' = NothingToDo(UpdatedStore)
    <2>1. UpdatedStore' = UpdatedStore
      BY DEF EndStore, process, UpdatedStore
    <2>2. \A r : NothingToDo(r)' = NothingToDo(r)
      BY <1>1, SameWorld
    <2>3. QED
      BY <2>1, <2>2 DEF NothingToDo
  <1>7. UpdatedStore' = UpdatedStore
    BY DEF EndStore, process, UpdatedStore
  <1>8. QED
    BY <1>1, <1>5, <1>6, <1>7 DEF Settled, NothingToDo

(* The tasks before the End task. *)
LEMMA TaskCalms ==
  ASSUME SkipInv, CalmInv, Tasks, ~End
  PROVE  CalmInv'
  <1>1. /\ UNCHANGED <<world, last, calm, file>>
        /\ phase' # "idle" /\ phase' # "exit" /\ phase \notin {"idle", "exit"}
    BY TaskFrame
  <1>2. Settled' = Settled
    BY <1>1, SameSettled
  <1>3. ASSUME calm = 2, phase' = "end" PROVE ~dirty'
    <2>1. phase # "link_exec" /\ (phase = "link" => ~dirty)
      BY <1>3, SettledIsQuiet DEF CalmInv
    <2>2. QED
      BY <1>3, <2>1 DEF Tasks, Pch, PchSkip, PchCheck, PchHashFails, PchExecute,
         PchExecuteFails, Objects, ObjectsSkip, SelectSources, ObjectHashFails,
         CompileJoin, CompileSource, CompileSourceFails, Link, LinkSkip,
         LinkCheck, LinkHashFails, LinkExecute, LinkExecuteFails, process
  <1>4. QED
    BY <1>1, <1>2, <1>3 DEF CalmInv

LEMMA EndCalms ==
  ASSUME TypeOK, SkipInv, DoneInv, CalmInv, End
  PROVE  CalmInv'
  <1>1. CASE EndClean
    <2>1. /\ phase' = "exit" /\ UNCHANGED <<world, file, taskState, calm>>
          /\ dirty' = dirty /\ ~dirty
      BY <1>1 DEF EndClean, process
    <2>2. QED
      BY <1>1, <2>1, EndCleanSettles, SameSettled DEF CalmInv
  <1>2. CASE EndStore
    <2>1. /\ phase = "end" /\ phase' = "exit" /\ UNCHANGED <<taskState, calm>>
          /\ dirty
      BY <1>2 DEF EndStore
    <2>2. QED
      BY <1>2, <2>1, EndStoreSettles DEF CalmInv
  <1>3. CASE EndStoreFails
    BY <1>3 DEF EndStoreFails, Fail, CalmInv
  <1>4. QED
    BY <1>1, <1>2, <1>3 DEF End

LEMMA BuildCalms ==
  ASSUME CalmInv, Build
  PROVE  CalmInv'
  <1>1. /\ phase = "idle" /\ phase' \notin {"idle", "end", "exit"}
        /\ calm' = IF calm > 0 /\ last = "ok" THEN 2 ELSE 1
    BY DEF Build
  <1>2. Settled' = Settled
    BY SameSettled DEF Build
  <1>3. QED
    BY <1>1, <1>2 DEF CalmInv

LEMMA ProcessEndCalms ==
  ASSUME CalmInv, RunBuild \/ OtherTaskFails \/ UNCHANGED vars
  PROVE  CalmInv'
  <1>1. Settled' = Settled /\ calm' = calm
    BY SameSettled DEF RunBuild, OtherTaskFails, vars
  <1>2. CASE RunBuild
    BY <1>1, <1>2 DEF RunBuild, ProcessGone, CalmInv
  <1>3. CASE OtherTaskFails
    BY <1>1, <1>3 DEF OtherTaskFails, Fail, process, CalmInv
  <1>4. CASE UNCHANGED vars
    BY <1>1, <1>4 DEF vars, process, CalmInv
  <1>5. QED
    BY <1>2, <1>3, <1>4

(* A calm run that is killed was writing nothing. *)
LEMMA CalmInterrupt ==
  ASSUME TypeOK, SkipInv, CalmInv, Interrupt, calm = 2
  PROVE  UNCHANGED <<outputs, file>>
  <1>1. Settled /\ (phase = "end" => ~dirty)
    BY DEF CalmInv
  <1>2. phase \notin {"pch_exec", "link_exec"} /\ (phase = "compile" => todo = {})
    BY <1>1, SettledIsQuiet
  <1>3. pch' = pch /\ bin' = bin /\ file' = file
    BY <1>1, <1>2 DEF Interrupt
  <1>4. obj' = obj
    <2>1. CASE phase = "compile"
      <3>1. {p[1] : p \in todo} = {}
        BY <1>2, <2>1
      <3>2. obj' = [s \in Sources |-> obj[s]]
        BY <2>1, <3>1 DEF Interrupt
      <3>3. QED
        BY <3>2 DEF TypeOK, OutputType
    <2>2. CASE phase # "compile"
      BY <2>2 DEF Interrupt
    <2>3. QED
      BY <2>1, <2>2
  <1>5. QED
    BY <1>3, <1>4 DEF outputs

LEMMA InterruptCalms ==
  ASSUME TypeOK, SkipInv, CalmInv, Interrupt
  PROVE  CalmInv'
  <1>1. phase' = "idle" /\ last' = "killed" /\ calm' = calm /\ UNCHANGED world
    BY DEF Interrupt, ProcessGone
  <1>2. calm = 2 => Settled'
    BY <1>1, CalmInterrupt, SameSettled DEF CalmInv
  <1>3. QED
    BY <1>1, <1>2 DEF CalmInv

LEMMA CalmStep ==
  ASSUME TypeOK, SkipInv, DoneInv, CalmInv, [Next]_vars
  PROVE  CalmInv'
  <1>1. CASE User
    BY <1>1, UserFrame DEF CalmInv
  <1>2. CASE Tasks
    BY <1>2, TaskCalms, EndCalms
  <1>3. QED
    BY <1>1, <1>2, BuildCalms, ProcessEndCalms, InterruptCalms DEF Next

LEMMA ContractInvInit == Init => OnceInv /\ DoneInv /\ CalmInv
  BY DEF Init, EmptyStore, OnceInv, OneTime, DoneInv, CalmInv

LEMMA ContractInvHolds ==
  ASSUME Dependable
  PROVE  Spec => []ContractInv
  <1>1. Init => ContractInv
    BY InitType, InitKeeps, ContractInvInit DEF ContractInv
  <1>2. ContractInv /\ SafeInv' /\ [Next]_vars => ContractInv'
    BY OnceStep, DoneStep, CalmStep DEF ContractInv, SafeInv
  <1>3. QED
    BY <1>1, <1>2, SafeInvHolds, PTL DEF Spec

(* Task state SUCCESS at the end of a run is the promise that all is built:  *)
(* what each task compared, compiled and recorded adds up to outputs that    *)
(* are those of a build from nothing. (RunBuild and Target::EndTask.)        *)
THEOREM SuccessMeansClean ==
  ASSUME Dependable
  PROVE  Spec => []SuccessIsClean
  <1>1. ContractInv => SuccessIsClean
    BY SettledIsClean DEF ContractInv, CalmInv, SuccessIsClean
  <1>2. QED
    BY <1>1, ContractInvHolds, PTL

(* A run after a success, with no edit between, never becomes dirty: what    *)
(* the tasks stored is what they compare with. (UpdateStore and the          *)
(* comparisons of CompilePch, CompileObject and LinkTarget.)                 *)
THEOREM NothingIsRebuilt ==
  ASSUME Dependable
  PROVE  Spec => []NoSpuriousRebuild
  <1>1. ContractInv => NoSpuriousRebuild
    <2> SUFFICES ASSUME ContractInv, calm = 2, phase # "idle" PROVE ~dirty
      BY DEF NoSpuriousRebuild
    <2>1. Settled /\ SkipInv /\ phase \in Phases
      BY DEF ContractInv, CalmInv, TypeOK, ControlType
    <2>2. QED
      BY <2>1, SettledIsQuiet DEF Phases, ContractInv, CalmInv
  <1>2. QED
    BY <1>1, ContractInvHolds, PTL

-----------------------------------------------------------------------------
(* The contract: every step is one of its steps *)

LEMMA SameClean ==
  ASSUME UNCHANGED <<world, outputs>>
  PROVE  Clean' = Clean
  <1>1. srcs' = srcs /\ pch' = pch /\ obj' = obj /\ bin' = bin
    BY DEF world, outputs
  <1>2. QED
    BY <1>1, SameWorld DEF Clean

(* Tasks of a calm run leave the outputs alone. *)
LEMMA CalmTasks ==
  ASSUME SkipInv, CalmInv, Tasks, calm = 2
  PROVE  UNCHANGED outputs
  <1>1. phase \notin {"pch_exec", "link_exec"} /\ (phase = "compile" => todo = {})
    BY SettledIsQuiet DEF CalmInv
  <1>2. QED
    BY <1>1 DEF Tasks, Pch, PchSkip, PchCheck, PchHashFails, PchExecute,
       PchExecuteFails, Objects, ObjectsSkip, SelectSources, ObjectHashFails,
       CompileJoin, CompileSource, CompileSourceFails, Link, LinkSkip,
       LinkCheck, LinkHashFails, LinkExecute, LinkExecuteFails, End, EndClean,
       EndStore, EndStoreFails

LEMMA ContractStep ==
  ASSUME ContractInv, [Next]_vars
  PROVE  [Contract!Next]_(Contract!vars)
  <1> USE DEF ContractInv
  <1>1. Clean \in BOOLEAN /\ Clean' \in BOOLEAN
    BY DEF Clean
  <1>2. CASE User
    BY <1>1, <1>2, UserFrame DEF Contract!Next, Contract!Edit
  <1>3. CASE Build
    <2>1. Clean' = Clean
      BY <1>3, SameClean DEF Build
    <2>2. phase' # "idle"
      BY <1>3 DEF Build
    <2>3. Contract!Begin
      BY <1>3, <2>1, <2>2 DEF Build, Contract!Begin
    <2>4. QED
      BY <2>3 DEF Contract!Next
  <1>4. CASE Tasks
    <2>1. phase # "idle" /\ phase' # "idle" /\ UNCHANGED <<world, last, calm>>
      BY <1>4, TaskFrame
    <2>2. CASE calm = 2
      <3>1. Clean' = Clean
        BY <1>4, <2>1, <2>2, CalmTasks, SameClean
      <3>2. QED
        BY <2>1, <3>1 DEF Contract!vars
    <2>3. CASE calm # 2
      <3>1. calm < 2
        BY <2>3 DEF TypeOK, ControlType
      <3>2. Contract!Work
        BY <1>1, <2>1, <3>1 DEF Contract!Work
      <3>3. QED
        BY <3>2 DEF Contract!Next
    <2>4. QED
      BY <2>2, <2>3
  <1>5. CASE RunBuild
    <2>1. Clean' = Clean
      BY <1>5, SameClean DEF RunBuild
    <2>2. last' = "ok" /\ calm > 0 => Clean
      BY <1>5, SettledIsClean DEF RunBuild, CalmInv
    <2>3. last' \in {"ok", "failed"} /\ Contract!Finish(last')
      BY <1>5, <2>1, <2>2 DEF RunBuild, ProcessGone, Contract!Finish
    <2>4. QED
      BY <2>3 DEF Contract!Next
  <1>6. CASE OtherTaskFails \/ UNCHANGED vars
    <2>1. UNCHANGED <<world, outputs, phase, last, calm>>
      BY <1>6 DEF OtherTaskFails, vars
    <2>2. QED
      BY <2>1, SameClean DEF Contract!vars
  <1>7. CASE Interrupt
    <2>1. /\ phase # "idle" /\ phase' = "idle" /\ last' = "killed"
          /\ calm' = calm /\ UNCHANGED world
      BY <1>7 DEF Interrupt, ProcessGone
    <2>2. calm = 2 => Clean' = Clean
      BY <1>7, <2>1, CalmInterrupt, SameClean
    <2>3. ~(calm < 2) => calm = 2
      BY DEF TypeOK, ControlType
    <2>4. Contract!Killed
      BY <1>1, <2>1, <2>2, <2>3 DEF Contract!Killed
    <2>5. QED
      BY <2>4 DEF Contract!Next
  <1>8. QED
    BY <1>2, <1>3, <1>4, <1>5, <1>6, <1>7 DEF Next

(* The target implements the contract of an incremental build: success means *)
(* clean outputs, and what is up to date is left alone, whichever tasks fail *)
(* and wherever runs are killed. (The Pch, Objects, Target and End tasks.)   *)
THEOREM TargetKeepsContract ==
  ASSUME Dependable
  PROVE  Spec => ImplementsContract
  <1>1. Init => Contract!Init
    BY DEF Init, Contract!Init, Clean
  <1>2. ContractInv /\ [Next]_vars => [Contract!Next]_(Contract!vars)
    BY ContractStep
  <1>3. QED
    BY <1>1, <1>2, ContractInvHolds, PTL
       DEF Spec, ImplementsContract, Contract!Spec

-----------------------------------------------------------------------------
(* What is compiled is not compiled again *)

(* Nothing reverts, nothing is saved during a run and no run is killed. A    *)
(* change of the pch object flags recompiles everything, also in a script    *)
(* without a precompiled header, whose objects do not depend on them: they   *)
(* are not edited here.                                                      *)
Undisturbed ==
  /\ Reverts = {} /\ MidRun = {} /\ ~Interrupts
  /\ "pch_object_flags" \notin Edited

IsClean(s) == obj[s] = {CleanObject(s)}
NoneClean == \A s \in srcs : ~IsClean(s)

(* An object that is what a build from nothing would make is known to be, to *)
(* the schema on disk or to the one the run would store: the converse of     *)
(* Sound.                                                                    *)
FileKnows == \A s \in srcs : IsClean(s) => \E r \in file : ObjectUpToDate(r, s)
StoreKnows == \A s \in srcs : IsClean(s) => ObjectUpToDate(UpdatedStore, s)

(* While the subtasks run: a clean object is recorded, and not to be made. *)
CleanAreRecorded ==
  \A s \in srcs : IsClean(s) =>
    <<s, ver[s]>> \in store.sources /\ \A p \in todo : p[1] # s

ReadAll == Agree(user, cfg, ObjectCompared) /\ HeldPch(UpdatedStore)

(* Outputs were made from what the world is or was, and what was never *)
(* listed was never compiled.                                          *)
PchIsOld(P) == \A q \in P : \A f \in PchInputs : q[f] <= cfg[f]

ObjectIsOld(o, s) ==
  /\ o.src <= ver[s]
  /\ \A f \in ObjectInputs : o.in[f] <= cfg[f]
  /\ PchIsOld(o.pch)

OldInv ==
  /\ PchIsOld(pch)
  /\ \A s \in Sources : \A o \in obj[s] : ObjectIsOld(o, s)
  /\ \A s \in Sources \ (First \cup srcs) : obj[s] = {}

KnowInv ==
  /\ phase \in {"idle", "pch", "pch_exec", "objects", "exit"} \/ ~dirty => FileKnows
  /\ phase \in {"idle", "pch"} => ~dirty
  /\ phase = "pch_exec" => Agree(user, cfg, PchCompared)
  /\ phase \in {"pch_exec", "objects"} /\ dirty => NoneClean
  /\ phase = "objects" /\ taskState = "SUCCESS" => HeldPch(UpdatedStore)
  /\ phase = "compile" => ReadAll /\ CleanAreRecorded /\ (~dirty => todo = {})
  /\ phase = "compile" => \A p \in todo : p[2] = ver[p[1]]
  /\ phase = "link" /\ (dirty \/ taskState = "SUCCESS") => StoreKnows
  /\ phase \in {"link_exec", "end"} /\ dirty => StoreKnows

OnceMoreInv == TypeOK /\ SkipInv /\ OldInv /\ KnowInv

LEMMA OnceMoreInit == Init => OldInv /\ KnowInv
<1>1. SUFFICES ASSUME Init PROVE OldInv /\ KnowInv
  OBVIOUS
<1>2. pch = {} /\ phase = "idle" /\ ~dirty /\ srcs = First /\ First \subseteq Sources
      /\ \A s \in Sources : obj[s] = {}
  BY <1>1, FirstAssumption DEF Init
<1>3. FileKnows
  BY <1>2 DEF FileKnows, IsClean
<1> QED
  BY <1>2, <1>3 DEF OldInv, PchIsOld, KnowInv

(* What an edit leaves alone where nothing disturbs the runs. *)
LEMMA UndisturbedUser ==
  ASSUME Undisturbed, TypeOK, User
  PROVE  /\ Forward
         /\ phase = "idle" /\ phase' = "idle" /\ UNCHANGED <<outputs, file, process>>
         /\ cfg'["pch_object_flags"] = cfg["pch_object_flags"]
<1>1. "pch_object_flags" \in Fields
  BY DEF Fields, FlagFields
<1> QED
  BY <1>1 DEF Undisturbed, Forward, User, EditField, SaveListedFile, SaveSource,
     RemoveSource, ListSource, TypeOK, WorldType

-----------------------------------------------------------------------------
(* Outputs are made from what the world is or was *)

LEMMA OldTypes ==
  ASSUME TypeOK
  PROVE  /\ \A f \in Fields : cfg[f] \in Int /\ cfg[f] >= 0
         /\ \A s \in Sources : ver[s] \in Int
         /\ \A q \in pch : \A f \in PchInputs : q[f] \in Int
         /\ \A s \in Sources : \A o \in obj[s] :
              /\ o.src \in Int
              /\ \A f \in ObjectInputs : o.in[f] \in Int
              /\ \A q \in o.pch : \A f \in PchInputs : q[f] \in Int
         /\ PchInputs \subseteq Fields /\ ObjectInputs \subseteq Fields
         /\ srcs \subseteq Sources
<1>1. /\ \A f \in Fields : cfg[f] \in Int /\ cfg[f] >= 0
      /\ \A s \in Sources : ver[s] \in Int
      /\ srcs \subseteq Sources
  BY VersionFacts DEF TypeOK, WorldType
<1>2. PchInputs \subseteq Fields /\ ObjectInputs \subseteq Fields
  BY InputsAreFields
<1>3. \A q \in PchFile : \A f \in PchInputs : q[f] \in Int
  BY VersionFacts DEF PchFile
<1>4. \A o \in ObjectFile :
        /\ o.src \in Int
        /\ \A f \in ObjectInputs : o.in[f] \in Int
        /\ o.pch \subseteq PchFile
  BY VersionFacts DEF ObjectFile
<1>5. pch \subseteq PchFile /\ \A s \in Sources : obj[s] \subseteq ObjectFile
  BY DEF TypeOK, OutputType
<1>6. \A q \in pch : \A f \in PchInputs : q[f] \in Int
  BY <1>3, <1>5
<1>7. \A s \in Sources : \A o \in obj[s] :
        /\ o.src \in Int
        /\ \A f \in ObjectInputs : o.in[f] \in Int
        /\ \A q \in o.pch : \A f \in PchInputs : q[f] \in Int
  BY <1>3, <1>4, <1>5
<1> QED
  BY <1>1, <1>2, <1>6, <1>7

LEMMA OldAfterEdit ==
  ASSUME Undisturbed, TypeOK, TypeOK', OldInv, User
  PROVE  OldInv'
<1>1. /\ \A f \in Fields : cfg[f] <= cfg'[f]
      /\ \A s \in Sources : ver[s] <= ver'[s]
      /\ srcs \ srcs' \subseteq First
      /\ pch' = pch /\ obj' = obj
  BY UndisturbedUser, UserMovesForward DEF outputs
<1>2. /\ \A f \in Fields : cfg[f] \in Int /\ cfg'[f] \in Int
      /\ \A s \in Sources : ver[s] \in Int /\ ver'[s] \in Int
      /\ PchInputs \subseteq Fields /\ ObjectInputs \subseteq Fields
  BY OldTypes, VersionFacts DEF TypeOK, WorldType
<1>3. ASSUME NEW q, NEW f \in PchInputs, q[f] \in Int, q[f] <= cfg[f]
      PROVE  q[f] <= cfg'[f]
  BY <1>1, <1>2, <1>3
<1>4. PchIsOld(pch)'
  BY <1>1, <1>3, OldTypes DEF OldInv, PchIsOld
<1>5. ASSUME NEW s \in Sources, NEW o \in obj[s] PROVE ObjectIsOld(o, s)'
  <2>1. ObjectIsOld(o, s)
    BY <1>5 DEF OldInv
  <2>2. o.src <= ver'[s]
    BY <1>1, <1>2, <2>1, OldTypes DEF ObjectIsOld
  <2>3. \A f \in ObjectInputs : o.in[f] <= cfg'[f]
    BY <1>1, <1>2, <2>1, OldTypes DEF ObjectIsOld
  <2>4. PchIsOld(o.pch)'
    BY <1>3, <2>1, OldTypes DEF ObjectIsOld, PchIsOld
  <2> QED
    BY <2>2, <2>3, <2>4 DEF ObjectIsOld
<1>6. \A s \in Sources \ (First \cup srcs') : obj'[s] = {}
  BY <1>1 DEF OldInv
<1> QED
  BY <1>1, <1>4, <1>5, <1>6 DEF OldInv

LEMMA SameOld ==
  ASSUME UNCHANGED world
  PROVE  /\ \A P : PchIsOld(P)' = PchIsOld(P)
         /\ \A o, s : ObjectIsOld(o, s)' = ObjectIsOld(o, s)
BY DEF world, PchIsOld, ObjectIsOld

(* What a tool is given is what the world is, or was when it was read. *)
LEMMA ArgIsOld ==
  ASSUME TypeOK, SkipInv, NEW f \in Fields
  PROVE  /\ Arg(f) <= cfg[f]
         /\ ObjectArg(f, Arg(f)) <= cfg[f]
<1>1. user[f] <= cfg[f] /\ cfg[f] \in Int /\ cfg[f] >= 0
  BY OldTypes DEF SkipInv, ReadInv
<1> QED
  BY <1>1 DEF Arg, ObjectArg, Empty

LEMMA OldStep ==
  ASSUME Undisturbed, TypeOK, TypeOK', SkipInv, OldInv, [Next]_vars
  PROVE  OldInv'
<1>1. CASE User
  BY <1>1, OldAfterEdit
<1>2. CASE PchExecute
  <2>1. /\ UNCHANGED world /\ obj' = obj
        /\ pch' = PchFrom([f \in Fields |-> Arg(f)])
    BY <1>2 DEF PchExecute
  <2>2. PchIsOld(pch')
    BY <2>1, ArgIsOld, OldTypes DEF PchIsOld, PchFrom
  <2>3. srcs' = srcs
    BY <2>1 DEF world
  <2> QED
    BY <2>1, <2>2, <2>3, SameOld DEF OldInv
<1>3. CASE PchExecuteFails
  <2>1. UNCHANGED world /\ obj' = obj /\ pch' \in {pch, {}}
    BY <1>3 DEF PchExecuteFails
  <2>2. srcs' = srcs /\ PchIsOld(pch')
    BY <2>1 DEF world, OldInv, PchIsOld
  <2> QED
    BY <2>1, <2>2, SameOld DEF OldInv
<1>4. ASSUME NEW p \in todo, CompileSource(p) \/ CompileSourceFails(p)
      PROVE  OldInv'
  <2>1. /\ UNCHANGED world /\ pch' = pch /\ phase = "compile"
        /\ srcs' = srcs
    BY <1>4 DEF CompileSource, CompileSourceFails, world
  <2>2. p[1] \in srcs /\ p[1] \in Sources
    BY <2>1, SubtaskFacts
  <2>3. \A s \in Sources : s # p[1] => obj'[s] = obj[s]
    BY <1>4 DEF CompileSource, CompileSourceFails, TypeOK, OutputType
  <2>4. \A o \in obj'[p[1]] : ObjectIsOld(o, p[1])
    <3>1. CASE CompileSource(p)
      <4> DEFINE o == [src |-> ver[p[1]],
                       in  |-> [f \in ObjectInputs |-> ObjectArg(f, Arg(f))],
                       pch |-> IF HasPch THEN pch ELSE {}]
      <4>1. obj'[p[1]] = {o}
        BY <2>2, <3>1 DEF CompileSource, TypeOK, OutputType
      <4>2. /\ o.src = ver[p[1]]
            /\ \A f \in ObjectInputs : o.in[f] = ObjectArg(f, Arg(f))
            /\ o.pch = IF HasPch THEN pch ELSE {}
        OBVIOUS
      <4> HIDE DEF o
      <4>3. o.src <= ver[p[1]]
        BY <2>2, <4>2, OldTypes
      <4>4. PchIsOld(o.pch)
        BY <4>2 DEF OldInv, PchIsOld
      <4>5. \A f \in ObjectInputs : o.in[f] <= cfg[f]
        BY <4>2, ArgIsOld, InputsAreFields
      <4> QED
        BY <4>1, <4>3, <4>4, <4>5 DEF ObjectIsOld
    <3>2. CASE CompileSourceFails(p)
      <4>1. obj'[p[1]] \in {obj[p[1]], {}}
        BY <2>2, <3>2 DEF CompileSourceFails, TypeOK, OutputType
      <4> QED
        BY <2>2, <4>1 DEF OldInv
    <3> QED BY <1>4, <3>1, <3>2
  <2>5. \A s \in Sources : \A o \in obj'[s] : ObjectIsOld(o, s)
    BY <2>3, <2>4 DEF OldInv
  <2>6. \A s \in Sources \ (First \cup srcs') : obj'[s] = {}
    BY <2>1, <2>2, <2>3 DEF OldInv
  <2> QED
    BY <2>1, <2>5, <2>6, SameOld DEF OldInv
<1>5. CASE UNCHANGED <<world, pch, obj>>
  <2>1. srcs' = srcs
    BY <1>5 DEF world
  <2> QED
    BY <1>5, <2>1, SameOld DEF OldInv
<1>6. \/ User \/ PchExecute \/ PchExecuteFails
      \/ \E p \in todo : CompileSource(p) \/ CompileSourceFails(p)
      \/ UNCHANGED <<world, pch, obj>>
  BY DEF Undisturbed, Next, Build, Tasks, Pch, PchSkip, PchCheck, PchHashFails,
     Objects, ObjectsSkip, SelectSources, ObjectHashFails, CompileJoin, Link,
     LinkSkip, LinkCheck, LinkHashFails, LinkExecute, LinkExecuteFails, End,
     EndClean, EndStore, EndStoreFails, RunBuild, OtherTaskFails, Interrupt,
     vars, outputs
<1> QED
  BY <1>1, <1>2, <1>3, <1>4, <1>5, <1>6

-----------------------------------------------------------------------------
(* What is known of the objects that are clean *)

(* An edit makes no object clean; what is clean after it did not depend on   *)
(* what was edited.                                                          *)
LEMMA CleanAfterEdit ==
  ASSUME Undisturbed, TypeOK, TypeOK', OldInv, User,
         NEW s \in srcs', IsClean(s)'
  PROVE  /\ s \in srcs /\ IsClean(s) /\ ver'[s] = ver[s]
         /\ Agree(cfg', cfg, ObjectCompared)
         /\ HasPch' = HasPch
         /\ HasPch => Agree(cfg', cfg, PchCompared)
<1> DEFINE o == CleanObject(s)'
<1>1. /\ \A f \in Fields : cfg[f] <= cfg'[f]
      /\ \A t \in Sources : ver[t] <= ver'[t]
      /\ srcs' \ srcs \subseteq Sources \ First
      /\ obj' = obj
      /\ cfg'["pch_object_flags"] = cfg["pch_object_flags"]
  BY UndisturbedUser, UserMovesForward DEF outputs
<1>2. /\ \A f \in Fields : cfg[f] \in Int /\ cfg'[f] \in Int /\ cfg[f] >= 0
      /\ \A t \in Sources : ver[t] \in Int /\ ver'[t] \in Int
      /\ PchInputs \subseteq Fields /\ ObjectInputs \subseteq Fields
      /\ s \in Sources /\ "pchs" \in PchInputs /\ "pchs" \in Fields
  BY OldTypes, VersionFacts, FieldFacts DEF TypeOK, WorldType
<1>3. obj[s] = {o}
  BY <1>1 DEF IsClean
<1>4. s \in srcs
  BY <1>1, <1>2, <1>3 DEF OldInv
<1>5. ObjectIsOld(o, s)
  BY <1>2, <1>3 DEF OldInv
<1>6. /\ o.src = ver'[s]
      /\ \A f \in ObjectInputs : o.in[f] = ObjectArg(f, cfg[f])'
      /\ o.pch = CleanPch'
  BY DEF CleanObject
<1> HIDE DEF o
<1>7. ver'[s] = ver[s]
  BY <1>1, <1>2, <1>5, <1>6 DEF ObjectIsOld
<1>8. HasPch' => HasPch /\ Agree(cfg', cfg, PchCompared)
  <2>1. SUFFICES ASSUME HasPch' PROVE HasPch /\ Agree(cfg', cfg, PchCompared)
    OBVIOUS
  <2>2. o.pch = {[f \in PchInputs |-> cfg'[f]]}
    BY <1>6, <2>1 DEF CleanPch, PchFrom
  <2>3. \A f \in PchInputs : cfg'[f] <= cfg[f]
    BY <1>5, <2>2 DEF ObjectIsOld, PchIsOld
  <2>4. \A f \in PchInputs : cfg'[f] = cfg[f]
    BY <1>1, <1>2, <2>3
  <2> QED
    BY <1>2, <2>1, <2>4, FieldFacts DEF HasPch, Agree
<1>9. HasPch => HasPch'
  BY <1>1, <1>2 DEF HasPch, Empty
<1>10. ASSUME NEW f \in ObjectInputs PROVE cfg'[f] = cfg[f]
  <2>1. CASE f = "pch_object_flags"
    BY <1>1, <2>1
  <2>2. CASE f # "pch_object_flags"
    <3>1. o.in[f] = cfg'[f]
      BY <1>6, <2>2 DEF ObjectArg
    <3> QED
      BY <1>1, <1>2, <1>5, <3>1 DEF ObjectIsOld
  <2> QED BY <2>1, <2>2
<1>11. HasPch' = HasPch
  BY <1>8, <1>9 DEF HasPch
<1>12. CleanPch' = CleanPch
  BY <1>8, <1>11, FieldFacts DEF CleanPch, PchFrom, Agree
<1>13. CleanObject(s)' = CleanObject(s)
  BY <1>7, <1>10, <1>11, <1>12 DEF CleanObject, ObjectArg
<1>14. IsClean(s)
  BY <1>1, <1>13 DEF IsClean
<1> QED
  BY <1>4, <1>7, <1>8, <1>9, <1>10, <1>11, <1>14, FieldFacts DEF Agree

LEMMA KnownAfterEdit ==
  ASSUME Undisturbed, TypeOK, TypeOK', OldInv, KnowInv, User
  PROVE  KnowInv'
<1>1. /\ phase = "idle" /\ phase' = "idle" /\ file' = file /\ dirty' = dirty
  BY UndisturbedUser DEF process
<1>2. FileKnows'
  <2>1. SUFFICES ASSUME NEW s \in srcs', IsClean(s)'
                 PROVE  \E r \in file : ObjectUpToDate(r, s)'
    BY <1>1 DEF FileKnows
  <2>2. /\ s \in srcs /\ IsClean(s) /\ ver'[s] = ver[s]
        /\ Agree(cfg', cfg, ObjectCompared)
        /\ HasPch' = HasPch
        /\ HasPch => Agree(cfg', cfg, PchCompared)
    BY <2>1, CleanAfterEdit
  <2>3. PICK r \in file : ObjectUpToDate(r, s)
    BY <1>1, <2>2 DEF KnowInv, FileKnows
  <2>4. ObjectUpToDate(r, s)'
    BY <2>2, <2>3 DEF ObjectUpToDate, PchUpToDate, Agree
  <2> QED BY <2>4
<1> QED
  BY <1>1, <1>2 DEF KnowInv

(* What is clean depends on the world and the objects. *)
LEMMA SameKnown ==
  ASSUME UNCHANGED <<world, obj>>
  PROVE  /\ NoneClean' = NoneClean
         /\ file' = file => FileKnows' = FileKnows
         /\ UNCHANGED <<user, store>> =>
              /\ HeldPch(UpdatedStore)' = HeldPch(UpdatedStore)
              /\ StoreKnows' = StoreKnows
<1>1. srcs' = srcs /\ cfg' = cfg /\ \A s : IsClean(s)' = IsClean(s)
  BY SameWorld DEF IsClean, world
<1>2. NoneClean' = NoneClean
  BY <1>1 DEF NoneClean
<1>3. file' = file => FileKnows' = FileKnows
  BY <1>1, SameWorld DEF FileKnows
<1>4. UNCHANGED <<user, store>> => UpdatedStore' = UpdatedStore
  BY DEF UpdatedStore
<1>5. UNCHANGED <<user, store>> =>
        /\ HeldPch(UpdatedStore)' = HeldPch(UpdatedStore)
        /\ StoreKnows' = StoreKnows
  BY <1>1, <1>4, SameHeld, SameWorld DEF StoreKnows
<1> QED
  BY <1>2, <1>3, <1>5

LEMMA BuildKnows ==
  ASSUME KnowInv, Build
  PROVE  KnowInv'
<1>1. /\ phase = "idle" /\ ~dirty' /\ UNCHANGED <<world, obj, file>>
      /\ phase' = IF HasPch THEN "pch" ELSE "objects"
  BY DEF Build, outputs
<1>2. FileKnows'
  BY <1>1, SameKnown DEF KnowInv
<1>3. ~HasPch => HeldPch(UpdatedStore)'
  BY <1>1, SameWorld DEF HeldPch
<1> QED
  BY <1>1, <1>2, <1>3 DEF KnowInv

(* The Pch task becomes dirty only when no object is clean. *)
LEMMA PchChangedNoneClean ==
  ASSUME SkipInv, phase = "pch", FileKnows, NEW u, Agree(u, cfg, PchCompared),
         PchChanged(u)
  PROVE  NoneClean
<1>1. HasPch /\ load = file /\ \A r1, r2 \in file : r1 = r2
  BY DEF SkipInv, PhaseInv, ReadInv
<1>2. ASSUME NEW r \in file, PchUpToDate(r) PROVE FALSE
  <2>1. load = {r}
    BY <1>1, <1>2
  <2> QED
    BY <1>2, <2>1 DEF PchChanged, PchUpToDate, Agree
<1> QED
  BY <1>1, <1>2 DEF NoneClean, FileKnows, ObjectUpToDate

LEMMA PchKnows ==
  ASSUME TypeOK, TypeOK', SkipInv, KnowInv, Pch
  PROVE  KnowInv'
<1>0. /\ UNCHANGED <<world, obj, file>> /\ phase \in {"pch", "pch_exec"}
      /\ phase' \in {"pch_exec", "objects"}
  BY DEF Pch, PchSkip, PchCheck, PchHashFails, PchExecute, PchExecuteFails,
     outputs
<1>1. FileKnows /\ FileKnows' /\ NoneClean' = NoneClean
  BY <1>0, SameKnown DEF KnowInv
<1>2. CASE PchSkip \/ PchHashFails
  <2>1. phase = "pch" /\ phase' = "objects" /\ dirty' = dirty /\ taskState' = "FAILURE"
    BY <1>2 DEF PchSkip, PchHashFails, Fail, process
  <2> QED
    BY <1>1, <2>1 DEF KnowInv
<1>3. CASE PchCheck
  <2> DEFINE u == Hashed({"headers", "pchs"})
  <2>1. /\ phase = "pch" /\ user' = u /\ dirty' = PchChanged(u)
        /\ \/ PchChanged(u) /\ phase' = "pch_exec"
           \/ ~PchChanged(u) /\ phase' = "objects" /\ store' = PchCompiled(u)
    BY <1>3 DEF PchCheck
  <2>2. Agree(u, cfg, PchCompared)
    BY <2>1, ReadsTheWorld, FieldFacts DEF Agree
  <2> HIDE DEF u
  <2>3. cfg' = cfg
    BY <1>0 DEF world
  <2>4. CASE PchChanged(u)
    <3>1. NoneClean
      BY <1>1, <2>1, <2>2, <2>4, PchChangedNoneClean
    <3> QED
      BY <1>1, <2>1, <2>2, <2>3, <2>4, <3>1 DEF KnowInv
  <2>5. CASE ~PchChanged(u)
    <3>1. store'.pchs = u["pchs"] /\ store'.pch_compiled
      BY <2>1, <2>5 DEF PchCompiled, TypeOK, ProcessType, Recorded
    <3>2. Agree(UpdatedStore'.cfg, cfg', PchCompared)
      BY <2>1, <2>2, <2>3, <3>1, UpdatedStoreFieldsNext, FieldFacts DEF Agree
    <3>3. HeldPch(UpdatedStore)'
      BY <3>1, <3>2, UpdatedStoreFieldsNext DEF HeldPch, PchUpToDate
    <3> QED
      BY <1>1, <2>1, <2>5, <3>3 DEF KnowInv
  <2> QED BY <2>4, <2>5
<1>4. CASE PchExecute
  <2>1. /\ phase = "pch_exec" /\ phase' = "objects" /\ dirty' = dirty
        /\ user' = user /\ store' = PchCompiled(user)
    BY <1>4 DEF PchExecute
  <2>2. Agree(user, cfg, PchCompared) /\ (dirty => NoneClean)
    BY <2>1 DEF KnowInv
  <2>3. store'.pchs = user["pchs"] /\ store'.pch_compiled
    BY <2>1 DEF PchCompiled, TypeOK, ProcessType, Recorded
  <2>4. cfg' = cfg
    BY <1>0 DEF world
  <2>5. Agree(UpdatedStore'.cfg, cfg', PchCompared)
    BY <2>1, <2>2, <2>3, <2>4, UpdatedStoreFieldsNext, FieldFacts DEF Agree
  <2>6. HeldPch(UpdatedStore)'
    BY <2>3, <2>5, UpdatedStoreFieldsNext DEF HeldPch, PchUpToDate
  <2> QED
    BY <1>1, <2>1, <2>2, <2>6 DEF KnowInv
<1>5. CASE PchExecuteFails
  <2>1. /\ phase = "pch_exec" /\ phase' = "objects" /\ dirty' = dirty
        /\ taskState' = "FAILURE"
    BY <1>5 DEF PchExecuteFails, Fail, process
  <2> QED
    BY <1>1, <2>1 DEF KnowInv
<1> QED BY <1>2, <1>3, <1>4, <1>5 DEF Pch

(* What is given a subtask is not clean. *)
LEMMA SelectedNotClean ==
  ASSUME SkipInv, FileKnows, phase = "objects", dirty => NoneClean,
         NEW u, Agree(u, cfg, ObjectCompared)
  PROVE  /\ dirty \/ ObjectChanged(u) => NoneClean
         /\ \A p \in AddedOrUpdated : ~IsClean(p[1])
<1>1. load = file /\ \A r1, r2 \in file : r1 = r2
  BY DEF SkipInv, ReadInv
<1>2. ASSUME ObjectChanged(u) PROVE NoneClean
  <2>1. ASSUME NEW r \in file, NEW s, ObjectUpToDate(r, s) PROVE FALSE
    <3>1. load = {r}
      BY <1>1, <2>1
    <3> QED
      BY <1>2, <2>1, <3>1 DEF ObjectChanged, ObjectUpToDate, Agree
  <2> QED
    BY <2>1 DEF NoneClean, FileKnows
<1>3. ASSUME NEW p \in AddedOrUpdated, IsClean(p[1]) PROVE FALSE
  <2>1. p[1] \in srcs /\ p = <<p[1], ver[p[1]]>>
    BY <1>3 DEF AddedOrUpdated, Listed
  <2>2. PICK r \in file : ObjectUpToDate(r, p[1])
    BY <1>3, <2>1 DEF FileKnows
  <2> QED
    BY <1>1, <1>3, <2>1, <2>2 DEF ObjectUpToDate, AddedOrUpdated
<1> QED BY <1>2, <1>3

LEMMA SelectSourcesKnows ==
  ASSUME TypeOK, TypeOK', SkipInv, KnowInv, SelectSources
  PROVE  KnowInv'
<1> DEFINE u == Hashed({"headers", "compile_dependencies"})
           all == dirty \/ ObjectChanged(u)
           selected == IF all THEN Listed ELSE AddedOrUpdated
<1>0. /\ phase = "objects" /\ phase' = "compile" /\ taskState = "SUCCESS"
      /\ user' = u /\ todo' = selected
      /\ dirty' = (all \/ selected # {} \/ SourceRemoved)
      /\ store' = [store EXCEPT !.sources = Listed \ selected]
      /\ UNCHANGED <<world, obj, file>>
  BY DEF SelectSources, outputs
<1>1. /\ \A f \in Fields : u[f] \in {user[f], cfg[f]}
      /\ Agree(u, cfg, ObjectCompared)
  BY <1>0, ReadsTheWorld, FieldFacts DEF Agree
<1> HIDE DEF u
<1>2. FileKnows /\ HeldPch(UpdatedStore) /\ (dirty => NoneClean)
  BY <1>0 DEF KnowInv
<1>3. \A p \in selected : ~IsClean(p[1])
  BY <1>0, <1>1, <1>2, SelectedNotClean DEF NoneClean, Listed
<1>4. selected \subseteq Listed
  BY DEF AddedOrUpdated
<1> HIDE DEF selected
<1>5. /\ store'.pchs = store.pchs /\ store'.pch_compiled = store.pch_compiled
      /\ store'.sources = Listed \ selected
  BY <1>0 DEF TypeOK, ProcessType, Recorded
<1>6. HeldPch(UpdatedStore)'
  BY <1>0, <1>1, <1>2, <1>5, PchRecordStays, FieldFacts
<1>7. cfg' = cfg /\ srcs' = srcs /\ ver' = ver /\ \A s : IsClean(s)' = IsClean(s)
  BY <1>0, SameWorld DEF world, IsClean
<1>8. ReadAll'
  BY <1>0, <1>1, <1>6, <1>7 DEF ReadAll, Agree
<1>9. CleanAreRecorded'
  <2>1. SUFFICES ASSUME NEW s \in srcs, IsClean(s)
                 PROVE  /\ <<s, ver[s]>> \in Listed \ selected
                        /\ \A p \in selected : p[1] # s
    BY <1>0, <1>5, <1>7 DEF CleanAreRecorded
  <2>2. \A p \in selected : p[1] # s
    BY <1>3, <2>1
  <2>3. <<s, ver[s]>>[1] = s /\ <<s, ver[s]>> \in Listed
    BY DEF Listed
  <2> QED BY <2>2, <2>3
<1>10. \A p \in todo' : p[2] = ver'[p[1]]
  BY <1>0, <1>4, <1>7 DEF Listed
<1>11. FileKnows'
  BY <1>0, <1>2, SameKnown
<1>12. ~dirty' => todo' = {}
  BY <1>0
<1> QED
  BY <1>0, <1>8, <1>9, <1>10, <1>11, <1>12 DEF KnowInv

LEMMA CompileSourceKnows ==
  ASSUME TypeOK, TypeOK', SkipInv, KnowInv, NEW p \in todo,
         CompileSource(p) \/ CompileSourceFails(p)
  PROVE  KnowInv'
<1>1. /\ phase = "compile" /\ phase' = "compile" /\ todo' = todo \ {p}
      /\ UNCHANGED <<world, user, dirty>>
      /\ store'.pchs = store.pchs /\ store'.pch_compiled = store.pch_compiled
      /\ store.sources \subseteq store'.sources
  BY DEF CompileSource, CompileSourceFails, TypeOK, ProcessType, Recorded
<1>2. /\ p[1] \in srcs /\ p[1] \in Sources
      /\ \A q \in todo : q[1] = p[1] => q = p
  BY <1>1, SubtaskFacts
<1>3. ReadAll /\ CleanAreRecorded /\ dirty /\ (\A q \in todo : q[2] = ver[q[1]])
  BY <1>1 DEF KnowInv
<1>4. cfg' = cfg /\ srcs' = srcs /\ ver' = ver /\ \A s : CleanObject(s)' = CleanObject(s)
  BY <1>1, SameWorld DEF world
<1>5. HeldPch(UpdatedStore)'
  BY <1>1, <1>3, PchRecordStays DEF ReadAll
<1>6. ReadAll'
  BY <1>1, <1>3, <1>4, <1>5 DEF ReadAll
<1>7. \A s \in srcs : s # p[1] => obj'[s] = obj[s]
  BY DEF CompileSource, CompileSourceFails, TypeOK, OutputType, WorldType
<1>8. ASSUME NEW s \in srcs, IsClean(s)'
      PROVE  <<s, ver[s]>> \in store'.sources /\ \A q \in todo' : q[1] # s
  <2>1. CASE s # p[1]
    BY <1>1, <1>3, <1>4, <1>7, <1>8, <2>1 DEF IsClean, CleanAreRecorded
  <2>2. CASE s = p[1] /\ CompileSource(p)
    <3>1. p \in store'.sources
      BY <2>2 DEF CompileSource, TypeOK, ProcessType, Recorded
    <3>2. p = <<p[1], p[2]>>
      BY DEF TypeOK, ProcessType
    <3>3. <<s, ver[s]>> \in store'.sources
      BY <1>3, <2>2, <3>1, <3>2
    <3> QED
      BY <1>1, <1>2, <2>2, <3>3
  <2>3. CASE s = p[1] /\ CompileSourceFails(p)
    <3>1. obj'[s] \in {obj[s], {}}
      BY <1>2, <2>3 DEF CompileSourceFails, TypeOK, OutputType
    <3>2. IsClean(s)
      BY <1>4, <1>8, <3>1 DEF IsClean
    <3> QED
      BY <1>3, <2>3, <3>2 DEF CleanAreRecorded
  <2> QED BY <2>1, <2>2, <2>3
<1>9. CleanAreRecorded'
  BY <1>4, <1>8 DEF CleanAreRecorded
<1>10. \A q \in todo' : q[2] = ver'[q[1]]
  BY <1>1, <1>3, <1>4
<1> QED
  BY <1>1, <1>3, <1>6, <1>9, <1>10 DEF KnowInv

(* All subtasks done, what is recorded is what a clean object needs. *)
LEMMA CompileJoinKnows ==
  ASSUME TypeOK, KnowInv, CompileJoin
  PROVE  KnowInv'
<1>1. /\ phase = "compile" /\ phase' = "link"
      /\ UNCHANGED <<world, obj, file, user, store, dirty, taskState>>
  BY DEF CompileJoin, outputs, process
<1>2. ReadAll /\ CleanAreRecorded /\ (~dirty => FileKnows)
  BY <1>1 DEF KnowInv
<1>3. Agree(UpdatedStore.cfg, cfg, ObjectCompared)
  BY <1>2, UpdatedStoreFields, FieldFacts DEF ReadAll, Agree
<1>4. StoreKnows
  BY <1>2, <1>3, UpdatedStoreFields
     DEF StoreKnows, ObjectUpToDate, ReadAll, CleanAreRecorded, HeldPch
<1> QED
  BY <1>1, <1>2, <1>4, SameKnown DEF KnowInv

(* The tasks that pass on, and those that fail before their tool is run. *)
LEMMA ObjectsKnows ==
  ASSUME TypeOK, TypeOK', SkipInv, KnowInv, Objects
  PROVE  KnowInv'
<1>1. CASE ObjectsSkip \/ ObjectHashFails
  <2>1. /\ phase = "objects" /\ phase' = "link" /\ taskState' = "FAILURE"
        /\ UNCHANGED <<world, obj, file, dirty>>
    BY <1>1 DEF ObjectsSkip, ObjectHashFails, Fail, outputs, process
  <2>2. FileKnows' /\ (dirty' => NoneClean')
    BY <2>1, SameKnown DEF KnowInv
  <2>3. NoneClean' => StoreKnows'
    BY DEF NoneClean, StoreKnows
  <2> QED
    BY <2>1, <2>2, <2>3 DEF KnowInv
<1> QED
  BY <1>1, SelectSourcesKnows, CompileSourceKnows, CompileJoinKnows DEF Objects

(* What the Target task reads and records says nothing of the objects. *)
LEMMA LinkKnows ==
  ASSUME TypeOK, TypeOK', SkipInv, KnowInv, Link
  PROVE  KnowInv'
<1>1. /\ UNCHANGED <<world, obj, file>> /\ phase \in {"link", "link_exec"}
      /\ phase' \in {"link_exec", "end"}
      /\ store'.pchs = store.pchs /\ store'.pch_compiled = store.pch_compiled
      /\ store'.sources = store.sources
      /\ \A f \in PchCompared \cup ObjectCompared : user'[f] = user[f]
  <2>1. \A f \in PchCompared \cup ObjectCompared :
          f \in Fields /\ f \notin {"libs", "link_dependencies"}
    BY FieldFacts
  <2>2. \A S \in SUBSET {"libs", "link_dependencies"} :
          \A f \in PchCompared \cup ObjectCompared : Hashed(S)[f] = user[f]
    BY <2>1 DEF Hashed
  <2> QED
    BY <2>2 DEF Link, LinkSkip, LinkCheck, LinkHashFails, LinkExecute,
       LinkExecuteFails, outputs, process, TypeOK, ProcessType, Recorded
<1>2. cfg' = cfg /\ srcs' = srcs /\ ver' = ver /\ HasPch' = HasPch
      /\ \A s : IsClean(s)' = IsClean(s)
  BY <1>1, SameWorld DEF world, IsClean
<1>3. StoreKnows => StoreKnows'
  <2>1. \A f \in PchCompared \cup ObjectCompared : f \in Fields
    BY FieldFacts
  <2>2. \A f \in PchCompared \cup ObjectCompared :
          UpdatedStore'.cfg[f] = UpdatedStore.cfg[f]
    BY <1>1, <2>1, UpdatedStoreFields, UpdatedStoreFieldsNext
  <2>3. /\ UpdatedStore'.pch_compiled = UpdatedStore.pch_compiled
        /\ UpdatedStore'.sources = UpdatedStore.sources
    BY <1>1, UpdatedStoreFields, UpdatedStoreFieldsNext
  <2>4. \A s : ObjectUpToDate(UpdatedStore, s) => ObjectUpToDate(UpdatedStore, s)'
    BY <1>2, <2>2, <2>3 DEF ObjectUpToDate, PchUpToDate, Agree
  <2> QED
    BY <1>2, <2>4 DEF StoreKnows
<1>4. FileKnows' = FileKnows
  BY <1>1, SameKnown
<1>5. (dirty => dirty') /\ (~dirty' => ~dirty) /\ (dirty' => StoreKnows)
      /\ (phase' = "link_exec" => dirty')
  <2>1. CASE LinkSkip
    BY <2>1 DEF LinkSkip, KnowInv, process
  <2>2. CASE LinkCheck
    BY <2>2 DEF LinkCheck, KnowInv
  <2>3. CASE LinkHashFails
    BY <2>3 DEF LinkHashFails, KnowInv
  <2>4. CASE LinkExecute
    BY <2>4 DEF LinkExecute, KnowInv
  <2>5. CASE LinkExecuteFails
    BY <2>5 DEF LinkExecuteFails, KnowInv, process
  <2> QED BY <2>1, <2>2, <2>3, <2>4, <2>5 DEF Link
<1> QED
  BY <1>1, <1>3, <1>4, <1>5 DEF KnowInv

LEMMA EndKnows ==
  ASSUME Undisturbed, KnowInv, End
  PROVE  KnowInv'
<1>1. /\ phase = "end" /\ phase' = "exit" /\ UNCHANGED <<world, obj, dirty>>
      /\ \/ ~dirty /\ file' = file
         \/ dirty /\ file' = {UpdatedStore}
  BY DEF Undisturbed, End, EndClean, EndStore, EndStoreFails, outputs, process
<1>2. FileKnows'
  <2>1. CASE ~dirty /\ file' = file
    BY <1>1, <2>1, SameKnown DEF KnowInv
  <2>2. CASE dirty /\ file' = {UpdatedStore}
    <3>1. StoreKnows
      BY <1>1, <2>2 DEF KnowInv
    <3>2. srcs' = srcs /\ \A s : IsClean(s)' = IsClean(s)
      BY <1>1, SameWorld DEF world, IsClean
    <3> QED
      BY <1>1, <2>2, <3>1, <3>2, SameWorld DEF StoreKnows, FileKnows
  <2> QED BY <1>1, <2>1, <2>2
<1> QED
  BY <1>1, <1>2 DEF KnowInv

LEMMA ProcessKnows ==
  ASSUME KnowInv, RunBuild \/ OtherTaskFails \/ UNCHANGED vars
  PROVE  KnowInv'
<1>1. UNCHANGED <<world, obj, file>>
  BY DEF RunBuild, OtherTaskFails, vars, outputs
<1>2. FileKnows' = FileKnows /\ NoneClean' = NoneClean
  BY <1>1, SameKnown
<1>3. CASE RunBuild
  BY <1>2, <1>3 DEF RunBuild, ProcessGone, KnowInv
<1>4. CASE OtherTaskFails \/ UNCHANGED vars
  <2>1. UNCHANGED <<phase, user, store, dirty, todo>>
        /\ (taskState' = "SUCCESS" => taskState = "SUCCESS")
    BY <1>4 DEF OtherTaskFails, Fail, vars, process
  <2>2. /\ HeldPch(UpdatedStore)' = HeldPch(UpdatedStore)
        /\ StoreKnows' = StoreKnows
    BY <1>1, <2>1, SameKnown
  <2>3. cfg' = cfg /\ srcs' = srcs /\ ver' = ver /\ \A s : IsClean(s)' = IsClean(s)
    BY <1>1, SameWorld DEF world, IsClean
  <2>4. ReadAll' = ReadAll /\ CleanAreRecorded' = CleanAreRecorded
    BY <2>1, <2>2, <2>3 DEF ReadAll, CleanAreRecorded, Agree
  <2> QED
    BY <1>2, <2>1, <2>2, <2>3, <2>4 DEF KnowInv
<1> QED BY <1>3, <1>4

LEMMA KnowStep ==
  ASSUME Undisturbed, TypeOK, TypeOK', SkipInv, OldInv, KnowInv, [Next]_vars
  PROVE  KnowInv'
<1>1. ~Interrupt
  BY DEF Undisturbed, Interrupt
<1> QED
  BY <1>1, KnownAfterEdit, BuildKnows, PchKnows, ObjectsKnows, LinkKnows, EndKnows,
     ProcessKnows DEF Next, Tasks

(* A subtask of a source leaves todo only by running, and what it runs for   *)
(* is not clean.                                                             *)
LEMMA CompiledWasDue ==
  ASSUME Undisturbed, OnceMoreInv, [Next]_vars
  PROVE  \A p \in todo \ todo' : obj[p[1]] # {CleanObject(p[1])}
<1>1. SUFFICES ASSUME NEW p \in todo, p \notin todo' PROVE ~IsClean(p[1])
  BY DEF IsClean
<1>2. phase = "compile"
  BY <1>1 DEF OnceMoreInv, SkipInv, PhaseInv
<1>3. p[1] \in srcs
  BY <1>1 DEF OnceMoreInv, SkipInv, TodoInv
<1> QED
  BY <1>1, <1>2, <1>3 DEF OnceMoreInv, KnowInv, CleanAreRecorded

(* A source is compiled only if its object is not the one a build from       *)
(* nothing would make: what a run that failed did compile is not compiled    *)
(* again, and nothing is for an edit that does not concern it. (The          *)
(* comparisons of CompilePch and CompileObject, RecompileSources, and        *)
(* UpdateStore in the End task.)                                             *)
THEOREM NothingIsRecompiled ==
  ASSUME Undisturbed
  PROVE  Spec => NoRedundantCompile
<1>1. Undisturbed /\ Dependable
  BY DEF Undisturbed, Forward, Dependable
<1>2. Init => OnceMoreInv
  BY InitType, InitKeeps, OnceMoreInit DEF OnceMoreInv
<1>3. OnceMoreInv /\ SafeInv' /\ [Next]_vars => OnceMoreInv'
  BY <1>1, OldStep, KnowStep DEF OnceMoreInv, SafeInv
<1>4. OnceMoreInv /\ [Next]_vars =>
        [\A p \in todo \ todo' : obj[p[1]] # {CleanObject(p[1])}]_vars
  BY <1>1, CompiledWasDue
<1>5. Spec => []SafeInv
  BY <1>1, SafeInvHolds
<1> QED
  BY <1>2, <1>3, <1>4, <1>5, PTL DEF Spec, NoRedundantCompile
=============================================================================
