-------------------------- MODULE TargetBuildSafety --------------------------
(***************************************************************************)
(* TargetBuild keeps its types, and no run skips work it had to do, for any*)
(* sources, edits and bounds.  SkipInv is the inductive invariant of the   *)
(* second; each action of TargetBuild has a lemma that says it keeps it.   *)
(***************************************************************************)
EXTENDS TargetBuildInvariant, TLAPS

(* What the lists of compared fields and of inputs have to do with each      *)
(* other: this is all the rest of the proofs needs to know about them.       *)
LEMMA FieldFacts ==
  /\ PchInputs = PchCompared
  /\ ObjectInputs = ObjectCompared
  /\ LinkInputs = LinkCompared
  /\ PchCompared \subseteq FlagFields \cup {"headers", "pchs"}
  /\ ObjectCompared \subseteq FlagFields \cup {"headers", "compile_dependencies"}
  /\ LinkCompared \subseteq FlagFields \cup {"libs", "link_dependencies"}
  /\ FlagFields \cap FileFields = {}
  /\ Fields = FlagFields \cup FileFields
  /\ {"headers", "pchs", "compile_dependencies", "libs", "link_dependencies"}
       = FileFields
  /\ "pchs" \in PchCompared /\ "pchs" \notin ObjectCompared
  /\ LinkCompared \cap (PchCompared \cup ObjectCompared) = {}
  /\ "headers" \in PchCompared
  <1>1. /\ PchInputs = PchCompared
        /\ ObjectInputs = ObjectCompared
        /\ LinkInputs = LinkCompared
    BY DEF PchInputs, PchCompared, ObjectInputs, ObjectCompared, LinkInputs,
           LinkCompared
  <1>2. /\ PchCompared \subseteq FlagFields \cup {"headers", "pchs"}
        /\ ObjectCompared
             \subseteq FlagFields \cup {"headers", "compile_dependencies"}
        /\ LinkCompared \subseteq FlagFields \cup {"libs", "link_dependencies"}
    BY DEF PchCompared, ObjectCompared, LinkCompared, FlagFields
  <1>3. /\ FlagFields \cap FileFields = {}
        /\ Fields = FlagFields \cup FileFields
    BY DEF FlagFields, FileFields, Fields
  <1>4. LinkCompared \cap (PchCompared \cup ObjectCompared) = {}
    BY DEF PchCompared, ObjectCompared, LinkCompared
  <1>5. /\ "pchs" \in PchCompared /\ "pchs" \notin ObjectCompared
        /\ "headers" \in PchCompared
        /\ {"headers", "pchs", "compile_dependencies", "libs",
            "link_dependencies"} = FileFields
    BY DEF PchCompared, ObjectCompared, FileFields
  <1>6. QED BY <1>1, <1>2, <1>3, <1>4, <1>5


-----------------------------------------------------------------------------
(* Type correctness *)

LEMMA VersionFacts ==
  /\ Version \subseteq Int /\ Value \subseteq Int
  /\ Version \subseteq Value
  /\ Empty \in Version /\ Empty \in Value /\ Unhashed \in Value
  /\ \A v \in Value : v \in Version \/ v < 0
  /\ \A v \in Version : v >= 0 /\ v <= MaxVersion
  /\ \A v \in Version : v < MaxVersion => v + 1 \in Version
  /\ Timestamp \subseteq Int
  /\ \A t \in Timestamp : t < MaxSaved => t + 1 \in Timestamp
  BY BoundsAssumption DEF Version, Value, Empty, Unhashed, Timestamp

(* Reading files keeps the fields what they are: values. *)
LEMMA HashedType ==
  ASSUME TypeOK, NEW S
  PROVE  Hashed(S) \in [Fields -> Value]
  BY VersionFacts DEF TypeOK, WorldType, ProcessType, Hashed

LEMMA ArgType ==
  ASSUME TypeOK, NEW f \in Fields
  PROVE  Arg(f) \in Value
  BY VersionFacts DEF TypeOK, WorldType, ProcessType, Arg

LEMMA InputsAreFields ==
  PchInputs \subseteq Fields /\ ObjectInputs \subseteq Fields
    /\ LinkInputs \subseteq Fields
  BY FieldFacts

LEMMA EmptyStoreType == EmptyStore \in Recorded
  BY VersionFacts DEF EmptyStore, Recorded

LEMMA InitType == Init => TypeOK
  <1> SUFFICES ASSUME Init PROVE TypeOK
    OBVIOUS
  <1>1. WorldType
    <2>1. 0..1 \subseteq Version /\ 0 \in Timestamp
      BY BoundsAssumption DEF Version, Timestamp
    <2>2. cfg \in [Fields -> Version]
      BY <2>1 DEF Init
    <2>3. QED
      BY <2>1, <2>2, FirstAssumption DEF Init, WorldType
  <1>2. OutputType
    BY DEF Init, OutputType
  <1>3. ProcessType
    BY VersionFacts, EmptyStoreType DEF Init, ProcessType, NothingRead
  <1>4. ControlType
    <2>1. dirty \in BOOLEAN
      BY DEF Init
    <2>2. calm \in 0..2
      BY DEF Init
    <2>3. QED
      BY <2>1, <2>2 DEF Init, ControlType, Phases
  <1>5. QED
    BY <1>1, <1>2, <1>3, <1>4 DEF TypeOK

(* A user's step changes the world and calm only. *)
LEMMA UserType == TypeOK /\ User => TypeOK'
  <1> SUFFICES ASSUME TypeOK, User PROVE TypeOK'
    OBVIOUS
  <1>1. WorldType'
    <2>1. ASSUME NEW f \in Fields, EditField(f) PROVE WorldType'
      BY <2>1, VersionFacts
         DEF TypeOK, WorldType, EditField, NewValues
    <2>2. ASSUME NEW f \in Fields, SaveListedFile(f) PROVE WorldType'
      BY <2>2, VersionFacts DEF TypeOK, WorldType, SaveListedFile
    <2>3. ASSUME NEW s \in Sources, SaveSource(s) PROVE WorldType'
      BY <2>3, VersionFacts DEF TypeOK, WorldType, SaveSource
    <2>4. ASSUME NEW s \in Sources, RemoveSource(s) \/ ListSource(s)
          PROVE WorldType'
      BY <2>4 DEF TypeOK, WorldType, RemoveSource, ListSource
    <2>5. QED
      BY <2>1, <2>2, <2>3, <2>4 DEF User
  <1>2. /\ calm' = 0
        /\ UNCHANGED <<outputs, file, phase, process, taskState, last>>
    BY DEF User, EditField, SaveListedFile, SaveSource, RemoveSource,
           ListSource
  <1>3. OutputType'
    BY <1>2 DEF TypeOK, OutputType, outputs
  <1>4. ProcessType'
    BY <1>2 DEF TypeOK, ProcessType, process
  <1>5. ControlType'
    <2>1. UNCHANGED <<phase, dirty, taskState, last>> /\ calm' \in 0..2
      BY <1>2 DEF process
    <2>2. QED
      BY <2>1 DEF TypeOK, ControlType
  <1>6. QED
    BY <1>1, <1>3, <1>4, <1>5 DEF TypeOK

LEMMA BuildType == TypeOK /\ Build => TypeOK'
  <1> SUFFICES ASSUME TypeOK, Build PROVE TypeOK'
    OBVIOUS
  <1>1. WorldType' /\ OutputType'
    BY DEF TypeOK, Build, WorldType, OutputType, world, outputs
  <1>2. user' \in [Fields -> Value]
    BY VersionFacts DEF TypeOK, WorldType, Build, Unread
  <1>3. ProcessType'
    BY <1>2, EmptyStoreType DEF TypeOK, ProcessType, Build
  <1>4. ControlType'
    <2>1. dirty' \in BOOLEAN
      BY DEF Build
    <2>2. calm' \in 0..2
      BY DEF Build
    <2>3. phase' \in Phases
      BY DEF Build, Phases
    <2>4. QED
      BY <2>1, <2>2, <2>3 DEF TypeOK, ControlType, Build
  <1>5. QED
    BY <1>1, <1>3, <1>4 DEF TypeOK

LEMMA PchCompiledType ==
  ASSUME store \in Recorded, NEW u \in [Fields -> Value]
  PROVE  PchCompiled(u) \in Recorded
  BY FieldFacts DEF Recorded, PchCompiled

LEMMA PchType == TypeOK /\ Pch => TypeOK'
  <1> SUFFICES ASSUME TypeOK, Pch PROVE TypeOK'
    OBVIOUS
  <1> USE DEF TypeOK
  <1>1. WorldType'
    BY DEF Pch, PchSkip, PchCheck, PchHashFails, PchExecute, PchExecuteFails,
           WorldType, world
  <1>2. OutputType'
    <2>1. CASE PchExecute
      <3>1. PchFrom([f \in Fields |-> Arg(f)]) \subseteq PchFile
        BY ArgType, InputsAreFields DEF PchFrom, PchFile
      <3>2. QED
        BY <2>1, <3>1 DEF PchExecute, OutputType
    <2>2. CASE PchExecuteFails
      BY <2>2 DEF PchExecuteFails, OutputType
    <2>3. CASE PchSkip \/ PchCheck \/ PchHashFails
      BY <2>3 DEF PchSkip, PchCheck, PchHashFails, OutputType, outputs
    <2>4. QED
      BY <2>1, <2>2, <2>3 DEF Pch
  <1>3. ProcessType'
    <2>1. CASE PchCheck
      <3>1. user' \in [Fields -> Value] /\ user' = Hashed({"headers", "pchs"})
        BY <2>1, HashedType DEF PchCheck
      <3>2. store' = store \/ store' = PchCompiled(user')
        BY <2>1, <3>1 DEF PchCheck
      <3>3. store' \in Recorded
        BY <3>1, <3>2, PchCompiledType DEF ProcessType
      <3>4. UNCHANGED <<file, load, todo>>
        BY <2>1 DEF PchCheck
      <3>5. QED
        BY <3>1, <3>3, <3>4 DEF ProcessType
    <2>2. CASE PchExecute
      BY <2>2, PchCompiledType DEF PchExecute, ProcessType
    <2>3. CASE PchHashFails
      BY <2>3, HashedType DEF PchHashFails, ProcessType
    <2>4. CASE PchSkip \/ PchExecuteFails
      BY <2>4 DEF PchSkip, PchExecuteFails, ProcessType, process
    <2>5. QED
      BY <2>1, <2>2, <2>3, <2>4 DEF Pch
  <1>4. ControlType'
    BY DEF Pch, PchSkip, PchCheck, PchHashFails, PchExecute, PchExecuteFails,
           PchChanged, ControlType, Phases, Fail, process
  <1>5. QED
    BY <1>1, <1>2, <1>3, <1>4

LEMMA ObjectsType == TypeOK /\ Objects => TypeOK'
  <1> SUFFICES ASSUME TypeOK, Objects PROVE TypeOK'
    OBVIOUS
  <1> USE DEF TypeOK
  <1>0. Listed \subseteq Sources \X Timestamp
    BY DEF Listed, WorldType
  <1>1. WorldType'
    BY DEF Objects, ObjectsSkip, SelectSources, ObjectHashFails, CompileSource,
           CompileSourceFails, CompileJoin, WorldType, world
  <1>2. OutputType'
    <2>1. ASSUME NEW p \in todo, CompileSource(p) PROVE OutputType'
      <3> DEFINE made == [src |-> ver[p[1]],
                          in  |-> [f \in ObjectInputs |-> ObjectArg(f, Arg(f))],
                          pch |-> IF HasPch THEN pch ELSE {}]
      <3>1. p[1] \in Sources
        BY DEF ProcessType
      <3>2. [f \in ObjectInputs |-> ObjectArg(f, Arg(f))]
              \in [ObjectInputs -> Value]
        BY ArgType, InputsAreFields, VersionFacts DEF ObjectArg
      <3>3. made \in ObjectFile
        BY <3>1, <3>2 DEF ObjectFile, WorldType, OutputType
      <3>4. obj' = [obj EXCEPT ![p[1]] = {made}] /\ UNCHANGED <<pch, bin>>
        BY <2>1 DEF CompileSource
      <3> HIDE DEF made
      <3>5. obj' \in [Sources -> SUBSET ObjectFile]
        BY <3>3, <3>4 DEF OutputType
      <3>6. QED
        BY <3>4, <3>5 DEF OutputType
    <2>2. ASSUME NEW p \in todo, CompileSourceFails(p) PROVE OutputType'
      <3>1. PICK left \in {obj[p[1]], {}} : obj' = [obj EXCEPT ![p[1]] = left]
        BY <2>2 DEF CompileSourceFails
      <3>2. p[1] \in Sources
        BY DEF ProcessType
      <3>3. obj' \in [Sources -> SUBSET ObjectFile]
        BY <3>1, <3>2 DEF OutputType
      <3>4. QED
        BY <2>2, <3>3 DEF CompileSourceFails, OutputType
    <2>3. CASE ObjectsSkip \/ SelectSources \/ ObjectHashFails \/ CompileJoin
      BY <2>3 DEF ObjectsSkip, SelectSources, ObjectHashFails, CompileJoin,
                  OutputType, outputs
    <2>4. QED
      BY <2>1, <2>2, <2>3 DEF Objects
  <1>3. ProcessType'
    <2>1. CASE SelectSources
      <3>1. user' \in [Fields -> Value]
        BY <2>1, HashedType DEF SelectSources
      <3>2. todo' \subseteq Listed
        BY <2>1 DEF SelectSources, AddedOrUpdated
      <3>3. store' \in Recorded
        BY <2>1, <1>0 DEF SelectSources, ProcessType, Recorded
      <3>4. QED
        BY <2>1, <1>0, <3>1, <3>2, <3>3 DEF SelectSources, ProcessType
    <2>2. CASE ObjectHashFails
      BY <2>2, HashedType DEF ObjectHashFails, ProcessType
    <2>3. ASSUME NEW p \in todo, CompileSource(p) PROVE ProcessType'
      BY <2>3 DEF CompileSource, ProcessType, Recorded
    <2>4. ASSUME NEW p \in todo, CompileSourceFails(p) PROVE ProcessType'
      BY <2>4 DEF CompileSourceFails, ProcessType
    <2>5. CASE ObjectsSkip \/ CompileJoin
      BY <2>5 DEF ObjectsSkip, CompileJoin, ProcessType, process
    <2>6. QED
      BY <2>1, <2>2, <2>3, <2>4, <2>5 DEF Objects
  <1>4. ControlType'
    <2>1. CASE SelectSources
      BY <2>1 DEF SelectSources, ObjectChanged, SourceRemoved, ControlType,
                  Phases
    <2>2. CASE ObjectsSkip \/ ObjectHashFails \/ CompileJoin
      BY <2>2 DEF ObjectsSkip, ObjectHashFails, CompileJoin, ControlType,
                  Phases, Fail, process
    <2>3. ASSUME NEW p \in todo, CompileSource(p) \/ CompileSourceFails(p)
          PROVE ControlType'
      BY <2>3 DEF CompileSource, CompileSourceFails, ControlType, Fail
    <2>4. QED
      BY <2>1, <2>2, <2>3 DEF Objects
  <1>5. QED
    BY <1>1, <1>2, <1>3, <1>4

LEMMA LinkType == TypeOK /\ Link => TypeOK'
  <1> SUFFICES ASSUME TypeOK, Link PROVE TypeOK'
    OBVIOUS
  <1> USE DEF TypeOK
  <1>1. WorldType'
    BY DEF Link, LinkSkip, LinkCheck, LinkHashFails, LinkExecute,
           LinkExecuteFails, WorldType, world
  <1>2. OutputType'
    <2>1. CASE LinkExecute
      <3>1. [f \in LinkInputs |-> Arg(f)] \in [LinkInputs -> Value]
        BY ArgType, InputsAreFields
      <3>2. [s \in srcs |-> obj[s]] \in [srcs -> SUBSET ObjectFile]
        BY DEF OutputType, WorldType
      <3>3. srcs \in SUBSET Sources
        BY DEF WorldType
      <3> DEFINE made == [in   |-> [f \in LinkInputs |-> Arg(f)],
                          objs |-> [s \in srcs |-> obj[s]]]
      <3>4. /\ made.in \in [LinkInputs -> Value]
            /\ \E S \in SUBSET Sources : made.objs \in [S -> SUBSET ObjectFile]
        BY <3>1, <3>2, <3>3
      <3>5. bin' = {made} /\ UNCHANGED <<pch, obj>>
        BY <2>1 DEF LinkExecute
      <3> HIDE DEF made
      <3>6. QED
        BY <3>4, <3>5 DEF OutputType
    <2>2. CASE LinkExecuteFails
      BY <2>2 DEF LinkExecuteFails, OutputType
    <2>3. CASE LinkSkip \/ LinkCheck \/ LinkHashFails
      BY <2>3 DEF LinkSkip, LinkCheck, LinkHashFails, OutputType, outputs
    <2>4. QED
      BY <2>1, <2>2, <2>3 DEF Link
  <1>3. ProcessType'
    <2>1. CASE LinkCheck \/ LinkHashFails
      BY <2>1, HashedType DEF LinkCheck, LinkHashFails, ProcessType
    <2>2. CASE LinkExecute
      BY <2>2 DEF LinkExecute, ProcessType, Recorded
    <2>3. CASE LinkSkip \/ LinkExecuteFails
      BY <2>3 DEF LinkSkip, LinkExecuteFails, ProcessType, process
    <2>4. QED
      BY <2>1, <2>2, <2>3 DEF Link
  <1>4. ControlType'
    BY DEF Link, LinkSkip, LinkCheck, LinkHashFails, LinkExecute,
           LinkExecuteFails, LinkChanged, ControlType, Phases, Fail, process
  <1>5. QED
    BY <1>1, <1>2, <1>3, <1>4

LEMMA UpdatedStoreType ==
  ASSUME TypeOK
  PROVE  UpdatedStore \in Schema
  BY FieldFacts DEF TypeOK, ProcessType, UpdatedStore, Schema, Recorded

LEMMA EndType == TypeOK /\ End => TypeOK'
  <1> SUFFICES ASSUME TypeOK, End PROVE TypeOK'
    OBVIOUS
  <1>1. WorldType' /\ OutputType'
    BY DEF TypeOK, End, EndClean, EndStore, EndStoreFails, WorldType,
           OutputType, world, outputs
  <1>2. file' \subseteq Schema /\ UNCHANGED process
    BY UpdatedStoreType
       DEF TypeOK, End, EndClean, EndStore, EndStoreFails, ProcessType
  <1>3. ProcessType'
    BY <1>2 DEF TypeOK, ProcessType, process
  <1>4. ControlType'
    BY DEF TypeOK, End, EndClean, EndStore, EndStoreFails, ControlType,
           Phases, Fail, process
  <1>5. QED
    BY <1>1, <1>3, <1>4 DEF TypeOK

(* A process that is gone leaves the state of one that has not begun. *)
LEMMA ProcessGoneType ==
  ASSUME ProcessGone
  PROVE  /\ phase' = "idle" /\ load' = {} /\ todo' = {} /\ dirty' = FALSE
         /\ user' \in [Fields -> Value] /\ store' \in Recorded
         /\ taskState' = "SUCCESS"
  BY VersionFacts, EmptyStoreType DEF ProcessGone, NothingRead

LEMMA ProcessEndType ==
  TypeOK /\ (RunBuild \/ OtherTaskFails \/ Interrupt) => TypeOK'
  <1> SUFFICES ASSUME TypeOK, RunBuild \/ OtherTaskFails \/ Interrupt
               PROVE TypeOK'
    OBVIOUS
  <1> USE DEF TypeOK
  <1>1. CASE RunBuild
    BY <1>1, ProcessGoneType
       DEF RunBuild, WorldType, OutputType, ProcessType, ControlType, Phases,
           world, outputs
  <1>2. CASE OtherTaskFails
    BY <1>2 DEF OtherTaskFails, Fail, WorldType, OutputType, ProcessType,
                ControlType, world, outputs, process
  <1>3. CASE Interrupt
    <2>1. /\ phase' = "idle" /\ load' = {} /\ todo' = {} /\ dirty' = FALSE
          /\ user' \in [Fields -> Value] /\ store' \in Recorded
          /\ taskState' = "SUCCESS"
      BY <1>3, ProcessGoneType DEF Interrupt
    <2>2. pch' \in {pch, {}} /\ bin' \in {bin, {}} /\ file' \in {file, {}}
      BY <1>3 DEF Interrupt
    <2>3. obj' \in [Sources -> SUBSET ObjectFile]
      BY <1>3 DEF Interrupt, OutputType
    <2>4. UNCHANGED <<cfg, ver, srcs, calm>> /\ last' = "killed"
      BY <1>3 DEF Interrupt, world
    <2>5. QED
      BY <2>1, <2>2, <2>3, <2>4
         DEF WorldType, OutputType, ProcessType, ControlType, Phases
  <1>4. QED
    BY <1>1, <1>2, <1>3

LEMMA StutterType == TypeOK /\ UNCHANGED vars => TypeOK'
  BY DEF TypeOK, WorldType, OutputType, ProcessType, ControlType, vars, world,
         outputs, process

LEMMA TypeStep == TypeOK /\ [Next]_vars => TypeOK'
  BY UserType, BuildType, PchType, ObjectsType, LinkType, EndType,
     ProcessEndType, StutterType DEF Next, Tasks

(* Every state of every instance is of its type: the schema never holds what *)
(* the program does not write, a run never records a source that was not     *)
(* listed, and every output is made from values that existed.                *)
THEOREM TypeCorrect == Spec => []TypeOK
  BY InitType, TypeStep, PTL DEF Spec

-----------------------------------------------------------------------------
(* Steps that leave the world alone, or the outputs too *)

LEMMA SameWorld ==
  ASSUME UNCHANGED world
  PROVE  /\ HasPch' = HasPch /\ CleanPch' = CleanPch
         /\ CleanBinary' = CleanBinary /\ Listed' = Listed
         /\ \A s : CleanObject(s)' = CleanObject(s)
         /\ \A r : /\ Past(r)' = Past(r)
                   /\ PchUpToDate(r)' = PchUpToDate(r)
                   /\ NothingToDo(r)' = NothingToDo(r)
         /\ \A r, s : ObjectUpToDate(r, s)' = ObjectUpToDate(r, s)
  <1>1. cfg' = cfg /\ ver' = ver /\ srcs' = srcs
    BY DEF world
  <1>2. HasPch' = HasPch
    BY <1>1 DEF HasPch
  <1>3. CleanPch' = CleanPch
    BY <1>1, <1>2 DEF CleanPch
  <1>4. \A s : CleanObject(s)' = CleanObject(s)
    BY <1>1, <1>2, <1>3 DEF CleanObject, ObjectArg
  <1>5. CleanBinary' = CleanBinary
    BY <1>1, <1>4 DEF CleanBinary
  <1>6. Listed' = Listed
    BY <1>1 DEF Listed
  <1>7. \A r : /\ Past(r)' = Past(r)
               /\ PchUpToDate(r)' = PchUpToDate(r)
    BY <1>1 DEF Past, PchUpToDate
  <1>8. \A r : NothingToDo(r)' = NothingToDo(r)
    BY <1>1, <1>2, <1>6 DEF NothingToDo
  <1>9. \A r, s : ObjectUpToDate(r, s)' = ObjectUpToDate(r, s)
    BY <1>1, <1>2, <1>7 DEF ObjectUpToDate
  <1>10. QED
    BY <1>2, <1>3, <1>4, <1>5, <1>6, <1>7, <1>8, <1>9

LEMMA SameOutputs ==
  ASSUME UNCHANGED <<world, outputs>>
  PROVE  \A r : Sound(r)' = Sound(r)
  <1>1. srcs' = srcs /\ pch' = pch /\ obj' = obj /\ bin' = bin
    BY DEF world, outputs
  <1>2. QED
    BY <1>1, SameWorld DEF Sound

-----------------------------------------------------------------------------
(* The user *)

(* What the user may change, between runs and during one. *)
LEMMA UserMovesForward ==
  ASSUME TypeOK, Forward, User
  PROVE  /\ \A f \in Fields : cfg[f] <= cfg'[f]
         /\ \A s \in Sources : ver[s] <= ver'[s]
         /\ srcs' \ srcs \subseteq Sources \ First
         /\ srcs \ srcs' \subseteq First
         /\ UNCHANGED <<outputs, file, phase, process, taskState>>
         /\ phase # "idle" =>
              /\ srcs' = srcs
              /\ \A f \in FlagFields \cup {"headers"} : cfg'[f] = cfg[f]
              /\ HasPch' = HasPch
  <1> USE DEF TypeOK, WorldType, Forward
  <1>0. /\ \A f \in Fields : cfg[f] \in Int
        /\ \A s \in Sources : ver[s] \in Int
        /\ "headers" \in Fields /\ "pchs" \in Fields
        /\ FlagFields \subseteq Fields
    BY VersionFacts, FieldFacts
  <1>1. ASSUME NEW f \in Fields, EditField(f)
        PROVE  /\ \A g \in Fields : cfg[g] <= cfg'[g]
               /\ phase = "idle" /\ UNCHANGED <<ver, srcs>>
    BY <1>0, <1>1 DEF EditField, NewValues
  <1>2. ASSUME NEW f \in Fields, SaveListedFile(f)
        PROVE  /\ \A g \in Fields : cfg[g] <= cfg'[g]
               /\ UNCHANGED <<ver, srcs>>
               /\ \A g \in FlagFields \cup {"headers"} : cfg'[g] = cfg[g]
               /\ HasPch' = HasPch
    <2>1. f \in FileFields /\ f # "headers" /\ f \notin FlagFields
      BY <1>2, FieldFacts DEF SaveListedFile
    <2>2. cfg' = [cfg EXCEPT ![f] = cfg[f] + 1] /\ cfg[f] # Empty
      BY <1>2 DEF SaveListedFile
    <2>3. \A g \in Fields : cfg[g] <= cfg'[g]
      BY <1>0, <2>2
    <2>4. \A g \in FlagFields \cup {"headers"} : cfg'[g] = cfg[g]
      BY <1>0, <2>1, <2>2
    <2>5. HasPch' = HasPch
      <3>1. CASE f # "pchs"
        BY <1>0, <2>2, <3>1 DEF HasPch
      <3>2. CASE f = "pchs"
        <4>1. cfg["pchs"] # Empty /\ cfg'["pchs"] = cfg["pchs"] + 1
          BY <1>0, <2>2, <3>2
        <4>2. cfg["pchs"] >= 0
          BY <1>0, VersionFacts
        <4>3. cfg'["pchs"] # Empty
          BY <1>0, <4>1, <4>2 DEF Empty
        <4>4. QED
          BY <4>1, <4>3 DEF HasPch
      <3>3. QED
        BY <3>1, <3>2
    <2>6. QED
      BY <1>2, <2>3, <2>4, <2>5 DEF SaveListedFile
  <1>3. ASSUME NEW s \in Sources, SaveSource(s)
        PROVE  /\ \A t \in Sources : ver[t] <= ver'[t]
               /\ UNCHANGED <<cfg, srcs>>
    BY <1>0, <1>3 DEF SaveSource
  <1>4. ASSUME NEW s \in Sources, RemoveSource(s) \/ ListSource(s)
        PROVE  /\ phase = "idle" /\ UNCHANGED <<cfg, ver>>
               /\ srcs' \ srcs \subseteq Sources \ First
               /\ srcs \ srcs' \subseteq First
    BY <1>4 DEF RemoveSource, ListSource
  <1>5. UNCHANGED <<outputs, file, phase, process, taskState>>
    BY DEF User, EditField, SaveListedFile, SaveSource, RemoveSource,
           ListSource
  <1>6. CASE \E f \in Fields : EditField(f)
    BY <1>0, <1>1, <1>5, <1>6
  <1>7. CASE \E f \in Fields : SaveListedFile(f)
    BY <1>0, <1>2, <1>5, <1>7
  <1>8. CASE \E s \in Sources : SaveSource(s)
    BY <1>0, <1>3, <1>5, <1>8 DEF HasPch
  <1>9. CASE \E s \in Sources : RemoveSource(s) \/ ListSource(s)
    BY <1>0, <1>4, <1>5, <1>9
  <1>10. QED
    BY <1>6, <1>7, <1>8, <1>9 DEF User

(* A schema that speaks of the past still does after an edit, and an edit    *)
(* makes it vouch for nothing it did not vouch for before.                   *)
LEMMA PastStaysPast ==
  ASSUME TypeOK, TypeOK', Forward, User, NEW r \in Schema, Past(r)
  PROVE  /\ Past(r)'
         /\ PchUpToDate(r)' => PchUpToDate(r)
                                 /\ \A f \in PchCompared : cfg'[f] = cfg[f]
         /\ \A s \in srcs' :
              ObjectUpToDate(r, s)' =>
                s \in srcs /\ ObjectUpToDate(r, s)
                  /\ CleanObject(s)' = CleanObject(s)
         /\ NothingToDo(r)' => NothingToDo(r) /\ CleanBinary' = CleanBinary
  <1>0. /\ \A f \in Fields : r.cfg[f] \in Int /\ cfg[f] \in Int /\ cfg'[f] \in Int
        /\ \A f \in Fields : cfg[f] >= 0
        /\ \A s \in Sources : ver[s] \in Int /\ ver'[s] \in Int
        /\ r.sources \subseteq Sources \X Int
        /\ srcs \subseteq Sources /\ srcs' \subseteq Sources
        /\ PchCompared \cup ObjectCompared \cup LinkCompared \subseteq Fields
        /\ "pchs" \in PchCompared
    BY VersionFacts, FieldFacts DEF TypeOK, WorldType, Schema
  <1>1. /\ \A f \in Fields : cfg[f] <= cfg'[f]
        /\ \A s \in Sources : ver[s] <= ver'[s]
        /\ srcs' \ srcs \subseteq Sources \ First
        /\ srcs \ srcs' \subseteq First
    BY UserMovesForward
  <1>2. \A f \in Fields : r.cfg[f] = cfg'[f] => r.cfg[f] = cfg[f] /\ cfg'[f] = cfg[f]
    BY <1>0, <1>1 DEF Past, Forward
  <1>3. \A S \in SUBSET Fields :
          Agree(r.cfg, cfg', S) =>
            Agree(r.cfg, cfg, S) /\ \A f \in S : cfg'[f] = cfg[f]
    BY <1>2 DEF Agree
  <1>4. Past(r)'
    <2>1. \A f \in Fields : r.cfg[f] <= cfg'[f]
      BY <1>0, <1>1 DEF Past, Forward
    <2>2. \A p \in r.sources : p[2] <= ver'[p[1]] /\ p[1] \in First \cup srcs'
      BY <1>0, <1>1 DEF Past, Forward
    <2>3. r.target_linked =>
            \A s \in First \cap srcs' : \E p \in r.sources : p[1] = s
      BY <1>1 DEF Past, Forward
    <2>4. QED
      BY <2>1, <2>2, <2>3 DEF Past, Forward
  <1>5. PchUpToDate(r)' =>
          PchUpToDate(r) /\ \A f \in PchCompared : cfg'[f] = cfg[f]
    BY <1>0, <1>3 DEF PchUpToDate
  <1>6. HasPch => HasPch'
    BY <1>0, <1>1 DEF HasPch, Empty
  <1>7. (HasPch' => PchUpToDate(r)') =>
          HasPch' = HasPch /\ CleanPch' = CleanPch
    <2>1. CASE ~HasPch'
      BY <1>6, <2>1 DEF CleanPch, HasPch
    <2>2. CASE HasPch' /\ PchUpToDate(r)'
      <3>1. \A f \in PchInputs : cfg'[f] = cfg[f]
        BY <1>5, <2>2, FieldFacts
      <3>2. HasPch' = HasPch
        BY <1>0, <1>5, <2>2 DEF HasPch
      <3>3. QED
        BY <3>1, <3>2 DEF CleanPch, PchFrom
    <2>3. QED
      BY <2>1, <2>2
  <1>8. ASSUME NEW s \in srcs', ObjectUpToDate(r, s)'
        PROVE  s \in srcs /\ ObjectUpToDate(r, s)
                 /\ CleanObject(s)' = CleanObject(s)
    <2>1. /\ Agree(r.cfg, cfg', ObjectCompared)
          /\ <<s, ver'[s]>> \in r.sources
          /\ HasPch' => PchUpToDate(r)'
      BY <1>8 DEF ObjectUpToDate
    <2>2. s \in srcs
      BY <1>1, <2>1 DEF Past, Forward
    <2>3. ver'[s] = ver[s]
      BY <1>0, <1>1, <2>1, <2>2 DEF Past, Forward
    <2>4. HasPch' = HasPch /\ CleanPch' = CleanPch
      BY <1>7, <2>1
    <2>5. ObjectUpToDate(r, s)
      BY <1>0, <1>3, <1>5, <2>1, <2>3, <2>4 DEF ObjectUpToDate
    <2>6. \A f \in ObjectInputs : ObjectArg(f, cfg[f])' = ObjectArg(f, cfg[f])
      BY <1>0, <1>3, <2>1, <2>4, FieldFacts DEF ObjectArg
    <2>7. CleanObject(s)' = CleanObject(s)
      BY <2>3, <2>4, <2>6 DEF CleanObject
    <2>8. QED
      BY <2>2, <2>5, <2>7
  <1>9. ASSUME NothingToDo(r)'
        PROVE  NothingToDo(r) /\ CleanBinary' = CleanBinary
    <2>1. /\ HasPch' => PchUpToDate(r)'
          /\ Agree(r.cfg, cfg', ObjectCompared)
          /\ Agree(r.cfg, cfg', LinkCompared)
          /\ r.sources = {<<s, ver'[s]>> : s \in srcs'}
          /\ r.target_linked
      BY <1>9 DEF NothingToDo, PchUpToDate, Listed
    <2>2. \A s \in srcs' : ObjectUpToDate(r, s)'
      BY <2>1 DEF ObjectUpToDate
    <2>3. \A s \in srcs' : s \in srcs /\ CleanObject(s)' = CleanObject(s)
                             /\ ver'[s] = ver[s]
      BY <1>8, <2>2 DEF CleanObject
    <2>4. srcs \subseteq srcs'
      <3>1. ASSUME NEW s \in srcs, s \notin srcs' PROVE FALSE
        <4>1. PICK p \in r.sources : p[1] = s
          BY <1>1, <2>1, <3>1 DEF Past, Forward
        <4>2. QED
          BY <2>1, <3>1, <4>1
      <3>2. QED
        BY <3>1
    <2>5. srcs' = srcs
      BY <2>3, <2>4
    <2>6. r.sources = Listed
      BY <2>1, <2>3, <2>5 DEF Listed
    <2>7. NothingToDo(r)
      BY <1>0, <1>3, <1>5, <1>7, <2>1, <2>6 DEF NothingToDo, PchUpToDate
    <2>8. \A f \in LinkInputs : cfg'[f] = cfg[f]
      BY <1>0, <1>3, <2>1, FieldFacts
    <2>9. CleanBinary' = CleanBinary
      BY <2>3, <2>5, <2>8 DEF CleanBinary
    <2>10. QED
      BY <2>7, <2>9
  <1>10. QED
    BY <1>4, <1>5, <1>8, <1>9

LEMMA SchemasType ==
  ASSUME TypeOK
  PROVE  Schemas \subseteq Schema
  BY UpdatedStoreType DEF TypeOK, ProcessType, Schemas

LEMMA UserKeeps ==
  ASSUME TypeOK, TypeOK', Forward, SkipInv, User
  PROVE  SkipInv'
  <1>0. /\ \A f \in Fields : cfg[f] \in Int /\ cfg'[f] \in Int /\ user[f] \in Int
        /\ \A f \in Fields : cfg[f] >= 0
        /\ \A s \in Sources : ver[s] \in Int /\ ver'[s] \in Int
        /\ todo \subseteq Sources \X Int /\ srcs \subseteq Sources
        /\ FlagFields \subseteq Fields /\ "pchs" \in Fields
        /\ "pchs" \in PchCompared
    BY VersionFacts, FieldFacts DEF TypeOK, WorldType, ProcessType
  <1>1. /\ \A f \in Fields : cfg[f] <= cfg'[f]
        /\ \A s \in Sources : ver[s] <= ver'[s]
        /\ pch' = pch /\ obj' = obj /\ bin' = bin
        /\ UNCHANGED <<file, phase, process, taskState>>
        /\ phase # "idle" =>
             /\ srcs' = srcs
             /\ \A f \in FlagFields \cup {"headers"} : cfg'[f] = cfg[f]
             /\ HasPch' = HasPch
    BY UserMovesForward DEF outputs
  <1>2. /\ load' = load /\ user' = user /\ store' = store /\ dirty' = dirty
        /\ todo' = todo /\ UpdatedStore' = UpdatedStore /\ Schemas' = Schemas
    BY <1>1 DEF process, UpdatedStore, Schemas
  <1>3. HasPch => HasPch'
    BY <1>0, <1>1 DEF HasPch, Empty
  <1>4. ASSUME NEW r \in Schemas
        PROVE  /\ Past(r)'
               /\ PchUpToDate(r)' => PchUpToDate(r)
                                       /\ \A f \in PchCompared : cfg'[f] = cfg[f]
               /\ \A s \in srcs' :
                    ObjectUpToDate(r, s)' =>
                      s \in srcs /\ ObjectUpToDate(r, s)
                        /\ CleanObject(s)' = CleanObject(s)
               /\ NothingToDo(r)' =>
                    NothingToDo(r) /\ CleanBinary' = CleanBinary
    BY PastStaysPast, SchemasType DEF SkipInv, SchemasInv
  <1>5. ASSUME NEW r \in Schemas
        PROVE  Sound(r)'
    <2>1. HasPch' /\ PchUpToDate(r)' => pch' = CleanPch'
      <3> SUFFICES ASSUME HasPch', PchUpToDate(r)' PROVE pch' = CleanPch'
        OBVIOUS
      <3>1. PchUpToDate(r) /\ \A f \in PchInputs : cfg'[f] = cfg[f]
        BY <1>4, FieldFacts
      <3>2. HasPch
        BY <1>0, <3>1, FieldFacts DEF HasPch
      <3>3. pch = CleanPch
        BY <3>1, <3>2 DEF SkipInv, SchemasInv, Sound
      <3>4. CleanPch' = CleanPch
        BY <3>1, <3>2 DEF CleanPch, PchFrom
      <3>5. QED
        BY <1>1, <3>3, <3>4
    <2>2. \A s \in srcs' : ObjectUpToDate(r, s)' => obj'[s] = {CleanObject(s)'}
      BY <1>1, <1>4 DEF SkipInv, SchemasInv, Sound
    <2>3. NothingToDo(r)' => bin' = {CleanBinary'}
      BY <1>1, <1>4 DEF SkipInv, SchemasInv, Sound
    <2>4. QED
      BY <2>1, <2>2, <2>3 DEF Sound
  <1>6. SchemasInv'
    BY <1>2, <1>4, <1>5 DEF SchemasInv
  <1>7. ReadInv'
    <2>1. \A f \in Fields : user[f] <= cfg'[f]
      BY <1>0, <1>1 DEF SkipInv, ReadInv
    <2>2. phase # "idle" => Agree(user, cfg', FlagFields)
      BY <1>1 DEF SkipInv, ReadInv, Agree
    <2>3. QED
      BY <1>1, <1>2, <1>3, <2>1, <2>2 DEF SkipInv, ReadInv
  <1>8. PhaseInv'
    BY <1>1, <1>2, <1>3 DEF SkipInv, PhaseInv
  <1>9. TodoInv'
    <2>1. CASE phase = "idle"
      BY <1>2, <2>1 DEF SkipInv, PhaseInv, TodoInv
    <2>2. CASE phase # "idle"
      BY <1>0, <1>1, <1>2, <2>2 DEF SkipInv, TodoInv
    <2>3. QED
      BY <2>1, <2>2
  <1>10. RecordedInv'
    BY <1>1, <1>2 DEF SkipInv, RecordedInv
  <1>11. WriteInv'
    <2>1. \A r \in file : r \in Schemas
      BY DEF Schemas
    <2>2. \A p \in todo : p[1] \in srcs
      BY DEF SkipInv, TodoInv
    <2>3. QED
      BY <1>1, <1>2, <1>3, <1>4, <2>1, <2>2 DEF SkipInv, WriteInv
  <1>12. QED
    BY <1>6, <1>7, <1>8, <1>9, <1>10, <1>11 DEF SkipInv

-----------------------------------------------------------------------------
(* A run that has recorded nothing: the beginning, and the end *)

(* A schema that vouches for nothing is sound, whatever the outputs are. *)
LEMMA BlankIsSound ==
  ASSUME NEW r, ~r.pch_compiled, r.sources = {}, ~r.target_linked
  PROVE  Sound(r) /\ Sound(r)'
  BY DEF Sound, PchUpToDate, ObjectUpToDate, NothingToDo

LEMMA UpdatedStoreFields ==
  ASSUME TypeOK
  PROVE  /\ \A f \in Fields :
              UpdatedStore.cfg[f] = IF f = "pchs" THEN store.pchs ELSE user[f]
         /\ UpdatedStore.pch_compiled = store.pch_compiled
         /\ UpdatedStore.sources = store.sources
         /\ UpdatedStore.target_linked = store.target_linked
  BY FieldFacts DEF TypeOK, ProcessType, UpdatedStore

LEMMA UpdatedStoreFieldsNext ==
  ASSUME TypeOK'
  PROVE  /\ \A f \in Fields :
              UpdatedStore'.cfg[f] = IF f = "pchs" THEN store'.pchs ELSE user'[f]
         /\ UpdatedStore'.pch_compiled = store'.pch_compiled
         /\ UpdatedStore'.sources = store'.sources
         /\ UpdatedStore'.target_linked = store'.target_linked
  BY FieldFacts DEF TypeOK, ProcessType, UpdatedStore

LEMMA InitKeeps == TypeOK /\ Init => SkipInv
  <1> SUFFICES ASSUME TypeOK, Init PROVE SkipInv
    OBVIOUS
  <1>0. \A f \in Fields : cfg[f] \in Int /\ cfg[f] >= 0
    BY VersionFacts DEF TypeOK, WorldType
  <1>1. /\ \A f \in Fields : UpdatedStore.cfg[f] = 0
        /\ ~UpdatedStore.pch_compiled /\ UpdatedStore.sources = {}
        /\ ~UpdatedStore.target_linked
    BY UpdatedStoreFields DEF Init, EmptyStore, NothingRead, Empty
  <1>2. Past(UpdatedStore) /\ Sound(UpdatedStore)
    BY <1>0, <1>1 DEF Past, Sound, PchUpToDate, ObjectUpToDate, NothingToDo
  <1>3. SchemasInv
    BY <1>2 DEF Init, SchemasInv, Schemas
  <1>4. ReadInv
    BY <1>0 DEF Init, ReadInv, NothingRead, Empty
  <1>5. PhaseInv /\ TodoInv /\ RecordedInv /\ WriteInv
    BY DEF Init, PhaseInv, TodoInv, RecordedInv, WriteInv, EmptyStore
  <1>6. QED
    BY <1>3, <1>4, <1>5 DEF SkipInv

LEMMA BuildKeeps ==
  ASSUME TypeOK, TypeOK', SkipInv, Build
  PROVE  SkipInv'
  <1>0. /\ \A f \in Fields : cfg[f] \in Int /\ cfg[f] >= 0
        /\ FlagFields \subseteq Fields /\ "pchs" \in Fields
    BY VersionFacts, FieldFacts DEF TypeOK, WorldType
  <1>1. /\ UNCHANGED <<world, outputs, file>> /\ phase = "idle"
        /\ load' = file /\ store' = EmptyStore /\ ~dirty' /\ todo' = {}
        /\ phase' = IF HasPch THEN "pch" ELSE "objects"
        /\ user' = [f \in Fields |->
                      IF f \in FlagFields THEN cfg[f] ELSE Unread(f)]
    BY DEF Build
  <1>2. cfg' = cfg /\ srcs' = srcs /\ ver' = ver /\ HasPch' = HasPch
    BY <1>1, SameWorld DEF world
  <1>3. \A f \in Fields : user'[f] <= cfg[f]
    BY <1>0, <1>1 DEF Unread, Empty, Unhashed
  <1>4. Past(UpdatedStore)' /\ Sound(UpdatedStore)'
    <2>1. /\ ~UpdatedStore'.pch_compiled /\ UpdatedStore'.sources = {}
          /\ ~UpdatedStore'.target_linked
          /\ \A f \in Fields \ Reverts : UpdatedStore'.cfg[f] <= cfg[f]
      BY <1>0, <1>1, <1>3, UpdatedStoreFieldsNext DEF EmptyStore, Empty
    <2>2. QED
      BY <1>2, <2>1
         DEF Past, Sound, PchUpToDate, ObjectUpToDate, NothingToDo
  <1>5. SchemasInv'
    <2>1. ASSUME NEW r \in file PROVE Past(r)' /\ Sound(r)'
      BY <1>1, SameWorld, SameOutputs DEF SkipInv, SchemasInv, Schemas
    <2>2. QED
      BY <1>1, <1>4, <2>1 DEF SchemasInv, Schemas
  <1>6. ReadInv'
    <2>1. Agree(user', cfg', FlagFields)
      BY <1>0, <1>1, <1>2 DEF Agree
    <2>2. pch' = pch /\ file' = file
      BY <1>1 DEF outputs
    <2>3. phase' \in {"pch", "objects"} /\ ~store'.pch_compiled
      BY <1>1 DEF EmptyStore
    <2>4. QED
      BY <1>1, <1>2, <1>3, <2>1, <2>2, <2>3 DEF SkipInv, ReadInv
  <1>7. PhaseInv' /\ TodoInv' /\ RecordedInv' /\ WriteInv'
    BY <1>1, <1>2 DEF PhaseInv, TodoInv, RecordedInv, WriteInv, EmptyStore
  <1>8. QED
    BY <1>5, <1>6, <1>7 DEF SkipInv

-----------------------------------------------------------------------------
(* The Pch task *)

(* A step that writes no output keeps the schemas sound if what the run      *)
(* would store is.                                                           *)
LEMMA OnlyTheStoreChanges ==
  ASSUME SchemasInv, UNCHANGED <<world, outputs, file>>,
         Past(UpdatedStore)', Sound(UpdatedStore)'
  PROVE  SchemasInv'
  BY SameWorld, SameOutputs DEF SchemasInv, Schemas

LEMMA NothingChanges ==
  ASSUME SchemasInv, UNCHANGED <<world, outputs, file, user, store>>
  PROVE  SchemasInv'
  BY SameWorld, SameOutputs DEF SchemasInv, Schemas, UpdatedStore

(* What a run has just read is what is there. *)
LEMMA HashedFacts ==
  ASSUME TypeOK, ReadInv, phase # "idle", NEW S
  PROVE  /\ \A f \in Fields : Hashed(S)[f] <= cfg[f]
         /\ \A f \in Fields : Hashed(S)[f] = IF f \in S THEN cfg[f] ELSE user[f]
         /\ Agree(Hashed(S), cfg, FlagFields \cup (S \cap Fields))
  <1>1. \A f \in Fields : cfg[f] \in Int /\ user[f] \in Int
    BY VersionFacts DEF TypeOK, WorldType, ProcessType
  <1>2. FlagFields \subseteq Fields
    BY FieldFacts
  <1>3. \A f \in Fields : Hashed(S)[f] = IF f \in S THEN cfg[f] ELSE user[f]
    BY DEF Hashed
  <1>4. \A f \in Fields : Hashed(S)[f] <= cfg[f]
    BY <1>1, <1>3 DEF ReadInv
  <1>5. Agree(Hashed(S), cfg, FlagFields \cup (S \cap Fields))
    BY <1>2, <1>3 DEF ReadInv, Agree
  <1>6. QED
    BY <1>3, <1>4, <1>5

LEMMA PchCheckKeeps ==
  ASSUME TypeOK, TypeOK', SkipInv, PchCheck
  PROVE  SkipInv'
  <1> DEFINE u == Hashed({"headers", "pchs"})
  <1>0. /\ UNCHANGED <<world, outputs, file>> /\ load' = load /\ todo' = todo
        /\ phase = "pch" /\ user' = u /\ dirty' = PchChanged(u)
        /\ \/ PchChanged(u) /\ phase' = "pch_exec" /\ store' = store
           \/ ~PchChanged(u) /\ phase' = "objects" /\ store' = PchCompiled(u)
    BY DEF PchCheck
  <1>1. /\ cfg' = cfg /\ srcs' = srcs /\ ver' = ver /\ pch' = pch
        /\ HasPch' = HasPch
    BY <1>0, SameWorld DEF world, outputs
  <1>2. /\ \A f \in Fields : u[f] <= cfg[f]
        /\ Agree(u, cfg, FlagFields \cup {"headers", "pchs"})
    BY <1>0, HashedFacts, FieldFacts DEF SkipInv
  <1> HIDE DEF u
  <1>3. Agree(u, cfg, PchCompared) /\ Agree(u, cfg, FlagFields)
          /\ u["headers"] = cfg["headers"] /\ u["pchs"] = cfg["pchs"]
    BY <1>2, FieldFacts DEF Agree
  <1>4. /\ HasPch /\ ~store.pch_compiled /\ store.sources = {}
        /\ ~store.target_linked /\ todo = {} /\ load = file
    BY <1>0 DEF SkipInv, PhaseInv, ReadInv
  <1>5. store' = store \/ store' = PchCompiled(u)
    BY <1>0
  <1>6. store'.sources = {} /\ ~store'.target_linked
          /\ store'.pchs \in {store.pchs, u["pchs"]}
    BY <1>4, <1>5 DEF PchCompiled, TypeOK, ProcessType, Recorded
  <1>7. "pchs" \notin Reverts => store.pchs <= cfg["pchs"]
    BY UpdatedStoreFields, FieldFacts DEF SkipInv, SchemasInv, Schemas, Past
  <1>8. Past(UpdatedStore)'
    BY <1>0, <1>1, <1>2, <1>6, <1>7, UpdatedStoreFieldsNext, FieldFacts DEF Past
  <1>9. PchChanged(u) => \A r \in file : ~PchUpToDate(r)
    <2> SUFFICES ASSUME PchChanged(u), NEW r \in file PROVE ~PchUpToDate(r)
      OBVIOUS
    <2>1. ~Agree(r.cfg, u, PchCompared) \/ ~r.pch_compiled
      BY <1>4 DEF PchChanged, SkipInv, ReadInv
    <2>2. QED
      BY <1>3, <2>1 DEF PchUpToDate, Agree
  <1>10. ~PchChanged(u) =>
           /\ \A r \in file : Agree(r.cfg, u, PchCompared) /\ r.pch_compiled
           /\ pch = CleanPch
    <2> SUFFICES ASSUME ~PchChanged(u)
                 PROVE  /\ \A r \in file : Agree(r.cfg, u, PchCompared)
                                             /\ r.pch_compiled
                        /\ pch = CleanPch
      OBVIOUS
    <2>1. /\ \A r \in file : Agree(r.cfg, u, PchCompared) /\ r.pch_compiled
          /\ file # {}
      BY <1>4 DEF PchChanged
    <2>2. PICK r \in file : TRUE
      BY <2>1
    <2>3. PchUpToDate(r)
      BY <1>3, <2>1 DEF PchUpToDate, Agree
    <2>4. QED
      BY <1>4, <2>1, <2>3 DEF SkipInv, SchemasInv, Schemas, Sound
  <1>11. Sound(UpdatedStore)'
    <2>1. CASE PchChanged(u)
      BY <1>0, <1>4, <2>1, BlankIsSound, UpdatedStoreFieldsNext
         DEF Sound, PchUpToDate, ObjectUpToDate, NothingToDo
    <2>2. CASE ~PchChanged(u)
      <3>1. pch' = CleanPch'
        BY <1>0, <1>1, <1>10, <2>2, SameWorld
      <3>2. QED
        BY <1>6, <3>1, UpdatedStoreFieldsNext
           DEF Sound, ObjectUpToDate, NothingToDo
    <2>3. QED
      BY <2>1, <2>2
  <1>12. SchemasInv'
    BY <1>0, <1>8, <1>11, OnlyTheStoreChanges DEF SkipInv
  <1>13. ReadInv'
    BY <1>0, <1>1, <1>2, <1>3, <1>4 DEF SkipInv, ReadInv
  <1>14. PhaseInv' /\ TodoInv' /\ RecordedInv'
    BY <1>0, <1>1, <1>4, <1>6 DEF PhaseInv, TodoInv, RecordedInv
  <1>15. WriteInv'
    <2>1. CASE PchChanged(u)
      <3>1. \A r \in file' : ~PchUpToDate(r)'
        BY <1>0, <1>9, <2>1, SameWorld
      <3>2. QED
        BY <1>0, <1>1, <1>4, <2>1, <3>1 DEF WriteInv
    <2>2. CASE ~PchChanged(u)
      <3>1. /\ store'.pchs = u["pchs"] /\ phase' = "objects" /\ ~dirty'
        BY <1>0, <2>2 DEF PchCompiled, TypeOK, ProcessType, Recorded
      <3>2. Agree(UpdatedStore'.cfg, u, PchCompared)
        BY <1>0, <3>1, UpdatedStoreFieldsNext, FieldFacts DEF Agree
      <3>3. \A r \in file' :
              Agree(r.cfg, UpdatedStore'.cfg, PchCompared) /\ r.pch_compiled
        BY <1>0, <1>10, <2>2, <3>2 DEF Agree
      <3>4. QED
        BY <3>1, <3>3 DEF WriteInv
    <2>3. QED
      BY <2>1, <2>2
  <1>16. QED
    BY <1>12, <1>13, <1>14, <1>15 DEF SkipInv

LEMMA PchHashFailsKeeps ==
  ASSUME TypeOK, TypeOK', SkipInv, PchHashFails
  PROVE  SkipInv'
  <1>1. /\ UNCHANGED <<world, outputs, file>> /\ load' = load /\ todo' = todo
        /\ store' = store /\ dirty' = dirty
        /\ phase = "pch" /\ phase' = "objects" /\ taskState' = "FAILURE"
    BY DEF PchHashFails, Fail
  <1>2. /\ cfg' = cfg /\ srcs' = srcs /\ ver' = ver /\ pch' = pch
        /\ HasPch' = HasPch
    BY <1>1, SameWorld DEF world, outputs
  <1>3. PICK S \in {{}, {"headers"}} : user' = Hashed(S)
    BY DEF PchHashFails
  <1>4. (\A f \in Fields : user'[f] <= cfg[f]) /\ Agree(user', cfg, FlagFields)
    BY <1>1, <1>3, HashedFacts DEF SkipInv, Agree
  <1>5. /\ ~store.pch_compiled /\ store.sources = {} /\ ~store.target_linked
        /\ todo = {} /\ load = file /\ ~dirty
    BY <1>1 DEF SkipInv, PhaseInv, ReadInv, WriteInv
  <1>6. "pchs" \notin Reverts => store.pchs <= cfg["pchs"]
    BY UpdatedStoreFields, FieldFacts DEF SkipInv, SchemasInv, Schemas, Past
  <1>7. Past(UpdatedStore)'
    BY <1>1, <1>2, <1>4, <1>5, <1>6, UpdatedStoreFieldsNext, FieldFacts DEF Past
  <1>8. Sound(UpdatedStore)'
    BY <1>1, <1>5, UpdatedStoreFieldsNext
       DEF Sound, PchUpToDate, ObjectUpToDate, NothingToDo
  <1>9. SchemasInv'
    BY <1>1, <1>7, <1>8, OnlyTheStoreChanges DEF SkipInv
  <1>10. ReadInv'
    BY <1>1, <1>2, <1>4, <1>5 DEF SkipInv, ReadInv
  <1>11. PhaseInv' /\ TodoInv' /\ RecordedInv' /\ WriteInv'
    BY <1>1, <1>2, <1>5 DEF PhaseInv, TodoInv, RecordedInv, WriteInv
  <1>12. QED
    BY <1>9, <1>10, <1>11 DEF SkipInv

LEMMA PchExecuteKeeps ==
  ASSUME TypeOK, TypeOK', SkipInv, PchExecute
  PROVE  SkipInv'
  <1>1. /\ UNCHANGED <<world, obj, bin, file, load, user, dirty, todo>>
        /\ store' = PchCompiled(user)
        /\ pch' = PchFrom([f \in Fields |-> Arg(f)])
        /\ phase = "pch_exec" /\ phase' = "objects"
    BY DEF PchExecute
  <1>2. /\ cfg' = cfg /\ srcs' = srcs /\ ver' = ver /\ HasPch' = HasPch
    BY <1>1, SameWorld DEF world
  <1>3. /\ HasPch /\ store.sources = {} /\ ~store.target_linked /\ todo = {}
        /\ load = file /\ \A r \in file : ~PchUpToDate(r)
        /\ user["headers"] = cfg["headers"] /\ Agree(user, cfg, FlagFields)
        /\ \A f \in Fields : user[f] <= cfg[f]
    BY <1>1 DEF SkipInv, PhaseInv, ReadInv, WriteInv
  <1>4. /\ store'.pchs = user["pchs"] /\ store'.pch_compiled
        /\ store'.sources = {} /\ ~store'.target_linked
    BY <1>1, <1>3 DEF PchCompiled, TypeOK, ProcessType, Recorded
  <1>5. /\ \A f \in Fields : UpdatedStore'.cfg[f] = user[f]
        /\ UpdatedStore'.sources = {} /\ ~UpdatedStore'.target_linked
    BY <1>1, <1>4, UpdatedStoreFieldsNext
  <1>6. Past(UpdatedStore)'
    BY <1>2, <1>3, <1>5 DEF Past
  <1>7. PchUpToDate(UpdatedStore)' => pch' = CleanPch'
    <2> SUFFICES ASSUME PchUpToDate(UpdatedStore)' PROVE pch' = CleanPch'
      OBVIOUS
    <2>1. \A f \in PchInputs : Arg(f) = cfg[f]
      BY <1>2, <1>5, FieldFacts DEF PchUpToDate, Agree, Arg
    <2>2. PchFrom([f \in Fields |-> Arg(f)]) = PchFrom(cfg)
      BY <2>1, InputsAreFields DEF PchFrom
    <2>3. QED
      BY <1>1, <1>2, <1>3, <2>2, SameWorld DEF CleanPch
  <1>8. Sound(UpdatedStore)'
    BY <1>5, <1>7 DEF Sound, ObjectUpToDate, NothingToDo
  <1>9. ASSUME NEW r \in file PROVE Past(r)' /\ Sound(r)'
    <2>1. Past(r) /\ Sound(r) /\ ~PchUpToDate(r)
      BY <1>3 DEF SkipInv, SchemasInv, Schemas
    <2>2. QED
      BY <1>1, <1>2, <2>1, SameWorld DEF Sound
  <1>10. SchemasInv'
    BY <1>1, <1>6, <1>8, <1>9 DEF SchemasInv, Schemas
  <1>11. ReadInv'
    BY <1>1, <1>2, <1>3 DEF SkipInv, ReadInv
  <1>12. PhaseInv' /\ TodoInv' /\ RecordedInv'
    BY <1>1, <1>2, <1>3, <1>4 DEF PhaseInv, TodoInv, RecordedInv
  <1>13. WriteInv'
    <2>1. dirty' = dirty /\ dirty
      BY <1>1 DEF SkipInv, WriteInv
    <2>2. \A r \in file' : ~PchUpToDate(r)'
      BY <1>1, <1>3, SameWorld
    <2>3. QED
      BY <1>1, <1>2, <1>3, <2>1, <2>2 DEF WriteInv
  <1>14. QED
    BY <1>10, <1>11, <1>12, <1>13 DEF SkipInv

LEMMA PchExecuteFailsKeeps ==
  ASSUME TypeOK, TypeOK', SkipInv, PchExecuteFails
  PROVE  SkipInv'
  <1>1. /\ UNCHANGED <<world, obj, bin, file, load, user, store, dirty, todo>>
        /\ phase = "pch_exec" /\ phase' = "objects" /\ taskState' = "FAILURE"
        /\ pch' \in {pch, {}} /\ UpdatedStore' = UpdatedStore
    BY DEF PchExecuteFails, Fail, process, UpdatedStore
  <1>2. /\ cfg' = cfg /\ srcs' = srcs /\ ver' = ver /\ HasPch' = HasPch
    BY <1>1, SameWorld DEF world
  <1>3. /\ HasPch /\ ~store.pch_compiled /\ store.sources = {}
        /\ ~store.target_linked /\ todo = {} /\ load = file /\ dirty
        /\ \A r \in file : ~PchUpToDate(r)
    BY <1>1 DEF SkipInv, PhaseInv, ReadInv, WriteInv
  <1>4. ~PchUpToDate(UpdatedStore)
    BY <1>3, UpdatedStoreFields DEF PchUpToDate
  <1>5. ASSUME NEW r \in Schemas PROVE Past(r)' /\ Sound(r)'
    <2>1. Past(r) /\ Sound(r) /\ ~PchUpToDate(r)
      BY <1>3, <1>4 DEF SkipInv, SchemasInv, Schemas
    <2>2. QED
      BY <1>1, <1>2, <2>1, SameWorld DEF Sound
  <1>6. SchemasInv'
    BY <1>1, <1>5 DEF SchemasInv, Schemas
  <1>7. ReadInv' /\ PhaseInv' /\ TodoInv' /\ RecordedInv'
    BY <1>1, <1>2, <1>3
       DEF SkipInv, ReadInv, PhaseInv, TodoInv, RecordedInv
  <1>8. WriteInv'
    <2>1. \A r \in file' : ~PchUpToDate(r)'
      BY <1>1, <1>3, SameWorld
    <2>2. QED
      BY <1>1, <1>2, <1>3, <2>1 DEF WriteInv
  <1>9. QED
    BY <1>6, <1>7, <1>8 DEF SkipInv

-----------------------------------------------------------------------------
(* Steps of the tasks that only pass on to the next one *)

LEMMA PassingOnKeeps ==
  ASSUME TypeOK, TypeOK', SkipInv,
         PchSkip \/ ObjectsSkip \/ CompileJoin \/ LinkSkip \/ EndClean
           \/ OtherTaskFails \/ UNCHANGED vars
  PROVE  SkipInv'
  <1>1. /\ UNCHANGED <<world, outputs, file>> /\ load' = load /\ user' = user
        /\ store' = store /\ dirty' = dirty /\ todo' = todo
        /\ UpdatedStore' = UpdatedStore
    BY DEF PchSkip, ObjectsSkip, CompileJoin, LinkSkip, EndClean,
           OtherTaskFails, vars, process, UpdatedStore
  <1>2. /\ cfg' = cfg /\ srcs' = srcs /\ ver' = ver /\ pch' = pch
        /\ HasPch' = HasPch
    BY <1>1, SameWorld DEF world, outputs
  <1>3. SchemasInv'
    BY <1>1, NothingChanges DEF SkipInv
  <1>4. \/ phase = "pch" /\ phase' = "objects" /\ taskState = "FAILURE"
           /\ taskState' = taskState
        \/ phase = "objects" /\ phase' = "link" /\ taskState = "FAILURE"
           /\ taskState' = taskState
        \/ phase = "compile" /\ phase' = "link" /\ todo = {}
           /\ taskState' = taskState
        \/ phase = "link" /\ phase' = "end" /\ taskState' = taskState
        \/ phase = "end" /\ phase' = "exit" /\ taskState' = taskState
        \/ phase' = phase /\ taskState' \in {taskState, "FAILURE"}
    BY DEF PchSkip, ObjectsSkip, CompileJoin, LinkSkip, EndClean,
           OtherTaskFails, vars, Fail
  <1>5. ReadInv'
    BY <1>1, <1>2, <1>4 DEF SkipInv, ReadInv
  <1>6. PhaseInv'
    BY <1>1, <1>2, <1>4 DEF SkipInv, PhaseInv
  <1>7. TodoInv'
    BY <1>1, <1>2 DEF SkipInv, TodoInv
  <1>8. RecordedInv'
    BY <1>1, <1>2, <1>4 DEF SkipInv, RecordedInv
  <1>9. WriteInv'
    <2>1. /\ \A r : PchUpToDate(r)' = PchUpToDate(r)
          /\ \A r : NothingToDo(r)' = NothingToDo(r)
          /\ \A r, s : ObjectUpToDate(r, s)' = ObjectUpToDate(r, s)
      BY <1>1, SameWorld
    <2>2. \A r : HasPch /\ NothingToDo(r) => PchUpToDate(r)
      BY DEF NothingToDo, PchUpToDate
    <2>3. CASE phase' = phase
      BY <1>1, <1>2, <2>1, <2>3 DEF SkipInv, WriteInv
    <2>4. CASE phase' # phase
      <3>1. (phase = "objects" /\ phase' = "link" /\ dirty)
               \/ (phase = "compile" /\ phase' = "link" /\ dirty)
              => \A r \in file : ~NothingToDo(r)
        BY <2>2 DEF SkipInv, WriteInv
      <3>2. phase = "pch" => ~dirty /\ ~store.pch_compiled
        BY DEF SkipInv, WriteInv, PhaseInv
      <3>3. QED
        BY <1>1, <1>2, <1>4, <2>1, <2>4, <3>1, <3>2 DEF WriteInv
    <2>5. QED
      BY <2>3, <2>4
  <1>10. QED
    BY <1>3, <1>5, <1>6, <1>7, <1>8, <1>9 DEF SkipInv

-----------------------------------------------------------------------------
(* The Objects task *)

(* Reading the headers and the dependencies again changes nothing the run    *)
(* recorded about its precompiled header: no header was saved meanwhile.     *)
LEMMA RereadHeaders ==
  ASSUME TypeOK, TypeOK', SkipInv, phase # "idle", UNCHANGED world,
         NEW S \in SUBSET {"headers", "compile_dependencies"},
         user' = Hashed(S), store'.pchs = store.pchs,
         store'.pch_compiled = store.pch_compiled
  PROVE  /\ \A f \in Fields \ Reverts : UpdatedStore'.cfg[f] <= cfg[f]
         /\ \A f \in Fields : user'[f] <= cfg[f]
         /\ Agree(user', cfg, FlagFields)
         /\ store.pch_compiled => user'["headers"] = cfg["headers"]
         /\ PchUpToDate(UpdatedStore)' => PchUpToDate(UpdatedStore)
         /\ S = {"headers", "compile_dependencies"} =>
              Agree(user', cfg, ObjectCompared)
  <1>1. /\ \A f \in Fields : user'[f] <= cfg[f]
        /\ \A f \in Fields : user'[f] = IF f \in S THEN cfg[f] ELSE user[f]
        /\ Agree(user', cfg, FlagFields \cup (S \cap Fields))
    BY HashedFacts DEF SkipInv
  <1>2. /\ Agree(user', cfg, FlagFields) /\ Agree(user, cfg, FlagFields)
        /\ store.pch_compiled => user["headers"] = cfg["headers"]
    BY <1>1 DEF SkipInv, ReadInv, Agree
  <1>3. "headers" \in Fields /\ "pchs" \in Fields /\ cfg' = cfg
    BY FieldFacts DEF world
  <1>4. store.pch_compiled => user'["headers"] = cfg["headers"]
    BY <1>1, <1>2, <1>3
  <1>5. "pchs" \notin Reverts => store.pchs <= cfg["pchs"]
    BY UpdatedStoreFields, <1>3 DEF SkipInv, SchemasInv, Schemas, Past
  <1>6. \A f \in Fields \ Reverts : UpdatedStore'.cfg[f] <= cfg[f]
    BY <1>1, <1>5, UpdatedStoreFieldsNext
  <1>7. PchUpToDate(UpdatedStore)' => PchUpToDate(UpdatedStore)
    <2> SUFFICES ASSUME PchUpToDate(UpdatedStore)'
                 PROVE PchUpToDate(UpdatedStore)
      OBVIOUS
    <2>1. /\ Agree(UpdatedStore'.cfg, cfg, PchCompared) /\ store.pch_compiled
      BY <1>3, UpdatedStoreFieldsNext DEF PchUpToDate
    <2>2. ASSUME NEW f \in PchCompared PROVE UpdatedStore.cfg[f] = cfg[f]
      <3>1. CASE f = "pchs"
        BY <1>3, <2>1, <3>1, UpdatedStoreFields, UpdatedStoreFieldsNext
           DEF Agree
      <3>2. CASE f = "headers"
        BY <1>2, <1>3, <2>1, <3>2, UpdatedStoreFields
      <3>3. CASE f \in FlagFields
        BY <1>2, <3>3, UpdatedStoreFields, FieldFacts DEF Agree
      <3>4. QED
        BY <3>1, <3>2, <3>3, FieldFacts
    <2>3. QED
      BY <2>1, <2>2, UpdatedStoreFields DEF PchUpToDate, Agree
  <1>8. S = {"headers", "compile_dependencies"} =>
          Agree(user', cfg, ObjectCompared)
    BY <1>1, FieldFacts DEF Agree
  <1>9. QED
    BY <1>1, <1>2, <1>4, <1>6, <1>7, <1>8

LEMMA ObjectHashFailsKeeps ==
  ASSUME TypeOK, TypeOK', SkipInv, ObjectHashFails
  PROVE  SkipInv'
  <1>1. /\ UNCHANGED <<world, outputs, file>> /\ load' = load /\ todo' = todo
        /\ store' = store /\ dirty' = dirty
        /\ phase = "objects" /\ phase' = "link" /\ taskState' = "FAILURE"
    BY DEF ObjectHashFails, Fail
  <1>2. /\ cfg' = cfg /\ srcs' = srcs /\ ver' = ver /\ pch' = pch
        /\ HasPch' = HasPch
    BY <1>1, SameWorld DEF world, outputs
  <1>3. PICK S \in SUBSET {"headers", "compile_dependencies"} :
          user' = Hashed(S)
    BY DEF ObjectHashFails
  <1>4. /\ \A f \in Fields \ Reverts : UpdatedStore'.cfg[f] <= cfg[f]
        /\ \A f \in Fields : user'[f] <= cfg[f]
        /\ Agree(user', cfg, FlagFields)
        /\ store.pch_compiled => user'["headers"] = cfg["headers"]
        /\ PchUpToDate(UpdatedStore)' => PchUpToDate(UpdatedStore)
    BY <1>1, <1>3, RereadHeaders
  <1>5. /\ store.sources = {} /\ ~store.target_linked /\ todo = {} /\ load = file
    BY <1>1 DEF SkipInv, PhaseInv, ReadInv
  <1>6. /\ UpdatedStore'.sources = {} /\ ~UpdatedStore'.target_linked
    BY <1>1, <1>5, UpdatedStoreFieldsNext
  <1>7. Past(UpdatedStore)'
    BY <1>2, <1>4, <1>6 DEF Past
  <1>8. Sound(UpdatedStore)'
    <2>1. HasPch /\ PchUpToDate(UpdatedStore) => pch = CleanPch
      BY DEF SkipInv, SchemasInv, Schemas, Sound
    <2>2. QED
      BY <1>1, <1>2, <1>4, <1>6, <2>1, SameWorld
         DEF Sound, ObjectUpToDate, NothingToDo
  <1>9. SchemasInv'
    BY <1>1, <1>7, <1>8, OnlyTheStoreChanges DEF SkipInv
  <1>10. ReadInv'
    BY <1>1, <1>2, <1>4, <1>5 DEF SkipInv, ReadInv
  <1>11. PhaseInv' /\ TodoInv' /\ RecordedInv'
    BY <1>1, <1>2, <1>5 DEF PhaseInv, TodoInv, RecordedInv
  <1>12. WriteInv'
    <2>1. dirty => \A r \in file : ~NothingToDo(r)
      BY <1>1 DEF SkipInv, WriteInv, NothingToDo, PchUpToDate
    <2>2. \A r : NothingToDo(r)' = NothingToDo(r)
      BY <1>1, SameWorld
    <2>3. QED
      BY <1>1, <2>1, <2>2 DEF WriteInv
  <1>13. QED
    BY <1>9, <1>10, <1>11, <1>12 DEF SkipInv

LEMMA SelectSourcesKeeps ==
  ASSUME TypeOK, TypeOK', SkipInv, SelectSources
  PROVE  SkipInv'
  <1> DEFINE all == dirty \/ ObjectChanged(user')
             selected == IF all THEN Listed ELSE AddedOrUpdated
  <1>1. /\ UNCHANGED <<world, outputs, file>> /\ load' = load
        /\ user' = Hashed({"headers", "compile_dependencies"})
        /\ dirty' = (all \/ selected # {} \/ SourceRemoved)
        /\ todo' = selected
        /\ store' = [store EXCEPT !.sources = Listed \ selected]
        /\ phase = "objects" /\ phase' = "compile" /\ taskState' = taskState
    BY DEF SelectSources
  <1>2. /\ cfg' = cfg /\ srcs' = srcs /\ ver' = ver /\ pch' = pch /\ obj' = obj
        /\ HasPch' = HasPch
    BY <1>1, SameWorld DEF world, outputs
  <1>3. /\ ~store.target_linked /\ load = file
        /\ \A r1, r2 \in file : r1 = r2
    BY <1>1 DEF SkipInv, PhaseInv, ReadInv
  <1>4. /\ store'.pchs = store.pchs /\ store'.pch_compiled = store.pch_compiled
        /\ store'.sources = Listed \ selected /\ ~store'.target_linked
    <2>1. store \in Recorded
      BY DEF TypeOK, ProcessType
    <2> DEFINE kept == Listed \ selected
    <2>2. store' = [store EXCEPT !.sources = kept]
      BY <1>1
    <2> HIDE DEF kept
    <2>3. /\ store'.pchs = store.pchs /\ store'.pch_compiled = store.pch_compiled
          /\ store'.sources = kept /\ store'.target_linked = store.target_linked
      BY <2>1, <2>2 DEF Recorded
    <2>4. QED
      BY <1>3, <2>3 DEF kept
  <1>5. /\ \A f \in Fields \ Reverts : UpdatedStore'.cfg[f] <= cfg[f]
        /\ \A f \in Fields : user'[f] <= cfg[f]
        /\ Agree(user', cfg, FlagFields)
        /\ store.pch_compiled => user'["headers"] = cfg["headers"]
        /\ PchUpToDate(UpdatedStore)' => PchUpToDate(UpdatedStore)
        /\ Agree(user', cfg, ObjectCompared)
    BY <1>1, <1>4, RereadHeaders
  <1>6. selected \subseteq Listed
    BY DEF AddedOrUpdated
  <1>7. ~all => \A p \in Listed \ selected : \E r \in file :
          /\ p \in r.sources
          /\ ~dirty /\ Agree(r.cfg, cfg, ObjectCompared)
    BY <1>3, <1>5 DEF AddedOrUpdated, ObjectChanged, Agree
  <1>8. all => \A r \in file : ~NothingToDo(r)
                 /\ \A s : ~ObjectUpToDate(r, s)
    <2>1. CASE dirty
      BY <1>1, <2>1
         DEF SkipInv, WriteInv, NothingToDo, ObjectUpToDate, PchUpToDate
    <2>2. CASE ObjectChanged(user')
      <3>1. \A r \in file : ~Agree(r.cfg, user', ObjectCompared)
        BY <1>3, <2>2 DEF ObjectChanged
      <3>2. \A r \in file : ~Agree(r.cfg, cfg, ObjectCompared)
        BY <1>5, <3>1 DEF Agree
      <3>3. QED
        BY <3>2 DEF NothingToDo, ObjectUpToDate
    <2>3. QED
      BY <2>1, <2>2
  <1>9. ~all => selected = AddedOrUpdated
    OBVIOUS
  <1>10. all => selected = Listed
    OBVIOUS
  <1>11. Listed = {<<s, ver[s]>> : s \in srcs} /\ srcs \subseteq Sources
           /\ \A s \in Sources : ver[s] \in Int
    BY VersionFacts DEF Listed, TypeOK, WorldType
  <1>12. dirty' => \A r \in file : ~NothingToDo(r)
    <2>1. CASE all
      BY <1>8, <2>1
    <2>2. CASE ~all /\ AddedOrUpdated # {}
      BY <1>3, <2>2 DEF AddedOrUpdated, NothingToDo
    <2>3. CASE SourceRemoved
      BY <1>3, <1>11, <2>3 DEF SourceRemoved, NothingToDo
    <2>4. QED
      BY <1>1, <1>9, <2>1, <2>2, <2>3
  <1>13. \A p \in selected : \A r \in file : ~ObjectUpToDate(r, p[1])
    <2>1. CASE all
      BY <1>8, <2>1
    <2>2. CASE ~all
      <3>1. \A p \in AddedOrUpdated : p = <<p[1], ver[p[1]]>>
                                       /\ \A r \in file : p \notin r.sources
        BY <1>3, <1>11 DEF AddedOrUpdated
      <3>2. QED
        BY <1>9, <2>2, <3>1 DEF ObjectUpToDate
    <2>3. QED
      BY <2>1, <2>2
  <1> HIDE DEF all, selected
  <1>14. UpdatedStore'.sources = Listed \ selected
           /\ ~UpdatedStore'.target_linked
           /\ UpdatedStore'.pch_compiled = store.pch_compiled
    BY <1>4, UpdatedStoreFieldsNext
  <1>15. Past(UpdatedStore)'
    BY <1>2, <1>5, <1>11, <1>14 DEF Past
  <1>16. ASSUME NEW s \in srcs, ObjectUpToDate(UpdatedStore, s)'
         PROVE  obj[s] = {CleanObject(s)}
    <2>1. /\ <<s, ver[s]>> \in Listed \ selected
          /\ HasPch => PchUpToDate(UpdatedStore)
      BY <1>2, <1>5, <1>14, <1>16 DEF ObjectUpToDate
    <2>2. ~all
      BY <1>10, <2>1
    <2>3. PICK r \in file : <<s, ver[s]>> \in r.sources
            /\ ~dirty /\ Agree(r.cfg, cfg, ObjectCompared)
      BY <1>7, <2>1, <2>2
    <2>4. HasPch => PchUpToDate(r)
      <3> SUFFICES ASSUME HasPch PROVE PchUpToDate(r)
        OBVIOUS
      <3>1. PchUpToDate(UpdatedStore) /\ store.pch_compiled
        BY <2>1, UpdatedStoreFields DEF PchUpToDate
      <3>2. Agree(r.cfg, UpdatedStore.cfg, PchCompared) /\ r.pch_compiled
        BY <1>1, <2>3, <3>1 DEF SkipInv, WriteInv
      <3>3. QED
        BY <3>1, <3>2 DEF PchUpToDate, Agree
    <2>5. ObjectUpToDate(r, s)
      BY <2>3, <2>4 DEF ObjectUpToDate
    <2>6. QED
      BY <2>5 DEF SkipInv, SchemasInv, Schemas, Sound
  <1>17. Sound(UpdatedStore)'
    <2>1. HasPch /\ PchUpToDate(UpdatedStore) => pch = CleanPch
      BY DEF SkipInv, SchemasInv, Schemas, Sound
    <2>2. ~NothingToDo(UpdatedStore)'
      BY <1>14 DEF NothingToDo
    <2>3. QED
      BY <1>1, <1>2, <1>5, <1>16, <2>1, <2>2, SameWorld DEF Sound
  <1>18. SchemasInv'
    BY <1>1, <1>15, <1>17, OnlyTheStoreChanges DEF SkipInv
  <1>19. ReadInv'
    BY <1>1, <1>2, <1>3, <1>4, <1>5 DEF SkipInv, ReadInv
  <1>20. PhaseInv'
    BY <1>1, <1>4 DEF PhaseInv
  <1>21. TodoInv'
    <2>1. \A p, q \in Listed : p[1] \in srcs /\ p[2] <= ver[p[1]]
                                /\ (q[1] = p[1] => q = p)
      BY <1>11
    <2>2. QED
      BY <1>1, <1>2, <1>4, <1>6, <2>1 DEF TodoInv
  <1>22. RecordedInv'
    <2>1. store'.sources \cup todo' = Listed
      BY <1>1, <1>4, <1>6
    <2>2. \A s \in srcs : <<s, ver[s]>> \in Listed /\ <<s, ver[s]>>[1] = s
      BY <1>11
    <2>3. QED
      BY <1>2, <2>1, <2>2 DEF RecordedInv
  <1>23. WriteInv'
    BY <1>1, <1>2, <1>12, <1>13, SameWorld DEF WriteInv
  <1>24. QED
    BY <1>18, <1>19, <1>20, <1>21, <1>22, <1>23 DEF SkipInv

(* What both outcomes of a compile subtask rest on. *)
LEMMA SubtaskFacts ==
  ASSUME TypeOK, SkipInv, phase = "compile", NEW p \in todo
  PROVE  /\ p[1] \in srcs /\ p[1] \in Sources /\ p[2] <= ver[p[1]]
         /\ \A q \in todo : q[1] = p[1] => q = p
         /\ \A q \in store.sources : q[1] # p[1]
         /\ \A r \in file : ~ObjectUpToDate(r, p[1]) /\ ~NothingToDo(r)
         /\ ~store.target_linked /\ load = file
         /\ Agree(user, cfg, FlagFields)
  <1>1. /\ p[1] \in srcs /\ p[2] <= ver[p[1]]
        /\ \A q \in todo : q[1] = p[1] => q = p
        /\ \A q \in store.sources : q[1] # p[1]
        /\ \A r \in file : ~ObjectUpToDate(r, p[1])
        /\ ~store.target_linked /\ load = file
        /\ Agree(user, cfg, FlagFields)
    BY DEF SkipInv, TodoInv, WriteInv, PhaseInv, ReadInv
  <1>2. p[1] \in Sources
    BY <1>1 DEF TypeOK, WorldType
  <1>3. \A r \in file : ~NothingToDo(r)
    BY <1>1 DEF NothingToDo, ObjectUpToDate, PchUpToDate, Listed
  <1>4. QED
    BY <1>1, <1>2, <1>3

LEMMA CompileSourceKeeps ==
  ASSUME TypeOK, TypeOK', SkipInv, NEW p \in todo, CompileSource(p)
  PROVE  SkipInv'
  <1> DEFINE made == [src |-> ver[p[1]],
                      in  |-> [f \in ObjectInputs |-> ObjectArg(f, Arg(f))],
                      pch |-> IF HasPch THEN pch ELSE {}]
  <1>1. /\ UNCHANGED <<world, pch, bin, file, load, user, dirty, taskState>>
        /\ obj' = [obj EXCEPT ![p[1]] = {made}]
        /\ store' = [store EXCEPT !.sources = store.sources \cup {p}]
        /\ todo' = todo \ {p}
        /\ phase = "compile" /\ phase' = "compile"
    BY DEF CompileSource
  <1>2. /\ cfg' = cfg /\ srcs' = srcs /\ ver' = ver /\ HasPch' = HasPch
    BY <1>1, SameWorld DEF world
  <1>3. /\ p[1] \in srcs /\ p[1] \in Sources /\ p[2] <= ver[p[1]]
        /\ \A q \in todo : q[1] = p[1] => q = p
        /\ \A q \in store.sources : q[1] # p[1]
        /\ \A r \in file : ~ObjectUpToDate(r, p[1]) /\ ~NothingToDo(r)
        /\ ~store.target_linked /\ load = file
        /\ Agree(user, cfg, FlagFields)
    BY <1>1, SubtaskFacts
  <1>4. /\ store'.sources = store.sources \cup {p}
        /\ store'.pchs = store.pchs /\ store'.pch_compiled = store.pch_compiled
        /\ store'.target_linked = store.target_linked
    <2>1. store \in Recorded
      BY DEF TypeOK, ProcessType
    <2> DEFINE more == store.sources \cup {p}
    <2>2. store' = [store EXCEPT !.sources = more]
      BY <1>1
    <2> HIDE DEF more
    <2>3. /\ store'.sources = more
          /\ store'.pchs = store.pchs /\ store'.pch_compiled = store.pch_compiled
          /\ store'.target_linked = store.target_linked
      BY <2>1, <2>2 DEF Recorded
    <2>4. QED
      BY <2>3 DEF more
  <1>5. /\ UpdatedStore'.sources = store.sources \cup {p}
        /\ \A f \in Fields : UpdatedStore'.cfg[f] = UpdatedStore.cfg[f]
        /\ UpdatedStore'.pch_compiled = UpdatedStore.pch_compiled
        /\ ~UpdatedStore'.target_linked
    BY <1>1, <1>3, <1>4, UpdatedStoreFields, UpdatedStoreFieldsNext
  <1>6. Past(UpdatedStore) /\ Sound(UpdatedStore)
    BY DEF SkipInv, SchemasInv, Schemas
  <1>7. Past(UpdatedStore)'
    BY <1>2, <1>3, <1>5, <1>6, UpdatedStoreFields DEF Past
  <1>8. PchUpToDate(UpdatedStore)' = PchUpToDate(UpdatedStore)
    BY <1>2, <1>5, FieldFacts DEF PchUpToDate, Agree
  <1>9. ASSUME NEW s \in srcs, ObjectUpToDate(UpdatedStore, s)'
        PROVE  obj'[s] = {CleanObject(s)}
    <2>1. /\ \A f \in ObjectCompared : UpdatedStore.cfg[f] = cfg[f]
          /\ <<s, ver[s]>> \in store.sources \cup {p}
          /\ HasPch => PchUpToDate(UpdatedStore)
      BY <1>2, <1>5, <1>8, <1>9, FieldFacts DEF ObjectUpToDate, Agree
    <2>2. CASE s = p[1]
      <3>1. \A f \in ObjectInputs : Arg(f) = cfg[f]
        BY <2>1, UpdatedStoreFields, FieldFacts DEF Arg
      <3>2. HasPch => pch = CleanPch
        BY <1>6, <2>1 DEF Sound
      <3>3. (IF HasPch THEN pch ELSE {}) = CleanPch
        BY <3>2 DEF CleanPch
      <3>4. made = CleanObject(s)
        BY <2>2, <3>1, <3>3 DEF CleanObject
      <3> HIDE DEF made
      <3>5. QED
        BY <1>1, <1>3, <2>2, <3>4 DEF TypeOK, OutputType
    <2>3. CASE s # p[1]
      <3>1. ObjectUpToDate(UpdatedStore, s)
        BY <2>1, <2>3, UpdatedStoreFields DEF ObjectUpToDate, Agree
      <3>2. obj[s] = {CleanObject(s)}
        BY <1>6, <3>1 DEF Sound
      <3> HIDE DEF made
      <3>3. QED
        BY <1>1, <2>3, <3>2 DEF TypeOK, WorldType, OutputType
    <2>4. QED
      BY <2>2, <2>3
  <1> HIDE DEF made
  <1>10. Sound(UpdatedStore)'
    <2>1. ~NothingToDo(UpdatedStore)'
      BY <1>5 DEF NothingToDo
    <2>2. QED
      BY <1>1, <1>2, <1>6, <1>8, <1>9, <2>1, SameWorld DEF Sound
  <1>11. ASSUME NEW r \in file PROVE Past(r)' /\ Sound(r)'
    <2>1. Past(r) /\ Sound(r) /\ ~ObjectUpToDate(r, p[1]) /\ ~NothingToDo(r)
      BY <1>3 DEF SkipInv, SchemasInv, Schemas
    <2>2. ASSUME NEW s \in srcs, ObjectUpToDate(r, s) PROVE obj'[s] = obj[s]
      BY <1>1, <2>1, <2>2 DEF TypeOK, WorldType, OutputType
    <2>3. QED
      BY <1>1, <1>2, <2>1, <2>2, SameWorld DEF Sound
  <1>12. SchemasInv'
    BY <1>1, <1>7, <1>10, <1>11 DEF SchemasInv, Schemas
  <1>13. ReadInv'
    BY <1>1, <1>2, <1>4 DEF SkipInv, ReadInv
  <1>14. PhaseInv'
    BY <1>1, <1>3, <1>4 DEF PhaseInv
  <1>15. TodoInv'
    BY <1>1, <1>2, <1>3, <1>4 DEF SkipInv, TodoInv
  <1>16. RecordedInv'
    <2>1. store'.sources \cup todo' = store.sources \cup todo
      BY <1>1, <1>4
    <2>2. QED
      BY <1>1, <1>2, <2>1 DEF SkipInv, RecordedInv
  <1>17. WriteInv'
    BY <1>1, <1>3, SameWorld DEF SkipInv, WriteInv
  <1>18. QED
    BY <1>12, <1>13, <1>14, <1>15, <1>16, <1>17 DEF SkipInv

LEMMA CompileSourceFailsKeeps ==
  ASSUME TypeOK, TypeOK', SkipInv, NEW p \in todo, CompileSourceFails(p)
  PROVE  SkipInv'
  <1>1. /\ UNCHANGED <<world, pch, bin, file, load, user, store, dirty>>
        /\ todo' = todo \ {p} /\ taskState' = "FAILURE"
        /\ phase = "compile" /\ phase' = "compile"
        /\ UpdatedStore' = UpdatedStore
    BY DEF CompileSourceFails, Fail, UpdatedStore
  <1>2. /\ cfg' = cfg /\ srcs' = srcs /\ ver' = ver /\ HasPch' = HasPch
    BY <1>1, SameWorld DEF world
  <1>3. /\ p[1] \in srcs /\ p[1] \in Sources
        /\ \A q \in store.sources : q[1] # p[1]
        /\ \A r \in file : ~ObjectUpToDate(r, p[1])
        /\ ~store.target_linked /\ load = file
    BY <1>1, SubtaskFacts
  <1>4. \A s \in srcs : s # p[1] => obj'[s] = obj[s]
    BY DEF CompileSourceFails, TypeOK, WorldType, OutputType
  <1>5. ~ObjectUpToDate(UpdatedStore, p[1])
    BY <1>3, UpdatedStoreFields DEF ObjectUpToDate
  <1>6. ASSUME NEW r \in Schemas PROVE Past(r)' /\ Sound(r)'
    <2>1. Past(r) /\ Sound(r) /\ ~ObjectUpToDate(r, p[1])
      BY <1>3, <1>5 DEF SkipInv, SchemasInv, Schemas
    <2>2. QED
      BY <1>1, <1>2, <1>4, <2>1, SameWorld DEF Sound
  <1>7. SchemasInv'
    BY <1>1, <1>6 DEF SchemasInv, Schemas
  <1>8. ReadInv' /\ PhaseInv' /\ RecordedInv'
    BY <1>1, <1>2, <1>3 DEF SkipInv, ReadInv, PhaseInv, RecordedInv
  <1>9. TodoInv'
    BY <1>1, <1>2 DEF SkipInv, TodoInv
  <1>10. WriteInv'
    BY <1>1, SameWorld DEF SkipInv, WriteInv
  <1>11. QED
    BY <1>7, <1>8, <1>9, <1>10 DEF SkipInv

-----------------------------------------------------------------------------
(* The Target task *)

(* Reading the libraries changes nothing that concerns the compiler. *)
LEMMA ReadLibraries ==
  ASSUME TypeOK, TypeOK', SkipInv, phase = "link", UNCHANGED <<world, outputs>>,
         NEW S \in SUBSET {"libs", "link_dependencies"},
         user' = Hashed(S), store' = store
  PROVE  /\ Past(UpdatedStore)' /\ Sound(UpdatedStore)'
         /\ \A f \in Fields : user'[f] <= cfg[f]
         /\ Agree(user', cfg, FlagFields)
         /\ user'["headers"] = user["headers"]
         /\ S = {"libs", "link_dependencies"} => Agree(user', cfg, LinkCompared)
  <1>1. /\ \A f \in Fields : user'[f] <= cfg[f]
        /\ \A f \in Fields : user'[f] = IF f \in S THEN cfg[f] ELSE user[f]
        /\ Agree(user', cfg, FlagFields \cup (S \cap Fields))
    BY HashedFacts DEF SkipInv
  <1>2. /\ cfg' = cfg /\ srcs' = srcs /\ ver' = ver /\ pch' = pch /\ obj' = obj
        /\ HasPch' = HasPch
    BY SameWorld DEF world, outputs
  <1>3. "pchs" \in Fields /\ "headers" \in Fields /\ "headers" \notin S
    BY FieldFacts
  <1>4. \A f \in PchCompared \cup ObjectCompared : f \in Fields /\ f \notin S
    BY FieldFacts
  <1>5. /\ \A f \in PchCompared \cup ObjectCompared :
             UpdatedStore'.cfg[f] = UpdatedStore.cfg[f]
        /\ UpdatedStore'.pch_compiled = UpdatedStore.pch_compiled
        /\ UpdatedStore'.sources = UpdatedStore.sources
        /\ ~UpdatedStore'.target_linked /\ ~UpdatedStore.target_linked
    BY <1>1, <1>4, UpdatedStoreFields, UpdatedStoreFieldsNext
       DEF SkipInv, PhaseInv
  <1>6. Past(UpdatedStore) /\ Sound(UpdatedStore)
    BY DEF SkipInv, SchemasInv, Schemas
  <1>7. Past(UpdatedStore)'
    <2>1. "pchs" \notin Reverts => store.pchs <= cfg["pchs"]
      BY <1>3, <1>6, UpdatedStoreFields DEF Past
    <2>2. \A f \in Fields \ Reverts : UpdatedStore'.cfg[f] <= cfg[f]
      BY <1>1, <2>1, UpdatedStoreFieldsNext
    <2>3. QED
      BY <1>2, <1>5, <1>6, <2>2 DEF Past
  <1>8. /\ PchUpToDate(UpdatedStore)' = PchUpToDate(UpdatedStore)
        /\ \A s : ObjectUpToDate(UpdatedStore, s)' = ObjectUpToDate(UpdatedStore, s)
    BY <1>2, <1>5 DEF PchUpToDate, ObjectUpToDate, Agree
  <1>9. Sound(UpdatedStore)'
    <2>1. ~NothingToDo(UpdatedStore)'
      BY <1>5 DEF NothingToDo
    <2>2. QED
      BY <1>2, <1>6, <1>8, <2>1, SameWorld DEF Sound
  <1>10. S = {"libs", "link_dependencies"} => Agree(user', cfg, LinkCompared)
    BY <1>1, FieldFacts DEF Agree
  <1>11. QED
    BY <1>1, <1>3, <1>7, <1>9, <1>10 DEF Agree

LEMMA LinkReadsKeeps ==
  ASSUME TypeOK, TypeOK', SkipInv, LinkCheck \/ LinkHashFails
  PROVE  SkipInv'
  <1>1. /\ UNCHANGED <<world, outputs, file>> /\ load' = load /\ todo' = todo
        /\ store' = store /\ phase = "link" /\ phase' \in {"link_exec", "end"}
    BY DEF LinkCheck, LinkHashFails
  <1>2. /\ cfg' = cfg /\ srcs' = srcs /\ ver' = ver /\ pch' = pch
        /\ HasPch' = HasPch
    BY <1>1, SameWorld DEF world, outputs
  <1>3. PICK S \in SUBSET {"libs", "link_dependencies"} :
          user' = Hashed(S) /\ (LinkCheck => S = {"libs", "link_dependencies"})
    <2>1. CASE LinkCheck
      BY <2>1 DEF LinkCheck
    <2>2. CASE LinkHashFails /\ ~LinkCheck
      BY <2>2 DEF LinkHashFails
    <2>3. QED
      BY <2>1, <2>2
  <1>4. /\ Past(UpdatedStore)' /\ Sound(UpdatedStore)'
        /\ \A f \in Fields : user'[f] <= cfg[f]
        /\ Agree(user', cfg, FlagFields)
        /\ user'["headers"] = user["headers"]
        /\ LinkCheck => Agree(user', cfg, LinkCompared)
    BY <1>1, <1>3, ReadLibraries
  <1>5. /\ ~store.target_linked /\ todo = {} /\ load = file
        /\ \A r1, r2 \in file : r1 = r2
    BY <1>1 DEF SkipInv, PhaseInv, ReadInv
  <1>6. phase' = "link_exec" =>
          /\ \A r \in file : ~NothingToDo(r)
          /\ taskState = "SUCCESS"
    <2> SUFFICES ASSUME phase' = "link_exec"
                 PROVE  /\ \A r \in file : ~NothingToDo(r)
                        /\ taskState = "SUCCESS"
      OBVIOUS
    <2>1. LinkCheck
      BY DEF LinkHashFails
    <2>2. taskState = "SUCCESS" /\ (dirty \/ LinkChanged(user'))
      BY <2>1 DEF LinkCheck
    <2>3. CASE dirty
      BY <1>1, <2>2, <2>3 DEF SkipInv, WriteInv
    <2>4. CASE LinkChanged(user')
      <3>1. \A r \in file :
              ~Agree(r.cfg, user', LinkCompared) \/ ~r.target_linked
        BY <1>5, <2>4 DEF LinkChanged
      <3>2. QED
        BY <1>4, <2>1, <2>2, <3>1 DEF NothingToDo, Agree
    <2>5. QED
      BY <2>2, <2>3, <2>4
  <1>7. SchemasInv'
    BY <1>1, <1>4, OnlyTheStoreChanges DEF SkipInv
  <1>8. ReadInv'
    BY <1>1, <1>2, <1>4, <1>5 DEF SkipInv, ReadInv
  <1>9. PhaseInv' /\ TodoInv'
    BY <1>1, <1>5 DEF PhaseInv, TodoInv
  <1>10. RecordedInv'
    BY <1>1, <1>2, <1>6 DEF SkipInv, RecordedInv
  <1>11. WriteInv'
    <2>1. \A r : NothingToDo(r)' = NothingToDo(r)
      BY <1>1, SameWorld
    <2>2. QED
      BY <1>1, <1>6, <2>1 DEF WriteInv
  <1>12. QED
    BY <1>7, <1>8, <1>9, <1>10, <1>11 DEF SkipInv

LEMMA LinkExecuteKeeps ==
  ASSUME TypeOK, TypeOK', SkipInv, LinkExecute
  PROVE  SkipInv'
  <1> DEFINE made == [in   |-> [f \in LinkInputs |-> Arg(f)],
                      objs |-> [s \in srcs |-> obj[s]]]
  <1>1. /\ UNCHANGED <<world, pch, obj, file, load, user, dirty, todo>>
        /\ bin' = {made}
        /\ store' = [store EXCEPT !.target_linked = TRUE]
        /\ phase = "link_exec" /\ phase' = "end"
    BY DEF LinkExecute
  <1>2. /\ cfg' = cfg /\ srcs' = srcs /\ ver' = ver /\ HasPch' = HasPch
    BY <1>1, SameWorld DEF world
  <1>3. /\ store'.pchs = store.pchs /\ store'.pch_compiled = store.pch_compiled
        /\ store'.sources = store.sources
    BY <1>1 DEF TypeOK, ProcessType, Recorded
  <1>4. /\ todo = {} /\ load = file /\ Agree(user, cfg, FlagFields)
        /\ \A r \in file : ~NothingToDo(r)
        /\ \A s \in srcs : \E p \in store.sources : p[1] = s
    BY <1>1 DEF SkipInv, PhaseInv, ReadInv, WriteInv, RecordedInv
  <1>5. /\ \A f \in Fields : UpdatedStore'.cfg[f] = UpdatedStore.cfg[f]
        /\ UpdatedStore'.pch_compiled = UpdatedStore.pch_compiled
        /\ UpdatedStore'.sources = UpdatedStore.sources
    BY <1>1, <1>3, UpdatedStoreFields, UpdatedStoreFieldsNext
  <1>6. Past(UpdatedStore) /\ Sound(UpdatedStore)
    BY DEF SkipInv, SchemasInv, Schemas
  <1>7. Past(UpdatedStore)'
    BY <1>2, <1>4, <1>5, <1>6, UpdatedStoreFields DEF Past
  <1>8. /\ PchUpToDate(UpdatedStore)' = PchUpToDate(UpdatedStore)
        /\ \A s : ObjectUpToDate(UpdatedStore, s)' = ObjectUpToDate(UpdatedStore, s)
    BY <1>2, <1>5, FieldFacts DEF PchUpToDate, ObjectUpToDate, Agree
  <1>9. NothingToDo(UpdatedStore)' => bin' = {CleanBinary}
    <2> SUFFICES ASSUME NothingToDo(UpdatedStore)' PROVE bin' = {CleanBinary}
      OBVIOUS
    <2>1. /\ HasPch => PchUpToDate(UpdatedStore)
          /\ \A f \in ObjectCompared : UpdatedStore.cfg[f] = cfg[f]
          /\ \A f \in LinkCompared : UpdatedStore.cfg[f] = cfg[f]
          /\ UpdatedStore.sources = Listed
      BY <1>1, <1>2, <1>5, <1>8, SameWorld, FieldFacts
         DEF NothingToDo, PchUpToDate, Agree
    <2>2. \A s \in srcs : ObjectUpToDate(UpdatedStore, s)
      BY <2>1 DEF ObjectUpToDate, Agree, Listed
    <2>3. \A s \in srcs : obj[s] = {CleanObject(s)}
      BY <1>6, <2>2 DEF Sound
    <2>4. \A f \in LinkInputs : Arg(f) = cfg[f]
      BY <2>1, UpdatedStoreFields, FieldFacts DEF Arg
    <2>5. made = CleanBinary
      BY <2>3, <2>4 DEF CleanBinary
    <2> HIDE DEF made
    <2>6. QED
      BY <1>1, <2>5
  <1> HIDE DEF made
  <1>10. Sound(UpdatedStore)'
    BY <1>1, <1>2, <1>6, <1>8, <1>9, SameWorld DEF Sound
  <1>11. ASSUME NEW r \in file PROVE Past(r)' /\ Sound(r)'
    <2>1. Past(r) /\ Sound(r) /\ ~NothingToDo(r)
      BY <1>4 DEF SkipInv, SchemasInv, Schemas
    <2>2. QED
      BY <1>1, <1>2, <2>1, SameWorld DEF Sound
  <1>12. SchemasInv'
    BY <1>1, <1>7, <1>10, <1>11 DEF SchemasInv, Schemas
  <1>13. ReadInv'
    BY <1>1, <1>2, <1>3, <1>4 DEF SkipInv, ReadInv
  <1>14. PhaseInv' /\ TodoInv' /\ RecordedInv' /\ WriteInv'
    BY <1>1, <1>4 DEF PhaseInv, TodoInv, RecordedInv, WriteInv
  <1>15. QED
    BY <1>12, <1>13, <1>14 DEF SkipInv

LEMMA LinkExecuteFailsKeeps ==
  ASSUME TypeOK, TypeOK', SkipInv, LinkExecuteFails
  PROVE  SkipInv'
  <1>1. /\ UNCHANGED <<world, pch, obj, file, load, user, store, dirty, todo>>
        /\ phase = "link_exec" /\ phase' = "end"
        /\ UpdatedStore' = UpdatedStore
    BY DEF LinkExecuteFails, process, UpdatedStore
  <1>2. /\ cfg' = cfg /\ srcs' = srcs /\ ver' = ver /\ HasPch' = HasPch
    BY <1>1, SameWorld DEF world
  <1>3. /\ todo = {} /\ load = file /\ ~store.target_linked
        /\ \A r \in file : ~NothingToDo(r)
    BY <1>1 DEF SkipInv, PhaseInv, ReadInv, WriteInv
  <1>4. ~NothingToDo(UpdatedStore)
    BY <1>3, UpdatedStoreFields DEF NothingToDo
  <1>5. ASSUME NEW r \in Schemas PROVE Past(r)' /\ Sound(r)'
    <2>1. Past(r) /\ Sound(r) /\ ~NothingToDo(r)
      BY <1>3, <1>4 DEF SkipInv, SchemasInv, Schemas
    <2>2. QED
      BY <1>1, <1>2, <2>1, SameWorld DEF Sound
  <1>6. SchemasInv'
    BY <1>1, <1>5 DEF SchemasInv, Schemas
  <1>7. ReadInv'
    BY <1>1, <1>2, <1>3 DEF SkipInv, ReadInv
  <1>8. PhaseInv' /\ TodoInv' /\ RecordedInv' /\ WriteInv'
    BY <1>1, <1>3 DEF PhaseInv, TodoInv, RecordedInv, WriteInv
  <1>9. QED
    BY <1>6, <1>7, <1>8 DEF SkipInv

-----------------------------------------------------------------------------
(* The End task, and the end of the process *)

LEMMA EndWritesKeeps ==
  ASSUME TypeOK, TypeOK', SkipInv, EndStore \/ EndStoreFails
  PROVE  SkipInv'
  <1>1. /\ UNCHANGED <<world, outputs>> /\ load' = load /\ user' = user
        /\ store' = store /\ dirty' = dirty /\ todo' = todo
        /\ UpdatedStore' = UpdatedStore
        /\ phase = "end" /\ phase' = "exit"
        /\ file' \in {{UpdatedStore}, file, {}}
    BY DEF EndStore, EndStoreFails, process, UpdatedStore
  <1>2. /\ cfg' = cfg /\ srcs' = srcs /\ pch' = pch /\ HasPch' = HasPch
    BY <1>1, SameWorld DEF world, outputs
  <1>3. SchemasInv'
    BY <1>1, SameWorld, SameOutputs DEF SkipInv, SchemasInv, Schemas
  <1>4. ReadInv'
    BY <1>1, <1>2 DEF SkipInv, ReadInv
  <1>5. PhaseInv' /\ TodoInv' /\ RecordedInv' /\ WriteInv'
    BY <1>1 DEF SkipInv, PhaseInv, TodoInv, RecordedInv, WriteInv
  <1>6. QED
    BY <1>3, <1>4, <1>5 DEF SkipInv

(* A process that is gone leaves the schema on disk, and outputs the schema  *)
(* does not vouch for if they were being written.                            *)
LEMMA ProcessEndKeeps ==
  ASSUME TypeOK, TypeOK', SkipInv, RunBuild \/ Interrupt
  PROVE  SkipInv'
  <1>1. /\ UNCHANGED world /\ phase' = "idle" /\ load' = {}
        /\ user' = NothingRead /\ store' = EmptyStore /\ ~dirty' /\ todo' = {}
        /\ file' \in {file, {}} /\ phase # "idle"
    BY DEF RunBuild, Interrupt, ProcessGone
  <1>2. /\ cfg' = cfg /\ srcs' = srcs /\ ver' = ver /\ HasPch' = HasPch
    BY <1>1, SameWorld DEF world
  <1>3. /\ phase # "pch_exec" => pch' = pch
        /\ pch' \in {pch, {}}
        /\ \A s \in srcs :
             obj'[s] = obj[s] \/ (phase = "compile" /\ \E p \in todo : p[1] = s)
        /\ phase # "link_exec" => bin' = bin
    BY DEF RunBuild, Interrupt, outputs, TypeOK, WorldType, OutputType
  <1>4. Past(UpdatedStore)' /\ Sound(UpdatedStore)'
    <2>1. /\ ~UpdatedStore'.pch_compiled /\ UpdatedStore'.sources = {}
          /\ ~UpdatedStore'.target_linked
          /\ \A f \in Fields : UpdatedStore'.cfg[f] = 0
      BY <1>1, UpdatedStoreFieldsNext DEF EmptyStore, NothingRead, Empty
    <2>2. \A f \in Fields : 0 <= cfg[f]
      BY VersionFacts DEF TypeOK, WorldType
    <2>3. QED
      BY <1>2, <2>1, <2>2
         DEF Past, Sound, PchUpToDate, ObjectUpToDate, NothingToDo
  <1>5. ASSUME NEW r \in file PROVE Past(r)' /\ Sound(r)'
    <2>1. /\ Past(r) /\ Sound(r)
          /\ phase = "pch_exec" => ~PchUpToDate(r)
          /\ phase = "compile" => \A p \in todo : ~ObjectUpToDate(r, p[1])
          /\ phase = "link_exec" => ~NothingToDo(r)
      BY DEF SkipInv, SchemasInv, Schemas, WriteInv
    <2>2. \A s \in srcs : ObjectUpToDate(r, s) => obj'[s] = obj[s]
      BY <1>3, <2>1
    <2>3. QED
      BY <1>1, <1>2, <1>3, <2>1, <2>2, SameWorld DEF Sound
  <1>6. SchemasInv'
    BY <1>1, <1>4, <1>5 DEF SchemasInv, Schemas
  <1>7. ReadInv'
    <2>1. \A f \in Fields : user'[f] <= cfg[f]
      BY <1>1, VersionFacts DEF NothingRead, Empty, TypeOK, WorldType
    <2>2. QED
      BY <1>1, <1>2, <1>3, <2>1 DEF SkipInv, ReadInv
  <1>8. PhaseInv' /\ TodoInv' /\ RecordedInv' /\ WriteInv'
    BY <1>1 DEF PhaseInv, TodoInv, RecordedInv, WriteInv, EmptyStore
  <1>9. QED
    BY <1>6, <1>7, <1>8 DEF SkipInv

-----------------------------------------------------------------------------
(* Histories in which values go back to earlier ones: the user *)

(* Fields the run has read again are those of the world. *)
LEMMA ReadsTheWorld ==
  ASSUME TypeOK, SkipInv, phase # "idle", NEW S
  PROVE  /\ \A f \in Fields : Hashed(S)[f] = IF f \in S THEN cfg[f] ELSE user[f]
         /\ \A f \in FlagFields : user[f] = cfg[f] /\ Hashed(S)[f] = cfg[f]
         /\ \A f \in S \cap Fields : Hashed(S)[f] = cfg[f]
  BY HashedFacts, FieldFacts DEF SkipInv, ReadInv, Agree

(* The record of the Pch task stays true while the later tasks read on. *)
LEMMA PchRecordStays ==
  ASSUME TypeOK, TypeOK', UNCHANGED world, HeldPch(UpdatedStore),
         store'.pchs = store.pchs, store'.pch_compiled = store.pch_compiled,
         \A f \in PchCompared \ {"pchs"} : user'[f] \in {user[f], cfg[f]}
  PROVE  HeldPch(UpdatedStore)'
  <1>1. SUFFICES ASSUME HasPch PROVE PchUpToDate(UpdatedStore)'
    BY SameWorld DEF HeldPch
  <1>2. Agree(UpdatedStore.cfg, cfg, PchCompared) /\ UpdatedStore.pch_compiled
    BY <1>1 DEF HeldPch, PchUpToDate
  <1>3. PchCompared \subseteq Fields
    BY FieldFacts
  <1>4. cfg' = cfg
    BY DEF world
  <1>5. Agree(UpdatedStore'.cfg, cfg', PchCompared)
    <2> SUFFICES ASSUME NEW f \in PchCompared
                 PROVE  UpdatedStore'.cfg[f] = cfg[f]
      BY <1>4 DEF Agree
    <2>1. UpdatedStore.cfg[f] = cfg[f]
      BY <1>2 DEF Agree
    <2>2. QED
      BY <1>3, <2>1, UpdatedStoreFields, UpdatedStoreFieldsNext
  <1>6. QED
    BY <1>2, <1>5, UpdatedStoreFields, UpdatedStoreFieldsNext DEF PchUpToDate

(* What the user does between two runs. *)
LEMMA OrderlyUser ==
  ASSUME Orderly, TypeOK, User
  PROVE  /\ phase = "idle" /\ UNCHANGED <<outputs, file, phase, process, taskState>>
         /\ \A f \in Fields \ Reverts : cfg[f] <= cfg'[f]
         /\ \A s \in Sources : ver[s] <= ver'[s]
         /\ "sources" \notin Reverts =>
              srcs' \ srcs \subseteq Sources \ First /\ srcs \ srcs' \subseteq First
<1> USE DEF TypeOK, WorldType, Orderly
<1>1. /\ \A f \in Fields : cfg[f] \in Int
      /\ \A s \in Sources : ver[s] \in Int
  BY VersionFacts
<1>2. phase = "idle" /\ UNCHANGED <<outputs, file, phase, process, taskState>>
  BY DEF User, EditField, SaveListedFile, SaveSource, RemoveSource, ListSource
<1>3. ASSUME NEW f \in Fields, EditField(f)
      PROVE  /\ \A g \in Fields \ Reverts : cfg[g] <= cfg'[g]
             /\ UNCHANGED <<ver, srcs>>
  BY <1>1, <1>3 DEF EditField, NewValues
<1>4. ASSUME NEW s \in Sources, SaveSource(s)
      PROVE  /\ \A t \in Sources : ver[t] <= ver'[t]
             /\ UNCHANGED <<cfg, srcs>>
  BY <1>1, <1>4 DEF SaveSource
<1>5. ASSUME NEW s \in Sources, RemoveSource(s) \/ ListSource(s)
      PROVE  /\ UNCHANGED <<cfg, ver>>
             /\ "sources" \notin Reverts =>
                  srcs' \ srcs \subseteq Sources \ First /\ srcs \ srcs' \subseteq First
  BY <1>5 DEF RemoveSource, ListSource
<1>6. \A f \in Fields : ~SaveListedFile(f)
  BY DEF SaveListedFile
<1>7. CASE \E f \in Fields : EditField(f)
  BY <1>1, <1>2, <1>3, <1>7
<1>8. CASE \E s \in Sources : SaveSource(s)
  BY <1>1, <1>2, <1>4, <1>8
<1>9. CASE \E s \in Sources : RemoveSource(s) \/ ListSource(s)
  BY <1>1, <1>2, <1>5, <1>9
<1> QED
  BY <1>6, <1>7, <1>8, <1>9 DEF User

(* A schema that describes the world as it is speaks of the outputs that a   *)
(* build from nothing would make: now, or after a step.                      *)
LEMMA RecordedIsClean ==
  ASSUME NEW r, NEW s, Agree(r.cfg, cfg, ObjectCompared),
         HasPch => Agree(r.cfg, cfg, PchCompared), r.pch_compiled = HasPch
  PROVE  RecordedObject(r, <<s, ver[s]>>) = CleanObject(s)
<1>1. <<s, ver[s]>>[2] = ver[s]
  OBVIOUS
<1>2. (IF r.pch_compiled THEN PchFrom(r.cfg) ELSE {}) = CleanPch
  BY FieldFacts DEF CleanPch, PchFrom, Agree
<1>3. \A f \in ObjectInputs :
        (IF f = "pch_object_flags" /\ ~r.pch_compiled THEN Empty ELSE r.cfg[f])
          = ObjectArg(f, cfg[f])
  BY FieldFacts DEF ObjectArg, Agree
<1> QED
  BY <1>1, <1>2, <1>3 DEF RecordedObject, CleanObject

LEMMA RecordedIsCleanNext ==
  ASSUME NEW r, NEW s, Agree(r.cfg, cfg', ObjectCompared),
         HasPch' => Agree(r.cfg, cfg', PchCompared), r.pch_compiled = HasPch'
  PROVE  RecordedObject(r, <<s, ver'[s]>>) = CleanObject(s)'
<1>1. <<s, ver'[s]>>[2] = ver'[s]
  OBVIOUS
<1>2. (IF r.pch_compiled THEN PchFrom(r.cfg) ELSE {}) = CleanPch'
  BY FieldFacts DEF CleanPch, PchFrom, Agree
<1>3. \A f \in ObjectInputs :
        (IF f = "pch_object_flags" /\ ~r.pch_compiled THEN Empty ELSE r.cfg[f])
          = ObjectArg(f, cfg[f])'
  BY FieldFacts DEF ObjectArg, Agree
<1> QED
  BY <1>1, <1>2, <1>3 DEF RecordedObject, CleanObject

(* The binary a schema speaks of, when its sources are those of S.           *)
LEMMA RecordedBinaryIs ==
  ASSUME NEW r, NEW S, NEW v, r.sources = {<<s, v[s]>> : s \in S}
  PROVE  RecordedBinary(r) =
           [in   |-> [f \in LinkInputs |-> r.cfg[f]],
            objs |-> [s \in S |-> {RecordedObject(r, <<s, v[s]>>)}]]
<1>1. {p[1] : p \in r.sources} = S
  <2>1. \A s \in S : <<s, v[s]>> \in r.sources /\ <<s, v[s]>>[1] = s
    OBVIOUS
  <2>2. \A p \in r.sources : p[1] \in S
    OBVIOUS
  <2>3. \A s \in S : \E p \in r.sources : p[1] = s
    BY <2>1
  <2>4. S \subseteq {p[1] : p \in r.sources}
    BY <2>3
  <2>5. {p[1] : p \in r.sources} \subseteq S
    BY <2>2
  <2> QED BY <2>4, <2>5
<1>2. ASSUME NEW s \in S
      PROVE  {RecordedObject(r, p) : p \in {q \in r.sources : q[1] = s}}
               = {RecordedObject(r, <<s, v[s]>>)}
  <2>1. {q \in r.sources : q[1] = s} = {<<s, v[s]>>}
    OBVIOUS
  <2> QED BY <2>1
<1> QED
  BY <1>1, <1>2 DEF RecordedBinary

(* An honest schema is sound, also where it describes the world again. *)
LEMMA HonestEdit ==
  ASSUME Orderly, TypeOK, TypeOK', SkipInv, HonestInv, User,
         NEW r \in file
  PROVE  Past(r)' /\ Sound(r)'
<1>1. /\ phase = "idle" /\ UNCHANGED <<outputs, file, phase, process, taskState>>
      /\ \A f \in Fields \ Reverts : cfg[f] <= cfg'[f]
      /\ \A s \in Sources : ver[s] <= ver'[s]
      /\ "sources" \notin Reverts =>
           srcs' \ srcs \subseteq Sources \ First /\ srcs \ srcs' \subseteq First
  BY OrderlyUser
<1>2. pch' = pch /\ obj' = obj /\ bin' = bin
  BY <1>1 DEF outputs
<1>3. Honest(r) /\ Past(r)
  BY <1>1 DEF HonestInv, FileHonest, SkipInv, SchemasInv, Schemas
<1>4. /\ \A f \in Fields : r.cfg[f] \in Int /\ cfg[f] \in Int /\ cfg'[f] \in Int
      /\ \A s \in Sources : ver[s] \in Int /\ ver'[s] \in Int
      /\ r.sources \subseteq Sources \X Int
      /\ r.pch_compiled \in BOOLEAN
      /\ srcs \subseteq Sources /\ srcs' \subseteq Sources
      /\ "pchs" \in Fields
  <2>1. r \in Schema
    BY SchemasType DEF Schemas
  <2> QED
    BY <2>1, VersionFacts, FieldFacts DEF TypeOK, WorldType, Schema
<1>5. Past(r)'
  <2>1. \A f \in Fields \ Reverts : r.cfg[f] <= cfg'[f]
    BY <1>1, <1>3, <1>4 DEF Past
  <2>2. \A p \in r.sources : p[2] <= ver'[p[1]]
    BY <1>1, <1>3, <1>4 DEF Past
  <2>3. ASSUME "sources" \notin Reverts
        PROVE  /\ \A p \in r.sources : p[1] \in First \cup srcs'
               /\ r.target_linked =>
                    \A s \in First \cap srcs' : \E p \in r.sources : p[1] = s
    BY <1>1, <1>3, <2>3 DEF Past
  <2> QED
    BY <2>1, <2>2, <2>3 DEF Past
<1>6. r.pch_compiled => HasPch'
  <2>1. SUFFICES ASSUME r.pch_compiled PROVE cfg'["pchs"] # Empty
    BY DEF HasPch
  <2>2. r.cfg["pchs"] \in Version /\ r.cfg["pchs"] # Empty
    BY <1>3, <2>1 DEF Honest
  <2>3. r.cfg["pchs"] <= cfg'["pchs"]
    BY <1>4, <1>5 DEF Past, Orderly
  <2> QED
    BY <1>4, <2>2, <2>3, VersionFacts DEF Empty
<1>7. HasPch' /\ PchUpToDate(r)' => pch' = CleanPch'
  <2>1. SUFFICES ASSUME HasPch', PchUpToDate(r)' PROVE pch' = CleanPch'
    OBVIOUS
  <2>2. Agree(r.cfg, cfg', PchCompared) /\ pch = PchFrom(r.cfg)
    BY <1>3, <2>1 DEF PchUpToDate, Honest
  <2> QED
    BY <1>2, <2>1, <2>2, FieldFacts DEF CleanPch, PchFrom, Agree
<1>8. ASSUME NEW s \in srcs', ObjectUpToDate(r, s)'
      PROVE  RecordedObject(r, <<s, ver'[s]>>) = CleanObject(s)'
  <2>1. /\ Agree(r.cfg, cfg', ObjectCompared)
        /\ HasPch' => Agree(r.cfg, cfg', PchCompared) /\ r.pch_compiled
    BY <1>8 DEF ObjectUpToDate, PchUpToDate
  <2>2. r.pch_compiled = HasPch'
    BY <1>4, <1>6, <2>1 DEF HasPch
  <2> QED
    BY <2>1, <2>2, RecordedIsCleanNext
<1>9. ASSUME NEW s \in srcs', ObjectUpToDate(r, s)'
      PROVE  obj'[s] = {CleanObject(s)'}
  <2>1. <<s, ver'[s]>> \in r.sources
    BY <1>9 DEF ObjectUpToDate
  <2>2. obj[<<s, ver'[s]>>[1]] = {RecordedObject(r, <<s, ver'[s]>>)}
    BY <1>3, <2>1 DEF Honest
  <2> QED
    BY <1>2, <1>8, <1>9, <2>2
<1>10. NothingToDo(r)' => bin' = {CleanBinary'}
  <2>1. SUFFICES ASSUME NothingToDo(r)' PROVE bin' = {CleanBinary'}
    OBVIOUS
  <2>2. /\ r.sources = {<<s, ver'[s]>> : s \in srcs'} /\ r.target_linked
        /\ Agree(r.cfg, cfg', LinkCompared) /\ Agree(r.cfg, cfg', ObjectCompared)
        /\ HasPch' => PchUpToDate(r)'
    BY <2>1 DEF NothingToDo, Listed, PchUpToDate
  <2>3. \A s \in srcs' : ObjectUpToDate(r, s)'
    BY <2>2 DEF ObjectUpToDate
  <2>4. bin = {[in   |-> [f \in LinkInputs |-> r.cfg[f]],
                objs |-> [s \in srcs' |-> {RecordedObject(r, <<s, ver'[s]>>)}]]}
    <3> DEFINE Pairs(S, v) == {<<s, v[s]>> : s \in S}
               Made(S, v) ==
                 [in   |-> [f \in LinkInputs |-> r.cfg[f]],
                  objs |-> [s \in S |-> {RecordedObject(r, <<s, v[s]>>)}]]
    <3>1. \A S, v : r.sources = Pairs(S, v) => RecordedBinary(r) = Made(S, v)
      BY RecordedBinaryIs
    <3>2. r.sources = Pairs(srcs', ver')
      BY <2>2
    <3> HIDE DEF Pairs, Made
    <3>3. bin = {Made(srcs', ver')}
      BY <1>3, <2>2, <3>1, <3>2 DEF Honest
    <3> QED BY <3>3 DEF Made
  <2>5. \A f \in LinkInputs : r.cfg[f] = cfg'[f]
    BY <2>2, FieldFacts DEF Agree
  <2>6. \A s \in srcs' : RecordedObject(r, <<s, ver'[s]>>) = CleanObject(s)'
    BY <1>8, <2>3
  <2> QED
    BY <1>2, <2>4, <2>5, <2>6 DEF CleanBinary
<1> QED
  BY <1>5, <1>7, <1>9, <1>10 DEF Sound

(* A run that has not begun keeps its blank store, which is sound whatever   *)
(* the user does.                                                            *)
LEMMA OrderlyUserKeeps ==
  ASSUME Orderly, TypeOK, TypeOK', SkipInv, HonestInv, User
  PROVE  SkipInv' /\ HonestInv'
<1>1. /\ phase = "idle" /\ UNCHANGED <<outputs, file, phase, process, taskState>>
      /\ \A f \in Fields \ Reverts : cfg[f] <= cfg'[f]
  BY OrderlyUser
<1>2. /\ load' = load /\ user' = user /\ store' = store /\ dirty' = dirty
      /\ todo' = todo /\ pch' = pch /\ obj' = obj /\ bin' = bin
      /\ UpdatedStore' = UpdatedStore /\ Schemas' = Schemas
  BY <1>1 DEF process, outputs, UpdatedStore, Schemas
<1>3. store = EmptyStore /\ user = NothingRead /\ todo = {} /\ ~dirty
  BY <1>1 DEF SkipInv, ReadInv, PhaseInv, HonestInv
<1>4. \A f \in Fields : cfg'[f] \in Int /\ cfg'[f] >= 0
  BY VersionFacts DEF TypeOK, WorldType
<1>5. /\ \A f \in Fields : UpdatedStore.cfg[f] = 0
      /\ ~UpdatedStore.pch_compiled /\ UpdatedStore.sources = {}
      /\ ~UpdatedStore.target_linked
  BY <1>3, UpdatedStoreFields DEF EmptyStore, NothingRead, Empty
<1>6. Past(UpdatedStore)' /\ Sound(UpdatedStore)'
  <2>1. Past(UpdatedStore)'
    BY <1>2, <1>4, <1>5 DEF Past
  <2> QED
    BY <1>2, <1>5, <2>1 DEF Sound, PchUpToDate, ObjectUpToDate, NothingToDo
<1>7. SchemasInv'
  <2>1. ASSUME NEW r \in file PROVE Past(r)' /\ Sound(r)'
    BY <2>1, HonestEdit
  <2> QED
    BY <1>1, <1>6, <2>1 DEF SchemasInv, Schemas
<1>8. ReadInv'
  <2>1. \A f \in Fields : user'[f] <= cfg'[f]
    BY <1>2, <1>3, <1>4 DEF NothingRead, Empty
  <2> QED
    BY <1>1, <1>2, <1>3, <2>1 DEF SkipInv, ReadInv, EmptyStore
<1>9. PhaseInv' /\ TodoInv' /\ RecordedInv' /\ WriteInv'
  BY <1>1, <1>2, <1>3 DEF PhaseInv, TodoInv, RecordedInv, WriteInv, EmptyStore
<1>10. HonestInv'
  <2>1. FileHonest'
    BY <1>1, <1>2 DEF HonestInv, FileHonest, Honest
  <2>2. StoreTrue' /\ MakingInv'
    BY <1>1, <1>2, <1>3 DEF StoreTrue, MakingInv, EmptyStore
  <2> QED
    BY <1>1, <1>2, <1>3, <2>1, <2>2 DEF HonestInv
<1> QED
  BY <1>7, <1>8, <1>9, <1>10 DEF SkipInv

-----------------------------------------------------------------------------
(* The steps of a run keep its store honest *)

(* A schema is as honest as it was while nothing is written. *)
LEMMA SameHonest ==
  ASSUME UNCHANGED outputs
  PROVE  /\ \A r : Honest(r)' = Honest(r)
         /\ UNCHANGED file => FileHonest' = FileHonest
<1>1. \A r : Honest(r)' = Honest(r)
  BY DEF outputs, Honest
<1> QED
  BY <1>1 DEF FileHonest

(* What was read stays read while the later tasks read on. *)
LEMMA ReadingOn ==
  ASSUME TypeOK, TypeOK', UNCHANGED world,
         \A f \in Fields : user'[f] \in {user[f], cfg[f]},
         store'.pchs = store.pchs, store'.pch_compiled = store.pch_compiled
  PROVE  /\ HasPch' = HasPch /\ Listed' = Listed
         /\ \A S \in SUBSET Fields : Agree(user, cfg, S) => Agree(user, cfg, S)'
         /\ HeldPch(UpdatedStore) => HeldPch(UpdatedStore)'
         /\ ObjectsRead => ObjectsRead'
<1>1. PchCompared \subseteq Fields /\ ObjectCompared \subseteq Fields
  BY FieldFacts
<1>2. \A S \in SUBSET Fields : Agree(user, cfg, S) => Agree(user, cfg, S)'
  BY DEF world, Agree
<1>3. HeldPch(UpdatedStore) => HeldPch(UpdatedStore)'
  BY <1>1, PchRecordStays
<1> QED
  BY <1>1, <1>2, <1>3, SameWorld DEF ObjectsRead

(* What the store says stays true with it. *)
LEMMA StoreStaysTrue ==
  ASSUME TypeOK, TypeOK', UNCHANGED <<world, store>>, StoreTrue, todo' \subseteq todo,
         \A f \in Fields : user'[f] \in {user[f], cfg[f]}
  PROVE  StoreTrue'
<1>1. /\ HasPch' = HasPch /\ Listed' = Listed
      /\ \A S \in SUBSET Fields : Agree(user, cfg, S) => Agree(user, cfg, S)'
      /\ HeldPch(UpdatedStore) => HeldPch(UpdatedStore)'
      /\ ObjectsRead => ObjectsRead'
  BY ReadingOn
<1>2. LinkCompared \in SUBSET Fields
  BY FieldFacts
<1> QED
  BY <1>1, <1>2 DEF StoreTrue

(* Reading the files again leaves each field as it was or as it is now. *)
LEMMA HashedReads ==
  ASSUME NEW S, TypeOK
  PROVE  /\ \A f \in Fields : Hashed(S)[f] \in {user[f], cfg[f]}
         /\ \A T \in SUBSET Fields : Agree(user, cfg, T \ S) => Agree(Hashed(S), cfg, T)
  BY DEF Hashed, Agree

LEMMA BuildHonest ==
  ASSUME TypeOK, TypeOK', SkipInv, HonestInv, Build
  PROVE  HonestInv'
<1>1. /\ phase = "idle" /\ UNCHANGED <<world, outputs, file>>
      /\ store' = EmptyStore /\ dirty' = FALSE /\ todo' = {}
      /\ phase' = IF HasPch THEN "pch" ELSE "objects"
  BY DEF Build
<1>2. HasPch' = HasPch
  BY <1>1, SameWorld
<1>3. FileHonest'
  BY <1>1, SameHonest DEF HonestInv
<1>4. StoreTrue'
  BY <1>1 DEF StoreTrue, EmptyStore
<1>5. MakingInv'
  BY <1>1, <1>2 DEF MakingInv, HeldPch
<1> QED
  BY <1>1, <1>3, <1>4, <1>5 DEF HonestInv

(* A task is passed over, or the process has ended its tasks. *)
LEMMA PassingHonest ==
  ASSUME TypeOK, TypeOK', SkipInv, HonestInv,
         \/ PchSkip \/ PchHashFails \/ PchExecuteFails \/ ObjectsSkip
         \/ ObjectHashFails \/ CompileJoin \/ LinkSkip \/ LinkHashFails
         \/ LinkExecuteFails \/ EndClean \/ OtherTaskFails \/ UNCHANGED vars
  PROVE  HonestInv'
<1>1. \/ phase' = phase /\ taskState' \in {taskState, "FAILURE"}
      \/ phase # "end" /\ phase' \in {"objects", "link", "end"} /\ taskState' = "FAILURE"
      \/ phase = "compile" /\ phase' = "link"
      \/ phase = "end" /\ ~dirty /\ phase' = "exit"
  BY DEF PchSkip, PchHashFails, PchExecuteFails, ObjectsSkip, ObjectHashFails,
         CompileJoin, LinkSkip, LinkHashFails, LinkExecuteFails, EndClean,
         OtherTaskFails, Fail, vars
<1>2. /\ UNCHANGED <<world, store, dirty, todo, file>>
      /\ ~dirty => UNCHANGED outputs
      /\ phase = "exit" => UNCHANGED outputs
  BY DEF PchSkip, PchHashFails, PchExecuteFails, ObjectsSkip, ObjectHashFails,
         CompileJoin, LinkSkip, LinkHashFails, LinkExecuteFails, EndClean,
         OtherTaskFails, process, outputs, vars, HonestInv, MakingInv
<1>3. \A f \in Fields : user'[f] \in {user[f], cfg[f]}
  <2>1. \/ user' = user
        \/ \E S : user' = Hashed(S)
    BY DEF PchSkip, PchHashFails, PchExecuteFails, ObjectsSkip, ObjectHashFails,
           CompileJoin, LinkSkip, LinkHashFails, LinkExecuteFails, EndClean,
           OtherTaskFails, process, vars
  <2> QED
    BY <2>1, HashedReads
<1>4. StoreTrue'
  BY <1>2, <1>3, StoreStaysTrue DEF HonestInv
<1>5. MakingInv'
  <2>1. /\ \A S \in SUBSET Fields : Agree(user, cfg, S) => Agree(user, cfg, S)'
        /\ HeldPch(UpdatedStore) => HeldPch(UpdatedStore)'
        /\ ObjectsRead => ObjectsRead'
    BY <1>2, <1>3, ReadingOn
  <2>2. PchCompared \in SUBSET Fields /\ LinkCompared \in SUBSET Fields
    BY FieldFacts
  <2>3. MakingInv
    BY DEF HonestInv
  <2> QED
    BY <1>1, <1>2, <2>1, <2>2, <2>3 DEF MakingInv
<1> QED
  BY <1>1, <1>2, <1>4, <1>5, SameHonest DEF HonestInv

LEMMA PchCheckHonest ==
  ASSUME TypeOK, TypeOK', SkipInv, HonestInv, PchCheck
  PROVE  HonestInv'
<1> DEFINE u == Hashed({"headers", "pchs"})
<1>1. /\ phase = "pch" /\ UNCHANGED <<world, outputs, file, todo>>
      /\ user' = u /\ dirty' = PchChanged(u)
      /\ PchChanged(u) => phase' = "pch_exec" /\ UNCHANGED store
      /\ ~PchChanged(u) => phase' = "objects" /\ store' = PchCompiled(u)
  BY DEF PchCheck
<1>2. /\ ~dirty /\ HasPch /\ ~store.pch_compiled /\ store.sources = {}
      /\ ~store.target_linked /\ todo = {}
  BY <1>1 DEF SkipInv, PhaseInv, WriteInv
<1>3. \A f \in PchCompared : user'[f] = cfg[f]
  BY <1>1, ReadsTheWorld, FieldFacts
<1>4. cfg' = cfg /\ HasPch' = HasPch /\ Listed' = Listed
  BY <1>1, SameWorld DEF world
<1>5. FileHonest'
  BY <1>1, <1>2, SameHonest DEF HonestInv
<1>6. CASE PchChanged(u)
  <2>1. StoreTrue'
    BY <1>1, <1>2, <1>4, <1>6 DEF StoreTrue
  <2>2. MakingInv'
    BY <1>1, <1>3, <1>4, <1>6 DEF MakingInv, Agree
  <2> QED
    BY <1>1, <1>5, <1>6, <2>1, <2>2 DEF HonestInv
<1>7. CASE ~PchChanged(u)
  <2>1. /\ store'.pchs = u["pchs"] /\ store'.pch_compiled = TRUE
        /\ store'.sources = {} /\ ~store'.target_linked
    BY <1>1, <1>2, <1>7 DEF PchCompiled, TypeOK, ProcessType, Recorded
  <2>2. HeldPch(UpdatedStore)'
    <3>1. \A f \in PchCompared : UpdatedStore'.cfg[f] = cfg'[f]
      BY <1>1, <1>3, <1>4, <2>1, UpdatedStoreFieldsNext, FieldFacts
    <3> QED
      BY <2>1, <3>1, UpdatedStoreFieldsNext DEF HeldPch, PchUpToDate, Agree
  <2>3. StoreTrue'
    BY <1>1, <1>2, <1>4, <2>1, <2>2 DEF StoreTrue
  <2>4. MakingInv'
    BY <1>1, <1>7, <2>2 DEF MakingInv
  <2> QED
    BY <1>1, <1>5, <1>7, <2>3, <2>4 DEF HonestInv
<1> QED
  BY <1>6, <1>7

LEMMA PchExecuteHonest ==
  ASSUME TypeOK, TypeOK', SkipInv, HonestInv, PchExecute
  PROVE  HonestInv'
<1>1. /\ phase = "pch_exec" /\ phase' = "objects" /\ UNCHANGED <<world, user, dirty, todo>>
      /\ store' = PchCompiled(user)
  BY DEF PchExecute
<1>2. /\ HasPch /\ store.sources = {} /\ ~store.target_linked /\ todo = {}
      /\ dirty /\ Agree(user, cfg, PchCompared)
  BY <1>1 DEF SkipInv, PhaseInv, HonestInv, MakingInv
<1>3. cfg' = cfg /\ HasPch' = HasPch /\ Listed' = Listed
  BY <1>1, SameWorld DEF world
<1>4. /\ store'.pchs = user["pchs"] /\ store'.pch_compiled = TRUE
      /\ store'.sources = {} /\ ~store'.target_linked
  BY <1>1, <1>2 DEF PchCompiled, TypeOK, ProcessType, Recorded
<1>5. HeldPch(UpdatedStore)'
  <2>1. \A f \in PchCompared : UpdatedStore'.cfg[f] = cfg'[f]
    BY <1>1, <1>2, <1>3, <1>4, UpdatedStoreFieldsNext, FieldFacts DEF Agree
  <2> QED
    BY <1>4, <2>1, UpdatedStoreFieldsNext DEF HeldPch, PchUpToDate, Agree
<1>6. StoreTrue'
  BY <1>1, <1>2, <1>3, <1>4, <1>5 DEF StoreTrue
<1>7. MakingInv'
  BY <1>1, <1>5 DEF MakingInv
<1> QED
  BY <1>1, <1>2, <1>6, <1>7 DEF HonestInv

LEMMA SelectSourcesHonest ==
  ASSUME TypeOK, TypeOK', SkipInv, HonestInv, SelectSources
  PROVE  HonestInv'
<1> DEFINE u == Hashed({"headers", "compile_dependencies"})
           all == dirty \/ ObjectChanged(u)
           selected == IF all THEN Listed ELSE AddedOrUpdated
<1>1. /\ phase = "objects" /\ taskState = "SUCCESS" /\ phase' = "compile"
      /\ UNCHANGED <<world, outputs, file>>
      /\ user' = u /\ dirty' = (all \/ selected # {} \/ SourceRemoved)
      /\ todo' = selected
      /\ store' = [store EXCEPT !.sources = Listed \ selected]
  BY DEF SelectSources
<1>2. selected \subseteq Listed
  BY DEF AddedOrUpdated
<1> HIDE DEF u, selected
<1>3. /\ store'.pchs = store.pchs /\ store'.pch_compiled = store.pch_compiled
      /\ store'.sources = Listed \ selected
      /\ store'.target_linked = store.target_linked
  BY <1>1 DEF TypeOK, ProcessType, Recorded
<1>4. HeldPch(UpdatedStore) /\ ~store.target_linked
  BY <1>1 DEF HonestInv, MakingInv, SkipInv, PhaseInv
<1>5. \A f \in Fields : user'[f] \in {user[f], cfg[f]}
  BY <1>1, HashedReads DEF u
<1>6. HasPch' = HasPch /\ Listed' = Listed /\ cfg' = cfg
      /\ HeldPch(UpdatedStore)'
  BY <1>1, <1>3, <1>4, <1>5, ReadingOn DEF world
<1>7. ObjectsRead'
  <2>1. \A f \in ObjectCompared : user'[f] = cfg[f]
    BY <1>1, ReadsTheWorld, FieldFacts DEF u
  <2> QED
    BY <1>6, <2>1 DEF ObjectsRead, Agree
<1>8. StoreTrue'
  BY <1>1, <1>2, <1>3, <1>4, <1>6, <1>7 DEF HonestInv, StoreTrue
<1>9. MakingInv'
  BY <1>1, <1>7 DEF MakingInv
<1> QED
  BY <1>1, <1>8, <1>9, SameHonest DEF HonestInv

LEMMA SubtaskHonest ==
  ASSUME TypeOK, TypeOK', SkipInv, HonestInv,
         NEW p \in todo, CompileSource(p) \/ CompileSourceFails(p)
  PROVE  HonestInv'
<1>1. /\ phase = "compile" /\ phase' = "compile" /\ todo' = todo \ {p}
      /\ UNCHANGED <<world, user, dirty>>
      /\ store' \in {store, [store EXCEPT !.sources = @ \cup {p}]}
  BY DEF CompileSource, CompileSourceFails
<1>2. /\ store'.pchs = store.pchs /\ store'.pch_compiled = store.pch_compiled
      /\ store'.sources \subseteq store.sources \cup {p}
      /\ store'.target_linked = store.target_linked
  BY <1>1 DEF TypeOK, ProcessType, Recorded
<1>3. dirty /\ ObjectsRead /\ ~store.target_linked
  BY <1>1 DEF HonestInv, MakingInv, SkipInv, PhaseInv
<1>4. /\ HasPch' = HasPch /\ Listed' = Listed /\ ObjectsRead'
      /\ HeldPch(UpdatedStore) => HeldPch(UpdatedStore)'
  BY <1>1, <1>2, <1>3, ReadingOn
<1>5. StoreTrue'
  BY <1>1, <1>2, <1>3, <1>4 DEF HonestInv, StoreTrue
<1>6. MakingInv'
  BY <1>1, <1>3, <1>4 DEF MakingInv
<1> QED
  BY <1>1, <1>3, <1>5, <1>6 DEF HonestInv

LEMMA LinkCheckHonest ==
  ASSUME TypeOK, TypeOK', SkipInv, HonestInv, LinkCheck
  PROVE  HonestInv'
<1> DEFINE u == Hashed({"libs", "link_dependencies"})
<1>1. /\ phase = "link" /\ taskState = "SUCCESS"
      /\ UNCHANGED <<world, outputs, file, store, todo>>
      /\ user' = u /\ dirty' = (dirty \/ LinkChanged(u))
      /\ phase' = IF dirty \/ LinkChanged(u) THEN "link_exec" ELSE "end"
  BY DEF LinkCheck
<1>2. \A f \in Fields : user'[f] \in {user[f], cfg[f]}
  BY <1>1, HashedReads
<1>3. ObjectsRead' /\ cfg' = cfg
  BY <1>1, <1>2, ReadingOn DEF HonestInv, MakingInv, world
<1>4. Agree(user, cfg, LinkCompared)'
  BY <1>1, <1>3, ReadsTheWorld, FieldFacts DEF Agree
<1>5. StoreTrue'
  BY <1>1, <1>2, StoreStaysTrue DEF HonestInv
<1>6. MakingInv'
  BY <1>1, <1>3, <1>4 DEF MakingInv
<1> QED
  BY <1>1, <1>5, <1>6, SameHonest DEF HonestInv

LEMMA LinkExecuteHonest ==
  ASSUME TypeOK, TypeOK', SkipInv, HonestInv, LinkExecute
  PROVE  HonestInv'
<1>1. /\ phase = "link_exec" /\ phase' = "end"
      /\ UNCHANGED <<world, user, dirty, todo>>
      /\ store' = [store EXCEPT !.target_linked = TRUE]
  BY DEF LinkExecute
<1>2. /\ store'.pchs = store.pchs /\ store'.pch_compiled = store.pch_compiled
      /\ store'.sources = store.sources
  BY <1>1 DEF TypeOK, ProcessType, Recorded
<1>3. dirty /\ ObjectsRead /\ Agree(user, cfg, LinkCompared)
  BY <1>1 DEF HonestInv, MakingInv
<1>4. /\ HasPch' = HasPch /\ Listed' = Listed /\ cfg' = cfg /\ ObjectsRead'
      /\ HeldPch(UpdatedStore) => HeldPch(UpdatedStore)'
  BY <1>1, <1>2, <1>3, ReadingOn DEF world
<1>5. Listed \subseteq store.sources
  <2>1. ASSUME NEW s \in srcs PROVE <<s, ver[s]>> \in store.sources
    <3>1. \E p \in store.sources \cup todo : p[1] = s
      BY <1>1 DEF SkipInv, RecordedInv
    <3>2. todo = {}
      BY <1>1 DEF SkipInv, PhaseInv
    <3>3. PICK p \in store.sources : p[1] = s
      BY <3>1, <3>2
    <3>4. p \in Listed
      BY DEF HonestInv, StoreTrue
    <3> QED
      BY <3>3, <3>4 DEF Listed
  <2> QED
    BY <2>1 DEF Listed
<1>6. StoreTrue'
  BY <1>1, <1>2, <1>3, <1>4, <1>5 DEF HonestInv, StoreTrue, Agree
<1>7. MakingInv'
  BY <1>1 DEF MakingInv
<1> QED
  BY <1>1, <1>3, <1>6, <1>7 DEF HonestInv

(* What UpdateStore writes is honest: it is sound, and it describes the      *)
(* world as far as it says anything.                                         *)
LEMMA UpdatedStoreHonest ==
  ASSUME TypeOK, SkipInv, StoreTrue
  PROVE  Honest(UpdatedStore)
<1> DEFINE r == UpdatedStore
<1>1. Sound(r) /\ r \in Schema
  BY SchemasType DEF SkipInv, SchemasInv, Schemas
<1>2. /\ \A f \in Fields : r.cfg[f] = IF f = "pchs" THEN store.pchs ELSE user[f]
      /\ r.pch_compiled = store.pch_compiled /\ r.sources = store.sources
      /\ r.target_linked = store.target_linked
  BY UpdatedStoreFields
<1>3. r.sources # {} \/ r.target_linked =>
        /\ Agree(r.cfg, cfg, ObjectCompared)
        /\ HasPch => PchUpToDate(r)
        /\ r.pch_compiled = HasPch
  <2>1. SUFFICES ASSUME ObjectsRead
                 PROVE  /\ Agree(r.cfg, cfg, ObjectCompared)
                        /\ HasPch => PchUpToDate(r)
                        /\ r.pch_compiled = HasPch
    BY <1>2 DEF StoreTrue
  <2>2. Agree(r.cfg, cfg, ObjectCompared)
    BY <1>2, <2>1, FieldFacts DEF ObjectsRead, Agree
  <2>3. HasPch => PchUpToDate(r)
    BY <2>1 DEF ObjectsRead, HeldPch
  <2>4. r.pch_compiled \in BOOLEAN /\ HasPch \in BOOLEAN
    BY <1>1 DEF Schema, HasPch
  <2> QED
    BY <1>2, <2>2, <2>3, <2>4 DEF StoreTrue, PchUpToDate
<1>4. r.pch_compiled => r.cfg["pchs"] \in Version \ {Empty} /\ pch = PchFrom(r.cfg)
  <2>1. SUFFICES ASSUME r.pch_compiled
                 PROVE  r.cfg["pchs"] \in Version \ {Empty} /\ pch = PchFrom(r.cfg)
    OBVIOUS
  <2>2. HasPch /\ PchUpToDate(r)
    BY <1>2, <2>1 DEF StoreTrue, HeldPch
  <2>3. pch = PchFrom(cfg)
    BY <1>1, <2>2 DEF Sound, CleanPch
  <2>4. \A f \in PchInputs : r.cfg[f] = cfg[f]
    BY <2>2, FieldFacts DEF PchUpToDate, Agree
  <2>5. cfg["pchs"] \in Version \ {Empty}
    BY <2>2, FieldFacts DEF HasPch, TypeOK, WorldType
  <2> QED
    BY <2>3, <2>4, <2>5, FieldFacts DEF PchFrom
<1>5. \A s : <<s, ver[s]>> \in r.sources =>
        RecordedObject(r, <<s, ver[s]>>) = CleanObject(s)
  BY <1>3, RecordedIsClean DEF PchUpToDate
<1>6. \A p \in r.sources : obj[p[1]] = {RecordedObject(r, p)}
  <2>1. SUFFICES ASSUME NEW p \in r.sources
                 PROVE  obj[p[1]] = {RecordedObject(r, p)}
    OBVIOUS
  <2>2. p \in Listed
    BY <1>2 DEF StoreTrue
  <2>3. PICK s \in srcs : p = <<s, ver[s]>>
    BY <2>2 DEF Listed
  <2>4. ObjectUpToDate(r, s)
    BY <1>3, <2>1, <2>3 DEF ObjectUpToDate
  <2>5. obj[s] = {CleanObject(s)}
    BY <1>1, <2>4 DEF Sound
  <2> QED
    BY <1>5, <2>1, <2>3, <2>5
<1>7. r.target_linked => bin = {RecordedBinary(r)}
  <2>1. SUFFICES ASSUME r.target_linked PROVE bin = {RecordedBinary(r)}
    OBVIOUS
  <2>2. Agree(user, cfg, LinkCompared) /\ r.sources = Listed
    BY <1>2, <2>1 DEF StoreTrue
  <2>3. \A f \in LinkCompared : r.cfg[f] = cfg[f]
    BY <1>2, <2>2, FieldFacts DEF Agree
  <2>4. NothingToDo(r)
    BY <1>3, <2>1, <2>2, <2>3 DEF NothingToDo, PchUpToDate, Agree
  <2>5. bin = {CleanBinary}
    BY <1>1, <2>4 DEF Sound
  <2>6. \A s \in srcs : RecordedObject(r, <<s, ver[s]>>) = CleanObject(s)
    BY <1>5, <2>2 DEF Listed
  <2>7. RecordedBinary(r) =
          [in   |-> [f \in LinkInputs |-> r.cfg[f]],
           objs |-> [s \in srcs |-> {RecordedObject(r, <<s, ver[s]>>)}]]
    BY <2>2, RecordedBinaryIs DEF Listed
  <2> QED
    BY <2>3, <2>5, <2>6, <2>7, FieldFacts DEF CleanBinary
<1> QED
  BY <1>4, <1>6, <1>7 DEF Honest

LEMMA EndStoreHonest ==
  ASSUME TypeOK, TypeOK', SkipInv, HonestInv, EndStore
  PROVE  HonestInv'
<1>1. /\ phase = "end" /\ phase' = "exit" /\ file' = {UpdatedStore}
      /\ UNCHANGED <<world, outputs, process, taskState>>
  BY DEF EndStore
<1>2. FileHonest'
  <2>1. Honest(UpdatedStore)
    BY UpdatedStoreHonest DEF HonestInv
  <2> QED
    BY <1>1, <2>1, SameHonest DEF FileHonest
<1>3. StoreTrue'
  BY <1>1, StoreStaysTrue DEF HonestInv, process
<1>4. MakingInv'
  BY <1>1 DEF MakingInv
<1> QED
  BY <1>1, <1>2, <1>3, <1>4 DEF HonestInv

LEMMA RunBuildHonest ==
  ASSUME HonestInv, RunBuild
  PROVE  HonestInv'
<1>1. /\ phase = "exit" /\ phase' = "idle" /\ store' = EmptyStore /\ todo' = {}
      /\ dirty' = FALSE /\ UNCHANGED <<outputs, file>>
  BY DEF RunBuild, ProcessGone
<1>2. FileHonest'
  BY <1>1, SameHonest DEF HonestInv
<1> QED
  BY <1>1, <1>2 DEF HonestInv, StoreTrue, MakingInv, EmptyStore

LEMMA HonestStep ==
  ASSUME Orderly, TypeOK, TypeOK', SkipInv, HonestInv, [Next]_vars
  PROVE  HonestInv'
<1>1. CASE User
  BY <1>1, OrderlyUserKeeps
<1>2. CASE Build
  BY <1>2, BuildHonest
<1>3. CASE Pch
  BY <1>3, PassingHonest, PchCheckHonest, PchExecuteHonest DEF Pch
<1>4. CASE Objects
  BY <1>4, PassingHonest, SelectSourcesHonest, SubtaskHonest DEF Objects
<1>5. CASE Link
  BY <1>5, PassingHonest, LinkCheckHonest, LinkExecuteHonest DEF Link
<1>6. CASE End
  <2>1. ~EndStoreFails
    BY DEF EndStoreFails, Orderly
  <2> QED
    BY <1>6, <2>1, PassingHonest, EndStoreHonest DEF End
<1>7. CASE RunBuild
  BY <1>7, RunBuildHonest
<1>8. CASE OtherTaskFails \/ UNCHANGED vars
  BY <1>8, PassingHonest
<1>9. ~Interrupt
  BY DEF Interrupt, Orderly
<1> QED
  BY <1>1, <1>2, <1>3, <1>4, <1>5, <1>6, <1>7, <1>8, <1>9 DEF Next, Tasks

-----------------------------------------------------------------------------
(* The invariant, and what it is for *)

LEMMA SkipInvStep ==
  ASSUME Dependable, SafeInv, TypeOK', [Next]_vars
  PROVE  SkipInv'
  <1> USE DEF SafeInv
  <1>1. CASE User
    BY <1>1, UserKeeps, OrderlyUserKeeps DEF Dependable
  <1>2. CASE Build
    BY <1>2, BuildKeeps
  <1>3. CASE Pch
    BY <1>3, PassingOnKeeps, PchCheckKeeps, PchHashFailsKeeps,
       PchExecuteKeeps, PchExecuteFailsKeeps DEF Pch
  <1>4. CASE Objects
    BY <1>4, PassingOnKeeps, SelectSourcesKeeps, ObjectHashFailsKeeps,
       CompileSourceKeeps, CompileSourceFailsKeeps DEF Objects
  <1>5. CASE Link
    BY <1>5, PassingOnKeeps, LinkReadsKeeps, LinkExecuteKeeps,
       LinkExecuteFailsKeeps DEF Link
  <1>6. CASE End
    BY <1>6, PassingOnKeeps, EndWritesKeeps DEF End
  <1>7. CASE RunBuild \/ Interrupt
    BY <1>7, ProcessEndKeeps
  <1>8. CASE OtherTaskFails \/ UNCHANGED vars
    BY <1>8, PassingOnKeeps
  <1>9. QED
    BY <1>1, <1>2, <1>3, <1>4, <1>5, <1>6, <1>7, <1>8 DEF Next, Tasks

LEMMA SkipInvIsEnough == SkipInv => NoMissedRebuild
  <1> SUFFICES ASSUME SkipInv, NEW r \in file, NothingToDo(r) PROVE Clean
    BY DEF NoMissedRebuild
  <1>1. Sound(r)
    BY DEF SkipInv, SchemasInv, Schemas
  <1>2. /\ HasPch => PchUpToDate(r)
        /\ \A s \in srcs : ObjectUpToDate(r, s)
    BY DEF NothingToDo, PchUpToDate, ObjectUpToDate, Listed
  <1>3. HasPch => pch = CleanPch
    BY <1>1, <1>2 DEF Sound
  <1>4. QED
    BY <1>1, <1>2, <1>3 DEF Sound, Clean

LEMMA SafeInvHolds ==
  ASSUME Dependable
  PROVE  Spec => []SafeInv
  <1>1. Dependable
    OBVIOUS
  <1>2. Init => SafeInv
    <2>1. Init => HonestInv
      BY DEF Init, EmptyStore, HonestInv, FileHonest, StoreTrue, MakingInv
    <2>2. QED
      BY <2>1, InitType, InitKeeps DEF SafeInv
  <1>3. SafeInv /\ [Next]_vars => SafeInv'
    <2>1. SUFFICES ASSUME SafeInv, [Next]_vars PROVE SafeInv'
      OBVIOUS
    <2>2. TypeOK'
      BY <2>1, TypeStep DEF SafeInv
    <2>3. SkipInv'
      BY <1>1, <2>1, <2>2, SkipInvStep
    <2>4. Orderly => HonestInv'
      BY <2>1, <2>2, HonestStep DEF SafeInv
    <2>5. QED
      BY <2>2, <2>3, <2>4 DEF SafeInv
  <1>4. QED
    BY <1>2, <1>3, PTL DEF Spec

(* What is on disk at every moment of every run: schemas are sound and of    *)
(* the past, outputs are written only while no schema vouches for them, and  *)
(* what a task recorded is what it read. (The order of writes in the tasks   *)
(* and of UpdateStore in the End task.)                                      *)
THEOREM SchemasStaySound ==
  ASSUME Dependable
  PROVE  Spec => []SkipInv
  <1>1. SafeInv => SkipInv
    BY DEF SafeInv
  <1>2. QED
    BY <1>1, SafeInvHolds, PTL

(* What the schema on disk records of each output is what the output was     *)
(* made of, whatever the user puts back to an earlier value between runs: so *)
(* a script that is as it was again finds outputs that are as they were.     *)
(* (What the tasks record and when, and UpdateStore in the End task.)        *)
THEOREM RecordsAreTrue ==
  ASSUME Orderly
  PROVE  Spec => []HonestInv
  <1>1. Dependable
    BY DEF Dependable
  <1>2. SafeInv => HonestInv
    BY DEF SafeInv
  <1>3. QED
    BY <1>1, <1>2, SafeInvHolds, PTL

(* The schema on disk never vouches for stale outputs: when every check of a *)
(* run would pass, the outputs are those of a build from nothing, although   *)
(* any task may have failed before. This is for every set of sources and     *)
(* every bound, in two kinds of histories: nothing reverts and headers stand *)
(* still during a run, and runs are killed anywhere; or what the script says *)
(* and its files go back and forth between runs that come to their end       *)
(* (histories with neither break it).                                        *)
THEOREM NothingIsMissed ==
  ASSUME Dependable
  PROVE  Spec => []NoMissedRebuild
  BY SchemasStaySound, SkipInvIsEnough, PTL
=============================================================================
