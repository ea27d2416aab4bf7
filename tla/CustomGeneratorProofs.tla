------------------------ MODULE CustomGeneratorProofs ------------------------
(***************************************************************************)
(* A custom generator keeps its types for any ids, edits and bounds; where *)
(* inputs stand still during a run it never skips an id it had to run, a   *)
(* run that succeeds leaves clean outputs, and a run after a success with  *)
(* no edit between does nothing.                                           *)
(***************************************************************************)
EXTENDS CustomGeneratorInvariant, TLAPS

(* What a function that stands for a schema looks like. *)
LEMMA SchemaEntry ==
  ASSUME NEW r \in Schema
  PROVE  /\ DOMAIN r \in SUBSET Ids
         /\ \A i \in DOMAIN r : r[i] \in Entry
BY DEF Schema

LEMMA FinalSchemaType ==
  ASSUME TypeOK
  PROVE  FinalSchema \in Schema
<1>1. FinalSchema \in [succeeded -> Entry]
  BY DEF FinalSchema, TypeOK
<1> QED
  BY <1>1 DEF Schema, TypeOK

LEMMA InitType == Init => TypeOK
<1>1. SUFFICES ASSUME Init PROVE TypeOK
  OBVIOUS
<1>2. now \in [Ids -> Entry]
  <2>1. 0 \in Version /\ 0 \in Timestamp /\ 0..1 \in SUBSET Version
    BY BoundsAssumption DEF Version, Timestamp
  <2>2. [io : {0}, blob : 0..1, time : {0}] \subseteq Entry
    BY <2>1 DEF Entry
  <2>3. now \in [Ids -> [io : {0}, blob : 0..1, time : {0}]]
    BY <1>1 DEF Init
  <2> QED
    BY <2>2, <2>3
<1>3. out \in [Ids -> SUBSET Entry]
  BY <1>1 DEF Init
<1>4. stage \in [Ids -> Stages]
  BY <1>1 DEF Init, Stages
<1>5. file \subseteq Schema /\ load \subseteq Schema
  BY <1>1 DEF Init
<1>6. trouble \in Troubles /\ ids \subseteq Ids /\ phase \in Phases
  BY <1>1 DEF Init, Phases
<1>7. shouldRun \subseteq Ids /\ succeeded \subseteq Ids
  BY <1>1 DEF Init
<1>8. dirty \in BOOLEAN
  BY <1>1, Zenon DEF Init
<1>9. taskState \in {"SUCCESS", "FAILURE"}
      /\ last \in {"none", "ok", "failed", "killed"}
  BY <1>1, Zenon DEF Init
<1>10. calm \in 0..2
  BY <1>1 DEF Init
<1> QED
  BY <1>2, <1>3, <1>4, <1>5, <1>6, <1>7, <1>8, <1>9, <1>10 DEF TypeOK

LEMMA NewVersion ==
  ASSUME NEW v \in Version, NEW w \in NewValues(v)
  PROVE  /\ w \in Version
         /\ trouble # "revert" => w = v + 1
BY BoundsAssumption DEF NewValues, Version

LEMMA UserType ==
  ASSUME TypeOK, User
  PROVE  TypeOK'
<1>1. PICK i \in Ids : EditLists(i) \/ EditBlob(i) \/ SaveInput(i) \/ ListId(i)
  BY DEF User
<1>2. now[i] \in Entry
  BY DEF TypeOK
<1>3. now' \in [Ids -> Entry]
  <2>1. CASE EditLists(i)
    BY <1>2, <2>1, NewVersion DEF EditLists, Entry, TypeOK
  <2>2. CASE EditBlob(i)
    BY <1>2, <2>2, NewVersion DEF EditBlob, Entry, TypeOK
  <2>3. CASE SaveInput(i)
    BY <1>2, <2>3, BoundsAssumption DEF SaveInput, Entry, TypeOK, Timestamp
  <2>4. CASE ListId(i)
    BY <2>4 DEF ListId, TypeOK
  <2> QED
    BY <1>1, <2>1, <2>2, <2>3, <2>4
<1>4. ids' \subseteq Ids
  BY <1>1 DEF EditLists, EditBlob, SaveInput, ListId, TypeOK
<1>5. AfterEdit
  BY <1>1 DEF EditLists, EditBlob, SaveInput, ListId
<1> QED
  BY <1>3, <1>4, <1>5 DEF AfterEdit, TypeOK, process

LEMMA SubtaskType ==
  ASSUME TypeOK, NEW i \in Ids, Subtask(i)
  PROVE  TypeOK'
<1>1. CASE SkipId(i)
  BY <1>1 DEF SkipId, TypeOK, world, Stages
<1>2. CASE CheckId(i)
  BY <1>2 DEF CheckId, TypeOK, world, Stages
<1>3. CASE CheckIdFails(i)
  BY <1>3 DEF CheckIdFails, Fail, TypeOK, world, Stages
<1>4. CASE CallGenerate(i)
  BY <1>4 DEF CallGenerate, TypeOK, world, Stages
<1>5. CASE CallGenerateFails(i)
  BY <1>5 DEF CallGenerateFails, Fail, TypeOK, world, Stages
<1> QED
  BY <1>1, <1>2, <1>3, <1>4, <1>5 DEF Subtask

LEMMA GenerateType ==
  ASSUME TypeOK, Generate
  PROVE  TypeOK'
<1>1. CASE GenerateSkip
  BY <1>1 DEF GenerateSkip, TypeOK, world, process, Phases
<1>2. CASE Select
  BY <1>2 DEF Select, TypeOK, world, Phases, Stages
<1>3. CASE Join
  BY <1>3 DEF Join, TypeOK, world, Phases
<1>4. CASE Store
  BY <1>4, FinalSchemaType DEF Store, TypeOK, world, process, Phases
<1>5. CASE StoreFails
  BY <1>5 DEF StoreFails, Fail, TypeOK, world, process, Phases
<1>6. CASE \E i \in Ids : Subtask(i)
  BY <1>6, SubtaskType
<1> QED
  BY <1>1, <1>2, <1>3, <1>4, <1>5, <1>6 DEF Generate

LEMMA ProcessType ==
  ASSUME TypeOK, Build \/ RunBuild \/ OtherTaskFails \/ Interrupt
  PROVE  TypeOK'
<1>1. CASE Build
  BY <1>1 DEF Build, TypeOK, world, Phases
<1>2. CASE RunBuild
  BY <1>2 DEF RunBuild, ProcessGone, TypeOK, world, Phases, Stages
<1>3. CASE OtherTaskFails
  BY <1>3 DEF OtherTaskFails, Fail, TypeOK, world, process
<1>4. CASE Interrupt
  <2>1. out' \in [Ids -> SUBSET Entry]
    BY <1>4 DEF Interrupt, TypeOK
  <2>2. file' \subseteq Schema
    BY <1>4 DEF Interrupt, TypeOK
  <2> QED
    BY <1>4, <2>1, <2>2 DEF Interrupt, ProcessGone, TypeOK, world, Phases, Stages
<1> QED
  BY <1>1, <1>2, <1>3, <1>4

LEMMA NextType == TypeOK /\ [Next]_vars => TypeOK'
<1>1. CASE UNCHANGED vars
  BY <1>1 DEF vars, world, process, TypeOK
<1> QED
  BY <1>1, UserType, GenerateType, ProcessType DEF Next

(* Every variable keeps its type. *)
THEOREM GeneratorTypeCorrect == Spec => []TypeOK
BY InitType, NextType, PTL DEF Spec

-----------------------------------------------------------------------------
(* The invariant *)

LEMMA InitInv == Init => GenerateInv
BY DEF Init, GenerateInv, StageInv, FileInv, PastInv, HonestInv, RunInv

LEMMA FileType ==
  ASSUME TypeOK, NEW r \in file
  PROVE  /\ DOMAIN r \in SUBSET Ids
         /\ \A i \in DOMAIN r : r[i] \in Entry
BY SchemaEntry DEF TypeOK

(* Outputs made from what an entry records are the right ones when the entry *)
(* describes the script.                                                     *)
LEMMA HonestMade ==
  ASSUME NEW e, NEW i, Honest(e, i), SameInputs(e, i)
  PROVE  Made(i)
BY DEF Honest, SameInputs, Made

LEMMA MadeHonest ==
  ASSUME NEW i, Made(i)
  PROVE  Honest(now[i], i)
BY DEF Honest, SameInputs, Made

LEMMA UserStill ==
  ASSUME TypeOK, Still, User
  PROVE  /\ phase = "idle"
         /\ trouble \in {"kill", "revert"}
         /\ AfterEdit
         /\ ids' \subseteq Ids
<1>1. trouble \in {"kill", "revert"}
  BY TroublesAssumption DEF TypeOK, Still
<1>2. PICK i \in Ids : EditLists(i) \/ EditBlob(i) \/ SaveInput(i) \/ ListId(i)
  BY DEF User
<1>3. phase = "idle" /\ AfterEdit
  BY <1>1, <1>2 DEF EditLists, EditBlob, SaveInput, ListId
<1>4. ids' \subseteq Ids
  BY <1>2 DEF EditLists, EditBlob, SaveInput, ListId, TypeOK
<1> QED
  BY <1>1, <1>3, <1>4

(* Where nothing goes back, an edited entry is newer than it was. *)
LEMMA UserForward ==
  ASSUME TypeOK, Still, User, trouble = "kill"
  PROVE  \A i \in Ids :
           \/ now'[i] = now[i]
           \/ /\ now'[i].io = now[i].io + 1
              /\ now'[i].blob = now[i].blob /\ now'[i].time = now[i].time
           \/ /\ now'[i].blob = now[i].blob + 1
              /\ now'[i].io = now[i].io /\ now'[i].time = now[i].time
           \/ /\ now'[i].time = now[i].time + 1
              /\ now'[i].io = now[i].io /\ now'[i].blob = now[i].blob
<1>1. PICK i \in Ids : EditLists(i) \/ EditBlob(i) \/ SaveInput(i) \/ ListId(i)
  BY DEF User
<1>2. \A j \in Ids : now[j] \in Entry
  BY DEF TypeOK
<1>3. CASE EditLists(i)
  BY <1>2, <1>3, NewVersion DEF EditLists, Entry, TypeOK
<1>4. CASE EditBlob(i)
  BY <1>2, <1>4, NewVersion DEF EditBlob, Entry, TypeOK
<1>5. CASE SaveInput(i)
  BY <1>2, <1>5 DEF SaveInput, Entry, TypeOK
<1>6. CASE ListId(i)
  BY <1>6 DEF ListId
<1> QED
  BY <1>1, <1>3, <1>4, <1>5, <1>6

LEMMA UserKeeps ==
  ASSUME TypeOK, Still, GenerateInv, User
  PROVE  GenerateInv'
<1>1. /\ phase = "idle" /\ phase' = phase /\ out' = out /\ file' = file
      /\ trouble' = trouble /\ stage' = stage /\ shouldRun' = shouldRun
      /\ succeeded' = succeeded /\ load' = load
  BY UserStill DEF AfterEdit, process
<1>2. StageInv'
  BY <1>1 DEF GenerateInv, StageInv
<1>3. RunInv'
  BY <1>1 DEF RunInv
<1>4. HonestInv'
  BY <1>1 DEF GenerateInv, HonestInv, Honest
<1>5. PastInv' /\ (trouble = "kill" => FileInv')
  <2>1. SUFFICES ASSUME trouble = "kill", NEW r \in file, NEW i \in DOMAIN r
                 PROVE  /\ r[i].io <= now'[i].io
                        /\ r[i].blob <= now'[i].blob
                        /\ r[i].time <= now'[i].time
                        /\ SameInputs(r[i], i)' => Made(i)'
    BY <1>1 DEF PastInv, FileInv
  <2>2. i \in Ids /\ r[i] \in Entry /\ now[i] \in Entry
    BY FileType DEF TypeOK
  <2>3. r[i].io <= now[i].io /\ r[i].blob <= now[i].blob /\ r[i].time <= now[i].time
    BY <2>1 DEF GenerateInv, PastInv
  <2>4. /\ r[i].io \in Int /\ r[i].blob \in Nat /\ r[i].time \in Int
        /\ now[i].io \in Int /\ now[i].blob \in Nat /\ now[i].time \in Int
    BY <2>2, BoundsAssumption DEF Entry, Version, Timestamp
  <2>5. CASE now'[i] = now[i]
    BY <1>1, <2>3, <2>5 DEF GenerateInv, FileInv, SameInputs, Made
  <2>6. CASE now'[i].io = now[i].io + 1 /\ now'[i].blob = now[i].blob
             /\ now'[i].time = now[i].time
    BY <2>3, <2>4, <2>6 DEF SameInputs
  <2>7. CASE now'[i].blob = now[i].blob + 1 /\ now'[i].io = now[i].io
             /\ now'[i].time = now[i].time
    BY <2>3, <2>4, <2>7 DEF SameInputs, NoBlob
  <2>8. CASE now'[i].time = now[i].time + 1 /\ now'[i].io = now[i].io
             /\ now'[i].blob = now[i].blob
    BY <2>3, <2>4, <2>8 DEF SameInputs
  <2> QED
    BY <2>1, <2>2, <2>5, <2>6, <2>7, <2>8, UserForward
<1>6. trouble = "revert" => FileInv'
  <2>1. SUFFICES ASSUME trouble = "revert", NEW r \in file, NEW i \in DOMAIN r,
                        SameInputs(r[i], i)'
                 PROVE  Made(i)'
    BY <1>1 DEF FileInv
  <2>2. shouldRun = {}
    BY <1>1 DEF GenerateInv, StageInv
  <2>3. Honest(r[i], i)
    BY <2>1, <2>2 DEF GenerateInv, HonestInv
  <2> QED
    BY <1>1, <2>1, <2>3 DEF Honest, SameInputs, Made
<1> QED
  BY <1>2, <1>3, <1>4, <1>5, <1>6, UserStill DEF GenerateInv

LEMMA CheckIdKeeps ==
  ASSUME TypeOK, GenerateInv, NEW i \in Ids, CheckId(i)
  PROVE  GenerateInv'
<1>1. /\ phase = "run" /\ phase' = phase /\ out' = out /\ file' = file
      /\ trouble' = trouble /\ now' = now /\ ids' = ids /\ load' = load
      /\ load = file /\ i \in ids /\ i \notin succeeded /\ i \notin shouldRun
  BY DEF CheckId, GenerateInv, StageInv, world
<1>2. FileInv' /\ PastInv'
  BY <1>1 DEF GenerateInv, FileInv, PastInv, SameInputs, Made
<1>3. CASE i \in Added \/ \E r \in load : Changed(r[i], i)
  <2>1. /\ shouldRun' = shouldRun \cup {i} /\ succeeded' = succeeded
        /\ stage' = [stage EXCEPT ![i] = "calling"]
    BY <1>3 DEF CheckId
  <2>2. StageInv'
    BY <1>1, <2>1 DEF GenerateInv, StageInv, TypeOK
  <2>3. HonestInv'
    BY <1>1, <2>1 DEF GenerateInv, HonestInv, Honest
  <2>4. \A r \in file : i \in DOMAIN r => ~SameInputs(r[i], i)
    BY <1>1, <1>3 DEF Added, Changed, GenerateInv, StageInv
  <2>5. RunInv'
    BY <1>1, <2>1, <2>4 DEF GenerateInv, RunInv, SameInputs, Made
  <2> QED
    BY <1>2, <2>2, <2>3, <2>5 DEF GenerateInv
<1>4. CASE ~(i \in Added \/ \E r \in load : Changed(r[i], i))
  <2>1. /\ shouldRun' = shouldRun /\ succeeded' = succeeded \cup {i}
        /\ stage' = [stage EXCEPT ![i] = "done"]
    BY <1>4 DEF CheckId
  <2>2. StageInv'
    BY <1>1, <2>1 DEF GenerateInv, StageInv, TypeOK
  <2>3. HonestInv'
    BY <1>1, <2>1 DEF GenerateInv, HonestInv, Honest
  <2>4. PICK r \in file : i \in DOMAIN r /\ SameInputs(r[i], i)
    BY <1>1, <1>4 DEF Added, Changed
  <2>5. Made(i)
    BY <2>4 DEF GenerateInv, FileInv
  <2>6. RunInv'
    BY <1>1, <2>1, <2>5 DEF GenerateInv, RunInv, SameInputs, Made
  <2> QED
    BY <1>2, <2>2, <2>3, <2>6 DEF GenerateInv
<1> QED
  BY <1>3, <1>4

(* A callback writes outputs that no schema vouches for. *)
LEMMA CallKeeps ==
  ASSUME TypeOK, GenerateInv, NEW i \in Ids,
         CallGenerate(i) \/ CallGenerateFails(i)
  PROVE  GenerateInv'
<1>1. /\ phase = "run" /\ phase' = phase /\ file' = file
      /\ trouble' = trouble /\ now' = now /\ ids' = ids /\ load' = load
      /\ i \notin succeeded /\ i \in shouldRun /\ shouldRun' = shouldRun
      /\ stage' = [stage EXCEPT ![i] = "done"]
  BY DEF CallGenerate, CallGenerateFails, GenerateInv, StageInv, world
<1>2. \A j \in Ids \ {i} : out'[j] = out[j]
  BY DEF CallGenerate, CallGenerateFails, TypeOK
<1>3. \/ succeeded' = succeeded
      \/ succeeded' = succeeded \cup {i} /\ Made(i)'
  <2>1. CASE CallGenerate(i)
    <3>1. now[i] \in out'[i]
      BY <2>1 DEF CallGenerate, TypeOK
    <3> QED
      BY <1>1, <2>1, <3>1 DEF CallGenerate, Made, SameInputs
  <2>2. CASE CallGenerateFails(i)
    BY <2>2 DEF CallGenerateFails
  <2> QED
    BY <2>1, <2>2
<1>4. \A r \in file : i \in DOMAIN r => ~SameInputs(r[i], i)
  BY <1>1 DEF GenerateInv, RunInv
<1>5. \A j \in Ids \ {i} : Made(j)' <=> Made(j)
  BY <1>1, <1>2 DEF Made, SameInputs
<1>6. \A r \in file : DOMAIN r \subseteq Ids
  BY FileType
<1>7. StageInv'
  BY <1>1, <1>3 DEF GenerateInv, StageInv, TypeOK
<1>8. PastInv'
  BY <1>1 DEF GenerateInv, PastInv
<1>9. FileInv'
  <2>1. SUFFICES ASSUME NEW r \in file, NEW j \in DOMAIN r, SameInputs(r[j], j)
                 PROVE  Made(j)'
    BY <1>1 DEF FileInv, SameInputs
  <2>2. j \in Ids \ {i} /\ Made(j)
    BY <1>4, <1>6, <2>1 DEF GenerateInv, FileInv
  <2> QED
    BY <1>5, <2>2
<1>10. HonestInv'
  <2>1. SUFFICES ASSUME trouble = "revert", NEW r \in file, NEW j \in DOMAIN r,
                        j \notin shouldRun
                 PROVE  Honest(r[j], j)'
    BY <1>1 DEF HonestInv
  <2>2. j \in Ids \ {i} /\ Honest(r[j], j)
    BY <1>1, <1>6, <2>1 DEF GenerateInv, HonestInv
  <2> QED
    BY <1>1, <1>2, <2>2 DEF Honest
<1>11. RunInv'
  <2>1. \A j \in succeeded' : Made(j)'
    BY <1>1, <1>3, <1>5 DEF GenerateInv, RunInv, TypeOK
  <2> QED
    BY <1>1, <2>1 DEF GenerateInv, RunInv, SameInputs
<1> QED
  BY <1>7, <1>8, <1>9, <1>10, <1>11 DEF GenerateInv

(* Steps that touch neither the world nor an output nor the schema. *)
LEMMA QuietKeeps ==
  ASSUME GenerateInv, UNCHANGED <<world, out, file>>
  PROVE  FileInv' /\ PastInv'
BY DEF GenerateInv, FileInv, PastInv, SameInputs, Made, world

LEMMA SkipKeeps ==
  ASSUME TypeOK, GenerateInv, NEW i \in Ids, SkipId(i) \/ CheckIdFails(i)
  PROVE  GenerateInv'
<1>1. /\ UNCHANGED <<world, out, file, phase, load, shouldRun, succeeded>>
      /\ stage' = [stage EXCEPT ![i] = "done"]
  BY DEF SkipId, CheckIdFails
<1>2. FileInv' /\ PastInv'
  BY <1>1, QuietKeeps
<1>3. StageInv'
  BY <1>1 DEF GenerateInv, StageInv, TypeOK, world
<1>4. HonestInv' /\ RunInv'
  BY <1>1 DEF GenerateInv, HonestInv, RunInv, Honest, SameInputs, Made, world
<1> QED
  BY <1>2, <1>3, <1>4 DEF GenerateInv

LEMMA ControlKeeps ==
  ASSUME TypeOK, GenerateInv, GenerateSkip \/ Select \/ Join \/ Build
  PROVE  GenerateInv'
<1>1. UNCHANGED <<world, out, file, shouldRun, succeeded>>
  BY DEF GenerateSkip, Select, Join, Build, process
<1>2. FileInv' /\ PastInv'
  BY <1>1, QuietKeeps
<1>3. CASE GenerateSkip
  BY <1>1, <1>2, <1>3 DEF GenerateSkip, GenerateInv, StageInv, HonestInv, RunInv,
     Honest, world, process
<1>4. CASE Select
  BY <1>1, <1>2, <1>4 DEF Select, GenerateInv, StageInv, HonestInv, RunInv,
     Honest, world, TypeOK
<1>5. CASE Join
  <2>1. StageInv'
    BY <1>1, <1>5 DEF Join, GenerateInv, StageInv, world
  <2>2. RunInv'
    BY <1>1, <1>5 DEF Join, GenerateInv, RunInv, SameInputs, Made, world
  <2>3. phase' = "exit" => shouldRun = {}
    BY <1>5 DEF Join
  <2>4. HonestInv'
    BY <1>1, <2>3 DEF GenerateInv, HonestInv, Honest, world
  <2> QED
    BY <1>2, <2>1, <2>2, <2>4 DEF GenerateInv
<1>6. CASE Build
  BY <1>1, <1>2, <1>6 DEF Build, GenerateInv, StageInv, HonestInv, RunInv,
     Honest, world
<1> QED
  BY <1>3, <1>4, <1>5, <1>6

(* What is stored is what was found unchanged or was made in this run. *)
LEMMA StoreKeeps ==
  ASSUME TypeOK, GenerateInv, Store
  PROVE  GenerateInv'
<1>1. /\ phase = "store" /\ phase' = "exit" /\ file' = {FinalSchema}
      /\ UNCHANGED <<world, out, load, stage, shouldRun, succeeded>>
  BY DEF Store, process
<1>2. \A i \in succeeded : Made(i) /\ i \in Ids /\ now[i] \in Entry
  BY <1>1 DEF GenerateInv, RunInv, TypeOK
<1>3. /\ DOMAIN FinalSchema = succeeded
      /\ \A i \in succeeded : FinalSchema[i] = now[i]
  BY DEF FinalSchema
<1>4. StageInv'
  BY <1>1 DEF GenerateInv, StageInv, world
<1>5. FileInv'
  BY <1>1, <1>2, <1>3 DEF FileInv, Made, SameInputs, world
<1>6. PastInv'
  BY <1>1, <1>2, <1>3, BoundsAssumption
     DEF PastInv, Entry, Version, Timestamp, world
<1>7. HonestInv'
  BY <1>1, <1>2, <1>3, MadeHonest DEF HonestInv, Honest, world
<1>8. RunInv'
  BY <1>1 DEF RunInv
<1> QED
  BY <1>4, <1>5, <1>6, <1>7, <1>8 DEF GenerateInv

LEMMA StoreFailsKeeps ==
  ASSUME GenerateInv, StoreFails
  PROVE  GenerateInv'
<1>1. /\ phase = "store" /\ phase' = "exit" /\ file' \subseteq file
      /\ trouble = "kill"
      /\ UNCHANGED <<world, out, load, stage, shouldRun, succeeded>>
  BY DEF StoreFails, process
<1>2. StageInv'
  BY <1>1 DEF GenerateInv, StageInv, world
<1>3. FileInv' /\ PastInv'
  BY <1>1 DEF GenerateInv, FileInv, PastInv, Made, SameInputs, world
<1>4. HonestInv' /\ RunInv'
  BY <1>1 DEF HonestInv, RunInv, world
<1> QED
  BY <1>2, <1>3, <1>4 DEF GenerateInv

LEMMA RunBuildKeeps ==
  ASSUME GenerateInv, RunBuild
  PROVE  GenerateInv'
<1>1. /\ phase = "exit" /\ UNCHANGED <<world, out, file>>
      /\ ProcessGone
  BY DEF RunBuild
<1>2. FileInv' /\ PastInv'
  BY <1>1, QuietKeeps
<1>3. StageInv' /\ RunInv'
  BY <1>1 DEF ProcessGone, GenerateInv, StageInv, RunInv, world
<1>4. HonestInv'
  BY <1>1 DEF GenerateInv, HonestInv, Honest, world
<1> QED
  BY <1>2, <1>3, <1>4 DEF GenerateInv

(* A run that is killed loses outputs that no schema vouches for. *)
LEMMA InterruptKeeps ==
  ASSUME TypeOK, GenerateInv, Interrupt
  PROVE  GenerateInv'
<1>1. /\ trouble = "kill" /\ ProcessGone /\ UNCHANGED world
      /\ file' \subseteq file
  BY DEF Interrupt
<1>2. \A i \in Ids : stage[i] # "calling" => out'[i] = out[i]
  BY DEF Interrupt
<1>3. StageInv' /\ RunInv'
  BY <1>1 DEF ProcessGone, GenerateInv, StageInv, RunInv, world
<1>4. HonestInv'
  BY <1>1 DEF HonestInv, world
<1>5. PastInv'
  BY <1>1 DEF GenerateInv, PastInv, world
<1>6. FileInv'
  <2>1. SUFFICES ASSUME NEW r \in file, NEW i \in DOMAIN r, SameInputs(r[i], i)
                 PROVE  Made(i)'
    BY <1>1 DEF FileInv, SameInputs, world
  <2>2. i \in Ids
    BY FileType
  <2>3. stage[i] # "calling"
    BY <2>1, <2>2 DEF GenerateInv, StageInv, RunInv
  <2>4. Made(i)
    BY <2>1 DEF GenerateInv, FileInv
  <2> QED
    BY <1>1, <1>2, <2>2, <2>3, <2>4 DEF Made, SameInputs, world
<1> QED
  BY <1>3, <1>4, <1>5, <1>6 DEF GenerateInv

LEMMA QuietStep ==
  ASSUME GenerateInv, OtherTaskFails \/ UNCHANGED vars
  PROVE  GenerateInv'
<1>1. UNCHANGED <<world, out, file, phase, process>>
  BY DEF OtherTaskFails, vars
<1> QED
  BY <1>1, QuietKeeps DEF GenerateInv, StageInv, HonestInv, RunInv, Honest, Made,
     SameInputs, world, process

LEMMA NextInv ==
  ASSUME Still
  PROVE  TypeOK /\ GenerateInv /\ [Next]_vars => GenerateInv'
<1>1. SUFFICES ASSUME TypeOK, GenerateInv, [Next]_vars PROVE GenerateInv'
  OBVIOUS
<1>2. CASE User
  BY <1>1, <1>2, UserKeeps
<1>3. CASE Generate
  <2>1. ASSUME NEW i \in Ids, Subtask(i) PROVE GenerateInv'
    BY <1>1, <2>1, CheckIdKeeps, CallKeeps, SkipKeeps DEF Subtask
  <2> QED
    BY <1>1, <1>3, <2>1, ControlKeeps, StoreKeeps, StoreFailsKeeps DEF Generate
<1>4. CASE Build \/ RunBuild \/ Interrupt
  BY <1>1, <1>4, ControlKeeps, RunBuildKeeps, InterruptKeeps
<1>5. CASE OtherTaskFails \/ UNCHANGED vars
  BY <1>1, <1>5, QuietStep
<1> QED
  BY <1>1, <1>2, <1>3, <1>4, <1>5 DEF Next

(* What links the stored entries to the outputs at every moment of a run:    *)
(* while callbacks run, when only some entries are stored, and after a kill. *)
(* (The comparison and the store of the Generate task.)                      *)
THEOREM EntriesStayTrue == ASSUME Still PROVE Spec => []GenerateInv
<1>1. Still
  OBVIOUS
<1>2. TypeOK /\ GenerateInv /\ [Next]_vars => GenerateInv'
  BY <1>1, NextInv
<1> QED
  BY <1>2, InitInv, GeneratorTypeCorrect, PTL DEF Spec

(* Where inputs stand still during a run, an id the next run will skip has   *)
(* the outputs its callback would make: whether runs are killed or values go *)
(* back to earlier ones.                                                     *)
THEOREM NothingIsSkipped == ASSUME Still PROVE Spec => []NoMissedGenerate
<1>1. GenerateInv => NoMissedGenerate
  BY DEF GenerateInv, FileInv, NoMissedGenerate
<1> QED
  BY <1>1, EntriesStayTrue, PTL

-----------------------------------------------------------------------------
(* The schema on disk is that of the script, and the outputs are too. *)
Settled ==
  /\ Clean
  /\ \E r \in file : DOMAIN r = ids /\ \A i \in ids : SameInputs(r[i], i)

(* What a run that has not failed knows of the ids that are done. *)
DoneInv ==
  /\ phase \in {"idle", "generate"} => ~dirty
  /\ phase \in {"run", "store"} => succeeded \subseteq ids
  /\ phase = "run" =>
       \A i \in succeeded \ shouldRun :
         i \notin Added /\ \A r \in load : SameInputs(r[i], i)
  /\ phase = "run" /\ ~dirty => load # {} /\ Removed = {} /\ Added = {}
  /\ phase = "run" /\ taskState = "SUCCESS" =>
       \A i \in ids : stage[i] = "done" => i \in succeeded
  /\ phase = "store" /\ taskState = "SUCCESS" => ids \subseteq succeeded

(* When everything is settled, and what a run then does: nothing. *)
CalmInv ==
  /\ phase # "idle" => calm > 0
  /\ phase = "exit" /\ taskState = "SUCCESS" => Settled
  /\ phase = "idle" /\ last = "ok" /\ calm > 0 => Settled
  /\ calm = 2 => Settled /\ ~dirty /\ shouldRun = {} /\ phase # "store"

ContractInv == TypeOK /\ GenerateInv /\ DoneInv /\ CalmInv

-----------------------------------------------------------------------------
(* What each step leaves settled *)

LEMMA CalmInit == Init => DoneInv /\ CalmInv
BY DEF Init, DoneInv, CalmInv

(* What settled means depends on the world, the outputs and the schema. *)
LEMMA SettledSame ==
  ASSUME UNCHANGED <<world, out, file>>
  PROVE  Clean' = Clean /\ Settled' = Settled
BY DEF Settled, Clean, Made, SameInputs, world

(* An edit is made between runs, and nothing is calm after it. *)
LEMMA UserCalms ==
  ASSUME Still, TypeOK, DoneInv, CalmInv, User
  PROVE  DoneInv' /\ CalmInv'
<1>1. /\ phase = "idle" /\ phase' = "idle" /\ calm' = 0 /\ dirty' = dirty
  BY UserStill DEF AfterEdit, process
<1> QED
  BY <1>1 DEF DoneInv, CalmInv

LEMMA BuildCalms ==
  ASSUME TypeOK, GenerateInv, DoneInv, CalmInv, Build
  PROVE  DoneInv' /\ CalmInv'
<1>1. /\ phase = "idle" /\ phase' = "generate" /\ dirty' = dirty
      /\ shouldRun' = shouldRun
      /\ calm' = IF calm > 0 /\ last = "ok" THEN 2 ELSE 1
  BY DEF Build
<1>2. Settled' = Settled
  BY SettledSame DEF Build
<1>3. ~dirty /\ shouldRun = {}
  BY <1>1 DEF DoneInv, GenerateInv, StageInv
<1>4. DoneInv'
  BY <1>1, <1>3 DEF DoneInv
<1>5. CalmInv'
  BY <1>1, <1>2, <1>3 DEF CalmInv
<1> QED BY <1>4, <1>5

(* The schema that was loaded is the one that settled everything. *)
LEMMA SettledLoad ==
  ASSUME StageInv, Settled, phase \in {"generate", "run", "store"},
         TypeOK
  PROVE  /\ load # {} /\ Removed = {} /\ Added = {}
         /\ \A r \in load : \A i \in ids : SameInputs(r[i], i)
<1>1. PICK r \in file : DOMAIN r = ids /\ \A i \in ids : SameInputs(r[i], i)
  BY DEF Settled
<1>2. load = {r}
  BY <1>1 DEF StageInv
<1> QED
  BY <1>1, <1>2 DEF Removed, Added

LEMMA SelectCalms ==
  ASSUME TypeOK, GenerateInv, DoneInv, CalmInv, Select
  PROVE  DoneInv' /\ CalmInv'
<1>1. /\ phase = "generate" /\ phase' = "run"
      /\ dirty' = (load = {} \/ Removed # {} \/ Added # {})
      /\ stage' = [i \in Ids |-> IF i \in ids THEN "waiting" ELSE "none"]
      /\ UNCHANGED <<world, out, file, load, shouldRun, succeeded, taskState, calm>>
  BY DEF Select
<1>2. Settled' = Settled
  BY <1>1, SettledSame
<1>3. succeeded = {} /\ shouldRun = {} /\ StageInv
  BY <1>1 DEF GenerateInv, StageInv
<1>4. Removed' = Removed /\ Added' = Added
  BY <1>1 DEF Removed, Added, world
<1>5. \A i \in ids : stage'[i] = "waiting"
  BY <1>1 DEF TypeOK
<1>6. ids' = ids
  BY <1>1 DEF world
<1>7. DoneInv'
  BY <1>1, <1>3, <1>4, <1>5, <1>6 DEF DoneInv
<1>8. calm = 2 => ~dirty'
  BY <1>1, <1>3, SettledLoad DEF CalmInv
<1>9. CalmInv'
  BY <1>1, <1>2, <1>3, <1>8 DEF CalmInv
<1> QED BY <1>7, <1>9

(* A subtask changes neither the world nor the schemas. *)
LEMMA SubtaskFrame ==
  ASSUME NEW i \in Ids, Subtask(i), TypeOK, StageInv
  PROVE  /\ UNCHANGED <<world, file, phase, load, dirty, last, calm>>
         /\ phase = "run" /\ i \in ids /\ ids' = ids
         /\ stage[i] \in {"waiting", "calling"}
         /\ Removed' = Removed /\ Added' = Added
         /\ \A r, j : SameInputs(r, j)' = SameInputs(r, j)
<1>1. /\ UNCHANGED <<world, file, phase, load, dirty, last, calm>>
      /\ stage[i] \in {"waiting", "calling"}
  BY DEF Subtask, SkipId, CheckId, CheckIdFails, CallGenerate,
     CallGenerateFails
<1> QED
  BY <1>1 DEF StageInv, Removed, Added, SameInputs, world

LEMMA SubtaskDone ==
  ASSUME TypeOK, GenerateInv, DoneInv, NEW i \in Ids, Subtask(i)
  PROVE  DoneInv'
<1>1. StageInv
  BY DEF GenerateInv
<1>2. /\ UNCHANGED <<phase, load, dirty>> /\ phase = "run" /\ i \in ids
      /\ ids' = ids /\ Removed' = Removed /\ Added' = Added
      /\ \A r, j : SameInputs(r, j)' = SameInputs(r, j)
  BY <1>1, SubtaskFrame
<1>3. i \notin succeeded
  BY <1>1, SubtaskFrame DEF StageInv
<1>4. /\ succeeded' \in {succeeded, succeeded \cup {i}}
      /\ shouldRun' \in {shouldRun, shouldRun \cup {i}}
  BY DEF Subtask, SkipId, CheckId, CheckIdFails, CallGenerate,
     CallGenerateFails
<1>5. succeeded' = succeeded \cup {i} =>
        \/ i \in shouldRun'
        \/ i \notin Added /\ \A r \in load : SameInputs(r[i], i)
  BY <1>1, <1>3 DEF Subtask, SkipId, CheckId, CheckIdFails, CallGenerate,
     CallGenerateFails, Changed, StageInv
<1>6. \A j \in succeeded' \ shouldRun' :
        j \notin Added /\ \A r \in load : SameInputs(r[j], j)
  BY <1>2, <1>4, <1>5 DEF DoneInv
<1>7. taskState' = "SUCCESS" =>
        /\ taskState = "SUCCESS"
        /\ stage'[i] = "done" => i \in succeeded'
        /\ \A j \in Ids : j # i => stage'[j] = stage[j]
  BY DEF Subtask, SkipId, CheckId, CheckIdFails, CallGenerate,
     CallGenerateFails, TypeOK, Fail
<1>8. taskState' = "SUCCESS" => \A j \in ids : stage'[j] = "done" => j \in succeeded'
  BY <1>2, <1>4, <1>7 DEF DoneInv, TypeOK
<1> QED
  BY <1>2, <1>4, <1>6, <1>8 DEF DoneInv

(* In a calm run nothing is called. *)
LEMMA CalmSubtask ==
  ASSUME TypeOK, GenerateInv, CalmInv, NEW i \in Ids, Subtask(i), calm = 2
  PROVE  out' = out /\ shouldRun' = {}
<1>1. StageInv /\ Settled /\ shouldRun = {}
  BY DEF GenerateInv, CalmInv
<1>2. stage[i] # "calling"
  BY <1>1 DEF StageInv
<1>3. phase = "run" /\ i \in ids
  BY <1>1, SubtaskFrame
<1>4. i \notin Added /\ \A r \in load : SameInputs(r[i], i)
  BY <1>1, <1>3, SettledLoad
<1> QED
  BY <1>1, <1>2, <1>4 DEF Subtask, SkipId, CheckId, CheckIdFails,
     CallGenerate, CallGenerateFails, Changed

LEMMA SubtaskCalms ==
  ASSUME TypeOK, GenerateInv, DoneInv, CalmInv, NEW i \in Ids, Subtask(i)
  PROVE  CalmInv'
<1>1. /\ UNCHANGED <<world, file, phase, load, dirty, last, calm>>
      /\ phase = "run"
  BY SubtaskFrame DEF GenerateInv
<1>2. calm = 2 => out' = out /\ shouldRun' = {}
  BY CalmSubtask
<1>3. calm = 2 => Settled'
  BY <1>1, <1>2, SettledSame DEF CalmInv
<1> QED
  BY <1>1, <1>2, <1>3 DEF CalmInv

(* A run that ends without a store found everything as it was. *)
LEMMA JoinCalms ==
  ASSUME TypeOK, GenerateInv, DoneInv, CalmInv, Join
  PROVE  DoneInv' /\ CalmInv'
<1>1. /\ phase = "run" /\ \A i \in ids : stage[i] = "done"
      /\ dirty' = (dirty \/ shouldRun # {})
      /\ phase' = IF dirty \/ shouldRun # {} THEN "store" ELSE "exit"
      /\ UNCHANGED <<world, out, file, load, stage, shouldRun, succeeded,
                     taskState, last, calm>>
  BY DEF Join
<1>2. Settled' = Settled /\ ids' = ids
  BY <1>1, SettledSame DEF world
<1>3. taskState = "SUCCESS" => ids \subseteq succeeded
  BY <1>1 DEF DoneInv
<1>4. DoneInv'
  BY <1>1, <1>2, <1>3 DEF DoneInv
<1>5. ASSUME taskState = "SUCCESS", ~dirty, shouldRun = {} PROVE Settled
  <2>1. load = file /\ \A r1, r2 \in file : r1 = r2
    BY <1>1 DEF GenerateInv, StageInv
  <2>2. load # {} /\ Removed = {} /\ Added = {}
    BY <1>1, <1>5 DEF DoneInv
  <2>3. PICK r \in file : TRUE
    BY <2>1, <2>2
  <2>4. DOMAIN r \in SUBSET Ids /\ ids \in SUBSET Ids
    BY SchemaEntry DEF TypeOK
  <2>5. \A i \in ids : i \in DOMAIN r
    BY <2>1, <2>2 DEF Added
  <2>6. \A i \in DOMAIN r : i \in ids
    BY <2>1, <2>2, <2>4 DEF Removed
  <2>7. DOMAIN r = ids
    BY <2>4, <2>5, <2>6
  <2>8. \A i \in ids : SameInputs(r[i], i)
    BY <1>1, <1>3, <1>5, <2>1 DEF DoneInv
  <2>9. Clean
    BY <1>1, <1>3, <1>5 DEF GenerateInv, RunInv, Clean
  <2> QED
    BY <2>7, <2>8, <2>9 DEF Settled
<1>6. CalmInv'
  BY <1>1, <1>2, <1>5 DEF CalmInv
<1> QED BY <1>4, <1>6

LEMMA StoreCalms ==
  ASSUME TypeOK, GenerateInv, DoneInv, CalmInv, Store
  PROVE  DoneInv' /\ CalmInv'
<1>1. /\ phase = "store" /\ phase' = "exit" /\ file' = {FinalSchema}
      /\ UNCHANGED <<world, out, shouldRun, succeeded, taskState, last, calm>>
  BY DEF Store, process
<1>2. taskState = "SUCCESS" => succeeded = ids
  BY <1>1 DEF DoneInv
<1>3. taskState = "SUCCESS" => Settled'
  <2>1. SUFFICES ASSUME succeeded = ids PROVE Settled'
    BY <1>2
  <2>2. Clean'
    BY <1>1, <2>1 DEF GenerateInv, RunInv, Clean, Made, SameInputs, world
  <2>3. DOMAIN FinalSchema = ids /\ \A i \in ids : FinalSchema[i] = now[i]
    BY <2>1 DEF FinalSchema
  <2>4. \A i \in ids : SameInputs(FinalSchema[i], i)'
    BY <1>1, <2>3 DEF SameInputs, FinalSchema, world
  <2> QED
    BY <1>1, <2>2, <2>3, <2>4 DEF Settled, SameInputs, world
<1>4. DoneInv'
  BY <1>1 DEF DoneInv
<1> QED
  BY <1>1, <1>3, <1>4 DEF CalmInv

LEMMA StoreFailsCalms ==
  ASSUME DoneInv, CalmInv, StoreFails
  PROVE  DoneInv' /\ CalmInv'
BY DEF StoreFails, Fail, DoneInv, CalmInv

LEMMA ExitCalms ==
  ASSUME DoneInv, CalmInv, GenerateSkip \/ RunBuild \/ OtherTaskFails
                           \/ UNCHANGED vars
  PROVE  DoneInv' /\ CalmInv'
<1>1. UNCHANGED <<world, out, file, calm>>
  BY DEF GenerateSkip, RunBuild, OtherTaskFails, vars
<1>2. Settled' = Settled
  BY <1>1, SettledSame
<1>3. CASE GenerateSkip
  BY <1>1, <1>2, <1>3 DEF GenerateSkip, DoneInv, CalmInv, process
<1>4. CASE RunBuild
  BY <1>1, <1>2, <1>4 DEF RunBuild, ProcessGone, DoneInv, CalmInv
<1>5. CASE OtherTaskFails
  BY <1>1, <1>2, <1>5 DEF OtherTaskFails, Fail, DoneInv, CalmInv, Removed, Added,
     SameInputs, world, process
<1>6. CASE UNCHANGED vars
  BY <1>1, <1>2, <1>6 DEF vars, DoneInv, CalmInv, Removed, Added, SameInputs,
     world, process
<1> QED BY <1>3, <1>4, <1>5, <1>6

(* A calm run that is killed was writing nothing. *)
LEMMA CalmInterrupt ==
  ASSUME TypeOK, GenerateInv, CalmInv, Interrupt, calm = 2
  PROVE  out' = out /\ file' = file
<1>1. shouldRun = {} /\ phase # "store"
  BY DEF CalmInv
<1>2. {i \in Ids : stage[i] = "calling"} = {}
  BY <1>1 DEF GenerateInv, StageInv
<1>3. out' = [i \in Ids |-> out[i]]
  BY <1>2 DEF Interrupt
<1> QED
  BY <1>1, <1>3 DEF Interrupt, TypeOK

LEMMA InterruptCalms ==
  ASSUME TypeOK, GenerateInv, DoneInv, CalmInv, Interrupt
  PROVE  DoneInv' /\ CalmInv'
<1>1. calm = 2 => Settled'
  BY CalmInterrupt, SettledSame DEF CalmInv, Interrupt
<1> QED
  BY <1>1 DEF Interrupt, ProcessGone, DoneInv, CalmInv

LEMMA CalmNext ==
  ASSUME Still, ContractInv, [Next]_vars
  PROVE  DoneInv' /\ CalmInv'
<1> USE DEF ContractInv
<1>1. CASE User
  BY <1>1, UserCalms
<1>2. CASE Generate
  BY <1>2, SubtaskDone, SubtaskCalms, ExitCalms, SelectCalms, JoinCalms,
     StoreCalms, StoreFailsCalms DEF Generate
<1>3. CASE Build \/ RunBuild \/ OtherTaskFails \/ Interrupt \/ UNCHANGED vars
  BY <1>3, BuildCalms, ExitCalms, InterruptCalms
<1> QED
  BY <1>1, <1>2, <1>3 DEF Next

LEMMA ContractInvHolds == ASSUME Still PROVE Spec => []ContractInv
<1>1. Still
  OBVIOUS
<1>2. Init => DoneInv /\ CalmInv
  BY CalmInit
<1>3. ContractInv /\ [Next]_vars => DoneInv' /\ CalmInv'
  BY <1>1, CalmNext
<1>4. Spec => [](TypeOK /\ GenerateInv)
  BY GeneratorTypeCorrect, EntriesStayTrue, PTL
<1>5. TypeOK /\ GenerateInv /\ DoneInv /\ CalmInv <=> ContractInv
  BY DEF ContractInv
<1> QED
  BY <1>2, <1>3, <1>4, <1>5, PTL DEF Spec

(* A run after a success, with no edit between, calls no callback and stores *)
(* nothing, whichever runs failed or were killed before that. (IsChanged and *)
(* the early return of GenerateTask.)                                        *)
THEOREM NothingIsRepeated == ASSUME Still PROVE Spec => []NoSpuriousGenerate
<1>1. ContractInv => NoSpuriousGenerate
  BY DEF ContractInv, CalmInv, NoSpuriousGenerate
<1> QED
  BY <1>1, ContractInvHolds, PTL

-----------------------------------------------------------------------------
(* The contract: every step is one of its steps *)

LEMMA ContractStep ==
  ASSUME Still, ContractInv, ContractInv', [Next]_vars
  PROVE  [Contract!Next]_(Contract!vars)
<1> USE DEF ContractInv
<1>1. Clean \in BOOLEAN /\ Clean' \in BOOLEAN
  BY DEF Clean
<1>2. CASE User
  <2>1. calm' = 0 /\ UNCHANGED <<phase, last>>
    BY <1>2, UserStill DEF AfterEdit
  <2> QED
    BY <1>1, <2>1 DEF Contract!Next, Contract!Edit
<1>3. CASE Build
  <2>1. Clean' = Clean
    BY <1>3, SettledSame DEF Build
  <2>2. Contract!Begin
    BY <1>3, <2>1 DEF Build, Contract!Begin
  <2> QED
    BY <2>2 DEF Contract!Next
<1>4. CASE Generate
  <2>1. phase # "idle" /\ phase' # "idle" /\ UNCHANGED <<last, calm>>
    BY <1>4, SubtaskFrame DEF Generate, GenerateSkip, Select, Join, Store, StoreFails,
       GenerateInv
  <2>2. CASE calm = 2
    <3>1. UNCHANGED <<world, out>>
      <4>1. ASSUME NEW i \in Ids, Subtask(i) PROVE UNCHANGED <<world, out>>
        BY <4>1, <2>2, CalmSubtask, SubtaskFrame DEF GenerateInv
      <4> QED
        BY <1>4, <4>1 DEF Generate, GenerateSkip, Select, Join, Store, StoreFails
    <3>2. Clean' = Clean
      BY <3>1 DEF Clean, Made, SameInputs, world
    <3> QED
      BY <2>1, <3>2 DEF Contract!vars
  <2>3. CASE calm # 2
    <3>1. calm < 2
      BY <2>3 DEF TypeOK
    <3>2. Contract!Work
      BY <1>1, <2>1, <3>1 DEF Contract!Work
    <3> QED
      BY <3>2 DEF Contract!Next
  <2> QED BY <2>2, <2>3
<1>5. CASE RunBuild
  <2>1. Clean' = Clean
    BY <1>5, SettledSame DEF RunBuild
  <2>2. last' = "ok" => Clean
    BY <1>5 DEF RunBuild, CalmInv, Settled
  <2>3. last' \in {"ok", "failed"} /\ Contract!Finish(last')
    BY <1>5, <2>1, <2>2 DEF RunBuild, ProcessGone, Contract!Finish
  <2> QED
    BY <2>3 DEF Contract!Next
<1>6. CASE OtherTaskFails \/ UNCHANGED vars
  <2>1. UNCHANGED <<world, out, file, phase, last, calm>>
    BY <1>6 DEF OtherTaskFails, vars
  <2> QED
    BY <2>1, SettledSame DEF Contract!vars
<1>7. CASE Interrupt
  <2>1. /\ phase # "idle" /\ phase' = "idle" /\ last' = "killed" /\ calm' = calm
        /\ UNCHANGED world
    BY <1>7 DEF Interrupt, ProcessGone
  <2>2. calm = 2 => Clean' = Clean
    BY <1>7, <2>1, CalmInterrupt, SettledSame
  <2>3. ~(calm < 2) => calm = 2
    BY DEF TypeOK
  <2>4. Contract!Killed
    BY <1>1, <2>1, <2>2, <2>3 DEF Contract!Killed
  <2> QED
    BY <2>4 DEF Contract!Next
<1> QED
  BY <1>2, <1>3, <1>4, <1>5, <1>6, <1>7 DEF Next

(* The generator implements the contract of an incremental build: success    *)
(* means clean outputs, and what is up to date is left alone, whichever      *)
(* callbacks fail and wherever runs are killed. (All of GenerateTask.)       *)
THEOREM GeneratorKeepsContract == ASSUME Still PROVE Spec => ImplementsContract
<1>1. Still
  OBVIOUS
<1>2. Init => Contract!Init
  BY DEF Init, Contract!Init, Clean
<1>3. ContractInv /\ ContractInv' /\ [Next]_vars => [Contract!Next]_(Contract!vars)
  BY <1>1, ContractStep
<1> QED
  BY <1>2, <1>3, ContractInvHolds, PTL DEF Spec, ImplementsContract, Contract!Spec

-----------------------------------------------------------------------------
(* What is up to date is not made again *)

(* Every entry of the schema says what its outputs were made from. *)
AllHonest == \A r \in file : \A i \in DOMAIN r : Honest(r[i], i)

(* After a run that succeeded the schema speaks of the outputs, until the    *)
(* next run writes them; what that run calls has a blob it could read.       *)
VouchInv ==
  /\ \A i \in Ids : \A o1, o2 \in out[i] : o1 = o2
  /\ phase = "exit" /\ taskState = "SUCCESS" => AllHonest
  /\ phase \in {"idle", "generate", "run"} /\ last = "ok" =>
       \A r \in file : \A i \in DOMAIN r :
         i \notin shouldRun \/ stage[i] = "calling" => Honest(r[i], i)
  /\ phase = "run" => \A i \in shouldRun : ~BlobRefused(i)

LEMMA VouchInit == Init => VouchInv
BY DEF Init, VouchInv

(* Honesty is between the schema and the outputs. *)
LEMMA HonestSame ==
  ASSUME UNCHANGED <<out, file>>
  PROVE  /\ \A e, i : Honest(e, i)' = Honest(e, i)
         /\ AllHonest' = AllHonest
BY DEF Honest, AllHonest

LEMMA VouchUser ==
  ASSUME Still, TypeOK, GenerateInv, VouchInv, User
  PROVE  VouchInv'
<1>1. /\ phase = "idle" /\ phase' = "idle"
      /\ UNCHANGED <<out, file, shouldRun, stage, last>>
  BY UserStill DEF AfterEdit, process
<1> QED
  BY <1>1, HonestSame DEF VouchInv

(* The steps that write no output and no schema, but the end of the run. *)
LEMMA VouchFrame ==
  ASSUME GenerateInv, VouchInv, GenerateSkip \/ Build \/ Select
                                \/ OtherTaskFails \/ UNCHANGED vars
  PROVE  VouchInv'
<1>1. UNCHANGED <<world, out, file, shouldRun, last>>
  BY DEF GenerateSkip, Build, Select, OtherTaskFails, vars, process
<1>2. CASE GenerateSkip
  BY <1>1, <1>2, HonestSame DEF GenerateSkip, VouchInv, process
<1>3. CASE Build
  BY <1>1, <1>3, HonestSame DEF Build, VouchInv
<1>4. CASE Select
  <2>1. shouldRun = {}
    BY <1>4 DEF Select, GenerateInv, StageInv
  <2> QED
    BY <1>1, <1>4, <2>1, HonestSame DEF Select, VouchInv
<1>5. CASE OtherTaskFails
  BY <1>1, <1>5, HonestSame DEF OtherTaskFails, Fail, VouchInv, BlobRefused,
     process, world
<1>6. CASE UNCHANGED vars
  BY <1>1, <1>6, HonestSame DEF vars, VouchInv, BlobRefused, process, world
<1> QED BY <1>2, <1>3, <1>4, <1>5, <1>6

(* What a subtask does to the outputs of its own id, and of no other. *)
LEMMA SubtaskWrites ==
  ASSUME TypeOK, StageInv, NEW i \in Ids, Subtask(i)
  PROVE  /\ \A j \in Ids : j # i =>
              /\ out'[j] = out[j] /\ stage'[j] = stage[j]
              /\ j \in shouldRun' <=> j \in shouldRun
         /\ out'[i] \in {out[i], {}, {now[i]}}
         /\ out'[i] = out[i] \/ (i \in shouldRun' /\ stage'[i] = "done")
         /\ stage'[i] = "calling" => stage[i] = "waiting"
         /\ i \notin shouldRun' => i \notin shouldRun
         /\ i \in shouldRun' => i \in shouldRun \/ ~BlobRefused(i)
BY DEF Subtask, SkipId, CheckId, CheckIdFails, CallGenerate,
   CallGenerateFails, StageInv, TypeOK, Fail

LEMMA VouchSubtask ==
  ASSUME TypeOK, GenerateInv, VouchInv, NEW i \in Ids, Subtask(i)
  PROVE  VouchInv'
<1>1. /\ UNCHANGED <<world, file, phase, load, last>>
      /\ phase = "run" /\ StageInv
  BY SubtaskFrame DEF GenerateInv
<1>2. /\ \A j \in Ids : j # i =>
           /\ out'[j] = out[j] /\ stage'[j] = stage[j]
           /\ j \in shouldRun' <=> j \in shouldRun
      /\ out'[i] \in {out[i], {}, {now[i]}}
      /\ out'[i] = out[i] \/ (i \in shouldRun' /\ stage'[i] = "done")
      /\ stage'[i] = "calling" => stage[i] = "waiting"
      /\ i \notin shouldRun' => i \notin shouldRun
      /\ i \in shouldRun' => i \in shouldRun \/ ~BlobRefused(i)
  BY <1>1, SubtaskWrites
<1>3. \A j \in Ids : \A o1, o2 \in out'[j] : o1 = o2
  BY <1>2 DEF VouchInv
<1>4. ASSUME last = "ok", NEW r \in file, NEW j \in DOMAIN r,
             j \notin shouldRun' \/ stage'[j] = "calling"
      PROVE  Honest(r[j], j)'
  <2>1. j \in Ids
    BY FileType
  <2>2. out'[j] = out[j]
    BY <1>2, <1>4, <2>1
  <2>3. j \notin shouldRun \/ stage[j] = "calling"
    BY <1>1, <1>2, <1>4, <2>1 DEF StageInv
  <2>4. Honest(r[j], j)
    BY <1>1, <1>4, <2>3 DEF VouchInv
  <2> QED
    BY <2>2, <2>4 DEF Honest
<1>5. \A j \in shouldRun' : ~BlobRefused(j)'
  <2>1. \A j \in shouldRun' : ~BlobRefused(j)
    <3>1. shouldRun' \subseteq shouldRun \cup {i}
      BY DEF Subtask, SkipId, CheckId, CheckIdFails, CallGenerate,
         CallGenerateFails
    <3> QED
      BY <1>1, <1>2, <3>1 DEF VouchInv
  <2> QED
    BY <1>1, <2>1 DEF BlobRefused, world
<1> QED
  BY <1>1, <1>3, <1>4, <1>5 DEF VouchInv

(* A settled schema is honest: an entry has a blob only if there is a        *)
(* handler, or what the handler made it from is in the outputs too.          *)
LEMMA SettledHonest ==
  ASSUME Still, TypeOK, GenerateInv, Settled, shouldRun = {}
  PROVE  AllHonest
<1>1. SUFFICES ASSUME NEW r \in file, NEW i \in DOMAIN r
               PROVE  Honest(r[i], i)
  BY DEF AllHonest
<1>2. trouble \in {"kill", "revert"}
  BY TroublesAssumption DEF TypeOK, Still
<1>3. CASE trouble = "revert"
  BY <1>1, <1>3 DEF GenerateInv, HonestInv
<1>4. CASE trouble = "kill"
  <2>1. i \in Ids /\ r[i] \in Entry /\ now[i] \in Entry
    BY <1>1, FileType DEF TypeOK
  <2>2. r[i].blob \in Nat /\ now[i].blob \in Nat
    BY <2>1, BoundsAssumption DEF Entry, Version
  <2>3. r[i].blob <= now[i].blob
    BY <1>1, <1>4 DEF GenerateInv, PastInv
  <2>4. r[i].blob # NoBlob => now[i].blob # NoBlob
    BY <2>2, <2>3 DEF NoBlob
  <2>5. i \in ids /\ SameInputs(r[i], i) /\ Made(i)
    BY <1>1 DEF Settled, Clean, GenerateInv, StageInv
  <2>6. PICK o \in out[i] : SameInputs(o, i)
    BY <2>5 DEF Made
  <2> QED
    BY <2>4, <2>5, <2>6 DEF Honest, SameInputs
<1> QED BY <1>2, <1>3, <1>4

LEMMA VouchJoin ==
  ASSUME Still, ContractInv, ContractInv', VouchInv, Join
  PROVE  VouchInv'
<1>1. /\ phase = "run" /\ phase' \in {"store", "exit"}
      /\ phase' = "exit" => shouldRun = {}
      /\ UNCHANGED <<world, out, file, shouldRun, taskState>>
  BY DEF Join
<1>2. phase' = "exit" /\ taskState' = "SUCCESS" => AllHonest'
  <2>1. SUFFICES ASSUME phase' = "exit", taskState' = "SUCCESS"
                 PROVE  AllHonest'
    OBVIOUS
  <2>2. Settled'
    BY <2>1 DEF ContractInv, CalmInv
  <2>3. Settled
    BY <1>1, <2>2, SettledSame
  <2>4. AllHonest
    BY <1>1, <2>1, <2>3, SettledHonest DEF ContractInv
  <2> QED
    BY <1>1, <2>4, HonestSame
<1> QED
  BY <1>1, <1>2 DEF VouchInv

(* The schema a run stores is of what it made. *)
LEMMA VouchStore ==
  ASSUME ContractInv, VouchInv, Store \/ StoreFails
  PROVE  VouchInv'
<1>1. phase = "store" /\ phase' = "exit" /\ out' = out
  BY DEF Store, StoreFails
<1>2. taskState' = "SUCCESS" => AllHonest'
  <2>1. SUFFICES ASSUME taskState' = "SUCCESS" PROVE AllHonest'
    OBVIOUS
  <2>2. file' = {FinalSchema} /\ out' = out
    BY <2>1 DEF Store, StoreFails, Fail
  <2>3. ASSUME NEW i \in succeeded PROVE Honest(now[i], i)
    <3>1. Made(i)
      BY <1>1, <2>3 DEF ContractInv, GenerateInv, RunInv
    <3> QED
      BY <3>1 DEF Made, SameInputs, Honest
  <2>4. \A i \in DOMAIN FinalSchema : Honest(FinalSchema[i], i)
    BY <2>3 DEF FinalSchema
  <2> QED
    BY <2>2, <2>4 DEF AllHonest, Honest
<1> QED
  BY <1>1, <1>2 DEF VouchInv

LEMMA VouchEnd ==
  ASSUME ContractInv, VouchInv, RunBuild \/ Interrupt
  PROVE  VouchInv'
<1>1. phase' = "idle"
  BY DEF RunBuild, Interrupt, ProcessGone
<1>2. CASE RunBuild
  <2>1. last' = "ok" => AllHonest'
    BY <1>2, HonestSame DEF RunBuild, VouchInv
  <2>2. \A i \in Ids : \A o1, o2 \in out'[i] : o1 = o2
    BY <1>2 DEF RunBuild, VouchInv
  <2> QED
    BY <1>1, <2>1, <2>2 DEF VouchInv, AllHonest
<1>3. CASE Interrupt
  <2>1. last' = "killed"
    BY <1>3 DEF Interrupt
  <2>2. \A i \in Ids : out'[i] \in {out[i], {}}
    BY <1>3 DEF Interrupt
  <2>3. \A i \in Ids : \A o1, o2 \in out'[i] : o1 = o2
    BY <2>2 DEF VouchInv
  <2> QED
    BY <1>1, <2>1, <2>3 DEF VouchInv
<1> QED BY <1>2, <1>3

LEMMA VouchNext ==
  ASSUME Still, ContractInv, ContractInv', VouchInv, [Next]_vars
  PROVE  VouchInv'
<1>1. TypeOK /\ GenerateInv
  BY DEF ContractInv
<1>2. CASE User
  BY <1>1, <1>2, VouchUser
<1>3. CASE Generate
  BY <1>1, <1>3, VouchFrame, VouchJoin, VouchStore, VouchSubtask DEF Generate
<1>4. CASE Build \/ OtherTaskFails \/ UNCHANGED vars
  BY <1>1, <1>4, VouchFrame
<1>5. CASE RunBuild \/ Interrupt
  BY <1>5, VouchEnd
<1> QED
  BY <1>2, <1>3, <1>4, <1>5 DEF Next

(* A callback that is called for an id whose entry was honest had other      *)
(* inputs before.                                                            *)
LEMMA CallIsDue ==
  ASSUME ContractInv, VouchInv, last = "ok", NEW i \in Ids, CallGenerate(i),
         i \notin Added
  PROVE  ~Made(i)
<1>1. stage[i] = "calling" /\ phase = "run" /\ i \in ids /\ i \in shouldRun
      /\ load = file
  BY DEF CallGenerate, ContractInv, GenerateInv, StageInv
<1>2. PICK r \in file : i \in DOMAIN r
  BY <1>1 DEF Added
<1>3. ~SameInputs(r[i], i)
  BY <1>1, <1>2 DEF ContractInv, GenerateInv, RunInv
<1>4. Honest(r[i], i)
  BY <1>1, <1>2 DEF VouchInv
<1>5. ~BlobRefused(i)
  BY <1>1 DEF VouchInv
<1>6. SUFFICES ASSUME NEW o \in out[i], SameInputs(o, i) PROVE FALSE
  BY DEF Made
<1>7. o.io = r[i].io /\ o.time = r[i].time /\ (r[i].blob # NoBlob => o.blob = r[i].blob)
  BY <1>4 DEF Honest, VouchInv
<1>8. r[i].io = now[i].io /\ r[i].time = now[i].time
  BY <1>6, <1>7 DEF SameInputs
<1>9. now[i].blob # NoBlob => r[i].blob # NoBlob
  BY <1>1, <1>2, <1>5, <1>8 DEF BlobRefused
<1> QED
  BY <1>3, <1>6, <1>7, <1>8, <1>9 DEF SameInputs

LEMMA DueStep ==
  ASSUME ContractInv, VouchInv, [Next]_vars, last = "ok"
  PROVE  \A i \in succeeded' \ succeeded : i \in shouldRun \ Added => ~Made(i)
<1>1. SUFFICES ASSUME NEW i \in succeeded' \ succeeded, i \in shouldRun, i \notin Added
               PROVE  ~Made(i)
  OBVIOUS
<1>2. PICK j \in Ids : Subtask(j)
  BY <1>1 DEF Next, User, EditLists, EditBlob, SaveInput, ListId, AfterEdit, Build,
     Generate, GenerateSkip, Select, Join, Store, StoreFails, RunBuild,
     OtherTaskFails, Interrupt, ProcessGone, vars, process
<1>3. stage[j] = "waiting" => j \notin shouldRun
  BY DEF ContractInv, GenerateInv, StageInv
<1>4. i = j /\ CallGenerate(j)
  BY <1>1, <1>2, <1>3 DEF Subtask, SkipId, CheckId, CheckIdFails, CallGenerate,
     CallGenerateFails
<1> QED
  BY <1>1, <1>4, CallIsDue

(* After a run that succeeded, a callback called again for an id the schema  *)
(* knows has something to make: no id is made again for what was done to     *)
(* another, nor for a value that changed and changed back. (IsChanged        *)
(* against the entry that GenerateTask stored for the id.)                   *)
THEOREM NothingIsRedone == ASSUME Still PROVE Spec => NoRedundantGenerate
<1>1. Still
  OBVIOUS
<1>2. ContractInv /\ ContractInv' /\ VouchInv /\ [Next]_vars => VouchInv'
  BY <1>1, VouchNext
<1>3. ContractInv /\ VouchInv /\ [Next]_vars =>
        [last = "ok" => \A i \in succeeded' \ succeeded :
           i \in shouldRun \ Added => ~Made(i)]_vars
  BY DueStep
<1> QED
  BY <1>2, <1>3, VouchInit, ContractInvHolds, PTL DEF Spec, NoRedundantGenerate
=============================================================================
