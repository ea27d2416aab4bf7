--------------------------- MODULE CustomGenerator ---------------------------
(***************************************************************************)
(* One custom generator over many runs of the build script: its Generate   *)
(* task selects ids, runs a subtask for each of them in parallel, and      *)
(* stores what became of them for the next run.                            *)
(*                                                                         *)
(* An id is described by an entry: io stands for its lists of inputs and   *)
(* outputs, time for the timestamps of the inputs, blob for what its blob  *)
(* handler serializes. Equal numbers are equal values.                     *)
(***************************************************************************)
EXTENDS Integers

CONSTANTS
  Ids,        \* the ids a script can list
  Edited,     \* what the user changes: pairs of "listed", "io", "blob" or
              \* "time" and an id
  Troubles,   \* the kinds of trouble, of which a history has one:
              \* "kill": runs are killed or cannot store, and values only
              \* move forward; "revert": values go back; "save": inputs are
              \* saved while a run is going on
  MaxVersion, \* bound on io and blob
  MaxSaved    \* bound on the timestamps of the inputs

ASSUME EditedAssumption == Edited \subseteq {"listed", "io", "blob", "time"} \X Ids
ASSUME TroublesAssumption == Troubles \subseteq {"kill", "revert", "save"}
ASSUME BoundsAssumption == MaxVersion \in Nat \ {0} /\ MaxSaved \in Nat

VARIABLES
  trouble,   \* the trouble of this history
  ids,       \* the ids the script lists
  now,       \* the entry of each id, as the script and the files now are
  out,       \* the outputs of each id: {} or the entry they were made from
  file,      \* the serialized schema: {} when missing or unreadable
  phase,     \* where the run is; "idle" between runs
  load,      \* load_: what LoadFromFile found
  stage,     \* where the subtask of each id is
  shouldRun, \* states: the ids with should_run
  succeeded, \* states: the ids with run_success
  dirty,     \* dirty_
  taskState, \* env::get_task_state()
  last,      \* how the previous run ended
  calm       \* history: 0 after an edit; 1 if nothing was edited since the
             \* run began; 2 if nor since an earlier run that succeeded began

world   == <<trouble, ids, now>>
process == <<load, stage, shouldRun, succeeded, dirty>>
vars == <<world, out, file, phase, process, taskState, last, calm>>

Version == 0..MaxVersion
Timestamp == 0..MaxSaved
Entry == [io : Version, blob : Version, time : Timestamp]

(* The userblob of an id without a blob handler is empty. *)
NoBlob == 0

Phases == {"idle", "generate", "run", "store", "exit"}
Stages == {"none", "waiting", "calling", "done"}

-----------------------------------------------------------------------------
(* What a callback makes *)

(* The parts of an entry that decide what its outputs should be. What is    *)
(* not given to a blob handler is not followed.                             *)
SameInputs(e, i) ==
  /\ e.io = now[i].io
  /\ e.time = now[i].time
  /\ now[i].blob # NoBlob => e.blob = now[i].blob

Made(i) == \E e \in out[i] : SameInputs(e, i)

Clean == \A i \in ids : Made(i)

-----------------------------------------------------------------------------
(* The user *)

Init ==
  /\ trouble \in Troubles
  /\ ids = Ids
  /\ now \in [Ids -> [io : {0}, blob : 0..1, time : {0}]]
  /\ \A i \in Ids : <<"blob", i>> \in Edited \/ now[i].blob = NoBlob
  /\ out = [i \in Ids |-> {}]
  /\ file = {}
  /\ phase = "idle"
  /\ load = {} /\ shouldRun = {} /\ succeeded = {} /\ dirty = FALSE
  /\ stage = [i \in Ids |-> "none"]
  /\ taskState = "SUCCESS" /\ last = "none" /\ calm = 0

NewValues(v) ==
  IF trouble = "revert" THEN Version \ {v}
  ELSE IF v < MaxVersion THEN {v + 1} ELSE {}

AfterEdit ==
  /\ calm' = 0
  /\ UNCHANGED <<trouble, out, file, phase, process, taskState, last>>

EditLists(i) ==
  /\ <<"io", i>> \in Edited
  /\ phase = "idle"
  /\ \E v \in NewValues(now[i].io) : now' = [now EXCEPT ![i].io = v]
  /\ UNCHANGED ids
  /\ AfterEdit

EditBlob(i) ==
  /\ <<"blob", i>> \in Edited
  /\ phase = "idle"
  /\ \E v \in NewValues(now[i].blob) : now' = [now EXCEPT ![i].blob = v]
  /\ UNCHANGED ids
  /\ AfterEdit

SaveInput(i) ==
  /\ <<"time", i>> \in Edited
  /\ phase = "idle" \/ trouble = "save"
  /\ now[i].time < MaxSaved
  /\ now' = [now EXCEPT ![i].time = @ + 1]
  /\ UNCHANGED ids
  /\ AfterEdit

ListId(i) ==
  /\ <<"listed", i>> \in Edited
  /\ phase = "idle"
  /\ ids' = IF i \in ids THEN ids \ {i} ELSE ids \cup {i}
  /\ UNCHANGED now
  /\ AfterEdit

User == \E i \in Ids : EditLists(i) \/ EditBlob(i) \/ SaveInput(i) \/ ListId(i)

-----------------------------------------------------------------------------
(* CustomGenerator::Build and the start of the Generate task *)

Build ==
  /\ phase = "idle"
  /\ load' = file
  /\ phase' = "generate"
  /\ calm' = IF calm > 0 /\ last = "ok" THEN 2 ELSE 1
  /\ UNCHANGED <<world, out, file, stage, shouldRun, succeeded, dirty,
                 taskState, last>>

(* Comparator::CompareAndAddIds; everything is added when nothing is loaded. *)
Removed == {i \in Ids : \E r \in load : i \in DOMAIN r /\ i \notin ids}
Added == {i \in ids : \A r \in load : i \notin DOMAIN r}

(* The early return without leaving the task. *)
GenerateSkipStays ==
  /\ phase = "generate"
  /\ taskState = "FAILURE"
  /\ UNCHANGED vars

GenerateSkip ==
  /\ phase = "generate"
  /\ taskState = "FAILURE"
  /\ phase' = "exit"
  /\ UNCHANGED <<world, out, file, process, taskState, last, calm>>

Select ==
  /\ phase = "generate"
  /\ taskState = "SUCCESS"
  /\ dirty' = (load = {} \/ Removed # {} \/ Added # {})
  /\ stage' = [i \in Ids |-> IF i \in ids THEN "waiting" ELSE "none"]
  /\ phase' = "run"
  /\ UNCHANGED <<world, out, file, load, shouldRun, succeeded, taskState, last,
                 calm>>

-----------------------------------------------------------------------------
(* The subtask of an id: TaskFunctor *)

Fail == taskState' = "FAILURE"

SkipId(i) ==
  /\ stage[i] = "waiting"
  /\ taskState = "FAILURE"
  /\ stage' = [stage EXCEPT ![i] = "done"]
  /\ UNCHANGED <<world, out, file, phase, load, shouldRun, succeeded, dirty,
                 taskState, last, calm>>

(* Comparator::IsChanged: the blob is looked at last, and only when there is *)
(* a handler now.                                                            *)
Changed(e, i) == ~SameInputs(e, i)

(* CheckChanged asserts that the blob of the last run can be read: an empty  *)
(* one cannot.                                                               *)
BlobRefused(i) ==
  \E r \in load :
    /\ i \in DOMAIN r
    /\ r[i].io = now[i].io /\ r[i].time = now[i].time
    /\ now[i].blob # NoBlob /\ r[i].blob = NoBlob

CheckId(i) ==
  /\ stage[i] = "waiting"
  /\ taskState = "SUCCESS"
  /\ ~BlobRefused(i)
  /\ IF i \in Added \/ \E r \in load : Changed(r[i], i)
       THEN /\ shouldRun' = shouldRun \cup {i}
            /\ stage' = [stage EXCEPT ![i] = "calling"]
            /\ UNCHANGED succeeded
       ELSE /\ succeeded' = succeeded \cup {i}
            /\ stage' = [stage EXCEPT ![i] = "done"]
            /\ UNCHANGED shouldRun
  /\ UNCHANGED <<world, out, file, phase, load, dirty, taskState, last, calm>>

(* An input does not exist, or the blob is refused. *)
CheckIdFails(i) ==
  /\ stage[i] = "waiting"
  /\ taskState = "SUCCESS"
  /\ Fail
  /\ stage' = [stage EXCEPT ![i] = "done"]
  /\ UNCHANGED <<world, out, file, phase, load, shouldRun, succeeded, dirty,
                 last, calm>>

CallGenerate(i) ==
  /\ stage[i] = "calling"
  /\ out' = [out EXCEPT ![i] = {now[i]}]
  /\ succeeded' = succeeded \cup {i}
  /\ stage' = [stage EXCEPT ![i] = "done"]
  /\ UNCHANGED <<world, file, phase, load, shouldRun, dirty, taskState, last,
                 calm>>

(* run_success set whatever the callback returns. *)
CallGenerateFailsKept(i) ==
  /\ stage[i] = "calling"
  /\ \E left \in {out[i], {}} : out' = [out EXCEPT ![i] = left]
  /\ Fail
  /\ succeeded' = succeeded \cup {i}
  /\ stage' = [stage EXCEPT ![i] = "done"]
  /\ UNCHANGED <<world, file, phase, load, shouldRun, dirty, last, calm>>

(* A callback that fails but nobody hears of it. *)
CallGenerateFailsUnheard(i) ==
  /\ stage[i] = "calling"
  /\ \E left \in {out[i], {}} : out' = [out EXCEPT ![i] = left]
  /\ stage' = [stage EXCEPT ![i] = "done"]
  /\ UNCHANGED <<world, file, phase, load, shouldRun, succeeded, dirty,
                 taskState, last, calm>>

(* The callback returns false or throws. *)
CallGenerateFails(i) ==
  /\ stage[i] = "calling"
  /\ \E left \in {out[i], {}} : out' = [out EXCEPT ![i] = left]
  /\ Fail
  /\ stage' = [stage EXCEPT ![i] = "done"]
  /\ UNCHANGED <<world, file, phase, load, shouldRun, succeeded, dirty, last,
                 calm>>

Subtask(i) ==
  \/ SkipId(i) \/ CheckId(i) \/ CheckIdFails(i)
  \/ CallGenerate(i) \/ CallGenerateFails(i)

-----------------------------------------------------------------------------
(* The end of the Generate task *)

Join ==
  /\ phase = "run"
  /\ \A i \in ids : stage[i] = "done"
  /\ dirty' = (dirty \/ shouldRun # {})
  /\ phase' = IF dirty \/ shouldRun # {} THEN "store" ELSE "exit"
  /\ UNCHANGED <<world, out, file, load, stage, shouldRun, succeeded,
                 taskState, last, calm>>

(* Only the ids that ran, not those found unchanged. *)
FinalSchemaRunOnly == [i \in succeeded \cap shouldRun |-> now[i]]

(* The entries of the last schema kept where there are some. *)
FinalSchemaFirstKept ==
  [i \in succeeded |-> IF \E r \in load : i \in DOMAIN r
                        THEN (CHOOSE r \in load : TRUE)[i] ELSE now[i]]

(* ConvertToInternal on the ids that succeeded: their inputs are hashed, and *)
(* their blobs serialized, once more.                                        *)
FinalSchema == [i \in succeeded |-> now[i]]

Store ==
  /\ phase = "store"
  /\ file' = {FinalSchema}
  /\ phase' = "exit"
  /\ UNCHANGED <<world, out, process, taskState, last, calm>>

(* An input is gone by now, or the file cannot be written. *)
StoreFails ==
  /\ phase = "store"
  /\ trouble = "kill"
  /\ file' \in {file, {}}
  /\ Fail
  /\ phase' = "exit"
  /\ UNCHANGED <<world, out, process, last, calm>>

Generate ==
  \/ GenerateSkip \/ Select \/ Join \/ Store \/ StoreFails
  \/ \E i \in Ids : Subtask(i)

-----------------------------------------------------------------------------
(* The process around the task *)

ProcessGone ==
  /\ phase' = "idle"
  /\ load' = {} /\ shouldRun' = {} /\ succeeded' = {} /\ dirty' = FALSE
  /\ stage' = [i \in Ids |-> "none"]
  /\ taskState' = "SUCCESS"

(* The task state itself taken for the result. *)
RunBuildRaw ==
  /\ phase = "exit"
  /\ last' = taskState
  /\ ProcessGone
  /\ UNCHANGED <<world, out, file, calm>>

RunBuild ==
  /\ phase = "exit"
  /\ last' = IF taskState = "SUCCESS" THEN "ok" ELSE "failed"
  /\ ProcessGone
  /\ UNCHANGED <<world, out, file, calm>>

OtherTaskFails ==
  /\ phase # "idle"
  /\ taskState = "SUCCESS"
  /\ Fail
  /\ UNCHANGED <<world, out, file, phase, process, last, calm>>

(* The outputs being written are lost, and so may be the schema. *)
Interrupt ==
  /\ trouble = "kill"
  /\ phase # "idle"
  /\ \E lost \in SUBSET {i \in Ids : stage[i] = "calling"} :
       out' = [i \in Ids |-> IF i \in lost THEN {} ELSE out[i]]
  /\ IF phase = "store" THEN file' \in {file, {}} ELSE file' = file
  /\ last' = "killed"
  /\ ProcessGone
  /\ UNCHANGED <<world, calm>>

Next == User \/ Build \/ Generate \/ RunBuild \/ OtherTaskFails \/ Interrupt

Spec == Init /\ [][Next]_vars

(* The executor runs the task and its subtasks, callbacks return, and the    *)
(* run reports. Nobody has to start a run or edit.                           *)
FairSpec == Spec /\ WF_vars(Generate) /\ WF_vars(RunBuild)

-----------------------------------------------------------------------------
(* Properties *)

Schema == UNION {[S -> Entry] : S \in SUBSET Ids}

TypeOK ==
  /\ trouble \in Troubles
  /\ ids \subseteq Ids
  /\ now \in [Ids -> Entry]
  /\ out \in [Ids -> SUBSET Entry]
  /\ file \subseteq Schema /\ load \subseteq Schema
  /\ phase \in Phases
  /\ stage \in [Ids -> Stages]
  /\ shouldRun \subseteq Ids /\ succeeded \subseteq Ids
  /\ dirty \in BOOLEAN
  /\ taskState \in {"SUCCESS", "FAILURE"}
  /\ last \in {"none", "ok", "failed", "killed"}
  /\ calm \in 0..2

(* An id whose entry in the schema is not changed, which the next run will   *)
(* therefore skip, has the outputs its callback would make now: whatever     *)
(* other ids failed, whichever subtasks a failure skipped and whatever was   *)
(* killed (Comparator::IsChanged against what GenerateTask stored).          *)
NoMissedGenerate ==
  \A r \in file : \A i \in ids \cap DOMAIN r : SameInputs(r[i], i) => Made(i)

(* A generator that is run again after a success, with no edit between, does *)
(* nothing: no callback is called and no schema stored.                      *)
NoSpuriousGenerate == calm = 2 /\ phase # "idle" => ~dirty /\ shouldRun = {}

(* The blob of the previous run that CheckChanged is given can be read: the  *)
(* assertion "Stored blob is corrupted or User verification is incorrect" of *)
(* CustomBlobHandler::CheckChanged does not fire on a schema the generator   *)
(* itself stored.                                                            *)
StoredBlobsVerify ==
  \A i \in Ids : stage[i] = "waiting" /\ taskState = "SUCCESS" => ~BlobRefused(i)

(* Every run comes to its end, whichever callbacks fail. *)
RunEnds == phase # "idle" ~> phase = "idle"

(* A callback called for an id that the loaded schema knows had something to *)
(* make, if the previous run succeeded: what did not change is not made      *)
(* again because another id was edited, added or removed.                    *)
NoRedundantGenerate ==
  [][last = "ok" => \A i \in succeeded' \ succeeded :
       i \in shouldRun \ Added => ~Made(i)]_vars

(* The generator keeps the contract of an incremental build: see             *)
(* BuildContract.                                                            *)
Contract == INSTANCE BuildContract
              WITH running <- phase # "idle", clean <- Clean

ImplementsContract == Contract!Spec
=============================================================================
