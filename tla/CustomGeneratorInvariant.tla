----------------------- MODULE CustomGeneratorInvariant -----------------------
(***************************************************************************)
(* Why a custom generator never skips an id it had to run, as an inductive *)
(* invariant. It holds where inputs stand still during a run: "save" is    *)
(* not in Troubles.                                                        *)
(***************************************************************************)
EXTENDS CustomGenerator

Still == "save" \notin Troubles

(* The outputs of i were made from what e records: from the same blob, if e  *)
(* has one.                                                                  *)
Honest(e, i) ==
  \E o \in out[i] :
    /\ o.io = e.io
    /\ o.time = e.time
    /\ e.blob # NoBlob => o.blob = e.blob

(* How far the run has come. *)
StageInv ==
  /\ \A r1, r2 \in file : r1 = r2
  /\ phase \in {"generate", "run", "store"} => load = file
  /\ phase \in {"idle", "generate"} => shouldRun = {} /\ succeeded = {}
  /\ \A i \in Ids : stage[i] \in {"waiting", "calling"} =>
       phase = "run" /\ i \in ids /\ i \notin succeeded
  /\ \A i \in Ids : stage[i] = "waiting" => i \notin shouldRun
  /\ \A i \in Ids : stage[i] = "calling" => i \in shouldRun

(* An entry of the schema that describes the script as it is describes the *)
(* outputs as well.                                                        *)
FileInv ==
  \A r \in file : \A i \in DOMAIN r : SameInputs(r[i], i) => Made(i)

(* Where runs are killed, values move forward: a schema speaks of the past. *)
PastInv ==
  trouble = "kill" =>
    \A r \in file : \A i \in DOMAIN r :
      r[i].io <= now[i].io /\ r[i].blob <= now[i].blob /\ r[i].time <= now[i].time

(* Where values go back, runs end: a schema speaks of the outputs, but those *)
(* of the ids being run.                                                     *)
HonestInv ==
  trouble = "revert" =>
    \A r \in file : \A i \in DOMAIN r :
      phase = "exit" \/ i \notin shouldRun => Honest(r[i], i)

(* What the run has made, and what it makes is what no schema vouches for. *)
RunInv ==
  /\ phase \in {"run", "store"} => \A i \in succeeded : Made(i)
  /\ phase \in {"run", "store"} =>
       \A r \in file : \A i \in DOMAIN r \cap shouldRun : ~SameInputs(r[i], i)

GenerateInv == StageInv /\ FileInv /\ PastInv /\ HonestInv /\ RunInv
=============================================================================
