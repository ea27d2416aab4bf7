---------------------------- MODULE BuildContract ----------------------------
(***************************************************************************)
(* What an incremental build promises its user, whatever it skips: a run   *)
(* that reports success leaves clean outputs unless something was edited   *)
(* meanwhile, and a run with nothing new to do leaves the outputs alone.   *)
(* "clean" says that the outputs are those of a build from nothing.        *)
(***************************************************************************)
EXTENDS Naturals

VARIABLES
  running,   \* a run of the build script is going on
  last,      \* how the previous run ended
  calm,      \* edits: as in TargetBuild
  clean

vars == <<running, last, calm, clean>>

Init ==
  /\ running = FALSE
  /\ last = "none"
  /\ calm = 0
  /\ clean \in BOOLEAN

(* Whatever is edited, the outputs may stop (or start) being clean. *)
Edit ==
  /\ calm' = 0
  /\ clean' \in BOOLEAN
  /\ UNCHANGED <<running, last>>

Begin ==
  /\ ~running
  /\ running' = TRUE
  /\ calm' = IF calm > 0 /\ last = "ok" THEN 2 ELSE 1
  /\ UNCHANGED <<last, clean>>

Work ==
  /\ running
  /\ calm < 2
  /\ clean' \in BOOLEAN
  /\ UNCHANGED <<running, last, calm>>

Finish(result) ==
  /\ running
  /\ result = "ok" /\ calm > 0 => clean
  /\ running' = FALSE
  /\ last' = result
  /\ UNCHANGED <<calm, clean>>

(* A run that is killed may lose the output it was writing, if it was *)
(* writing any.                                                       *)
Killed ==
  /\ running
  /\ running' = FALSE
  /\ last' = "killed"
  /\ IF calm < 2 THEN clean' \in BOOLEAN ELSE clean' = clean
  /\ UNCHANGED calm

Next ==
  \/ Edit \/ Begin \/ Work \/ Killed
  \/ \E result \in {"ok", "failed"} : Finish(result)

Spec == Init /\ [][Next]_vars
=============================================================================
