------------------------- MODULE TargetBuildInvariant -------------------------
(***************************************************************************)
(* Why TargetBuild never skips work it had to do, as an inductive          *)
(* invariant. It holds in two kinds of histories: Forward, where no value  *)
(* goes back to an earlier one and a run may be killed anywhere; and       *)
(* Orderly, where values go back and every run comes to its end.           *)
(***************************************************************************)
EXTENDS TargetBuild

(* Every value is newer than those before it, and the headers stand still *)
(* during a run.                                                          *)
Forward == Reverts = {} /\ "headers" \notin MidRun

(* What the schema r lets a run skip. *)
PchUpToDate(r) == Agree(r.cfg, cfg, PchCompared) /\ r.pch_compiled
HeldPch(r) == HasPch => PchUpToDate(r)

ObjectUpToDate(r, s) ==
  /\ Agree(r.cfg, cfg, ObjectCompared)
  /\ <<s, ver[s]>> \in r.sources
  /\ HasPch => PchUpToDate(r)

(* What may be skipped is what a build from nothing would make. *)
Sound(r) ==
  /\ HasPch /\ PchUpToDate(r) => pch = CleanPch
  /\ \A s \in srcs : ObjectUpToDate(r, s) => obj[s] = {CleanObject(s)}
  /\ NothingToDo(r) => bin = {CleanBinary}

(* A schema speaks of the past, in what does not revert: nothing the user    *)
(* does next makes it describe the world, if it does not already.            *)
Past(r) ==
  /\ \A f \in Fields \ Reverts : r.cfg[f] <= cfg[f]
  /\ \A p \in r.sources : p[2] <= ver[p[1]]
  /\ "sources" \notin Reverts =>
       /\ \A p \in r.sources : p[1] \in First \cup srcs
       /\ r.target_linked =>
            \A s \in First \cap srcs : \E p \in r.sources : p[1] = s

(* The schema on disk, and the one the run would store. *)
Schemas == file \cup {UpdatedStore}

SchemasInv == \A r \in Schemas : Past(r) /\ Sound(r)

(* How far the run has come, and what it has read and recorded. *)
ReadInv ==
  /\ \A r1, r2 \in file : r1 = r2
  /\ phase \notin {"idle", "exit"} => load = file
  /\ \A f \in Fields : user[f] <= cfg[f]
  /\ phase # "idle" => Agree(user, cfg, FlagFields)
  /\ phase # "idle" /\ (store.pch_compiled \/ phase = "pch_exec") =>
       user["headers"] = cfg["headers"]
  /\ phase = "idle" => store = EmptyStore /\ user = NothingRead

PhaseInv ==
  /\ phase \in {"pch", "pch_exec"} => HasPch /\ ~store.pch_compiled
  /\ phase \in {"pch", "pch_exec", "objects"} => store.sources = {}
  /\ phase \notin {"end", "exit"} => ~store.target_linked
  /\ phase # "compile" => todo = {}

(* The subtasks: one for a source, none for a source already recorded. *)
TodoInv ==
  \A p \in todo :
    /\ p[1] \in srcs /\ p[2] <= ver[p[1]]
    /\ \A q \in todo : q[1] = p[1] => q = p
    /\ \A q \in store.sources : q[1] # p[1]

(* A run that may link has recorded every source, or has it to do. *)
RecordedInv ==
  (taskState = "SUCCESS" /\ phase \in {"compile", "link"})
    \/ phase = "link_exec" =>
       \A s \in srcs : \E p \in store.sources \cup todo : p[1] = s

(* An output is written only if the schema on disk does not vouch for it:    *)
(* killed at any point, the run leaves a schema that still tells the truth.  *)
WriteInv ==
  /\ phase = "pch_exec" \/ (phase = "objects" /\ dirty) =>
       HasPch /\ \A r \in file : ~PchUpToDate(r)
  /\ (phase = "pch" => ~dirty) /\ (phase = "pch_exec" => dirty)
  /\ phase = "objects" /\ HasPch /\ store.pch_compiled /\ ~dirty =>
       \A r \in file :
         Agree(r.cfg, UpdatedStore.cfg, PchCompared) /\ r.pch_compiled
  /\ phase = "compile" =>
       \A p \in todo : \A r \in file : ~ObjectUpToDate(r, p[1])
  /\ (dirty /\ phase \in {"compile", "link"}) \/ phase = "link_exec" =>
       \A r \in file : ~NothingToDo(r)

SkipInv ==
  SchemasInv /\ ReadInv /\ PhaseInv /\ TodoInv /\ RecordedInv /\ WriteInv

-----------------------------------------------------------------------------
(* Where values go back to earlier ones, a schema of the past may describe   *)
(* the world again. Then what it says must be true: nothing is saved during  *)
(* a run and no run is killed, so that every run that writes an output       *)
(* stores its schema. The list of PCH files may not revert: nothing notices  *)
(* that it has become empty.                                                 *)
Orderly == MidRun = {} /\ ~Interrupts /\ "pchs" \notin Reverts

(* The outputs a schema speaks of. *)
RecordedObject(r, p) ==
  [src |-> p[2],
   in  |-> [f \in ObjectInputs |->
              IF f = "pch_object_flags" /\ ~r.pch_compiled THEN Empty ELSE r.cfg[f]],
   pch |-> IF r.pch_compiled THEN PchFrom(r.cfg) ELSE {}]

RecordedBinary(r) ==
  [in   |-> [f \in LinkInputs |-> r.cfg[f]],
   objs |-> [s \in {p[1] : p \in r.sources} |->
               {RecordedObject(r, p) : p \in {q \in r.sources : q[1] = s}}]]

Honest(r) ==
  /\ r.pch_compiled => r.cfg["pchs"] \in Version \ {Empty} /\ pch = PchFrom(r.cfg)
  /\ \A p \in r.sources : obj[p[1]] = {RecordedObject(r, p)}
  /\ r.target_linked => bin = {RecordedBinary(r)}

FileHonest == \A r \in file : Honest(r)

(* What the Objects task compares is read again, and the PCH is recorded. *)
ObjectsRead == Agree(user, cfg, ObjectCompared) /\ HeldPch(UpdatedStore)

(* What the run would store is what it has read, of sources as they are. *)
StoreTrue ==
  /\ store.pch_compiled => HasPch /\ HeldPch(UpdatedStore)
  /\ store.sources # {} \/ store.target_linked => ObjectsRead
  /\ store.sources \cup todo \subseteq Listed
  /\ store.target_linked =>
       Agree(user, cfg, LinkCompared) /\ Listed \subseteq store.sources

(* What a run knows that is about to make an output. *)
MakingInv ==
  /\ phase = "pch_exec" => dirty /\ Agree(user, cfg, PchCompared)
  /\ phase = "objects" /\ taskState = "SUCCESS" => HeldPch(UpdatedStore)
  /\ phase = "compile" => ObjectsRead /\ (dirty \/ todo = {})
  /\ phase = "link" /\ taskState = "SUCCESS" => ObjectsRead
  /\ phase = "link_exec" =>
       dirty /\ ObjectsRead /\ Agree(user, cfg, LinkCompared)

(* Between runs and until a run writes, the schema on disk says what each    *)
(* output there is was made of; a run that writes knows what it reads and    *)
(* records, and stores it at the end (dirty_ and Target::EndTask). So a      *)
(* script edited back to what it was finds outputs as they were.             *)
HonestInv ==
  /\ ~dirty \/ phase = "exit" => FileHonest
  /\ phase = "idle" => ~dirty
  /\ StoreTrue
  /\ MakingInv

Dependable == Forward \/ Orderly

(* All that one step needs to know of the steps before it. *)
SafeInv == TypeOK /\ SkipInv /\ (Orderly => HonestInv)
=============================================================================
