--------------------------- MODULE GeneratorsProofs ---------------------------
(***************************************************************************)
(* What generators make is made of what is there now, and a script that is *)
(* run again makes nothing: theorems for any generators, dependencies,     *)
(* scripts, templates and bounds.  TaskInv is the inductive invariant of   *)
(* the script and its tasks; SettledInv and LastInv say when nothing is    *)
(* left to do; Contents says of the files what they hold, as long as every *)
(* file has one maker.                                                     *)
(***************************************************************************)
EXTENDS Generators, WellFoundedInduction, FiniteSetTheorems, SequenceTheorems, TLAPS

-----------------------------------------------------------------------------
(* The invariants. *)

(* A sequence, of whatever it holds. *)
IsSeq(s) == s \in Seq(ToSet(s))

GivenFields == {"inputs", "outputs", "commands", "templates"}

(* Calls left to make: files that nothing in given makes, each by one call. *)
Apart(s) ==
  \A i, j \in DOMAIN s :
    s[i] \in Making /\ s[j] \in Making /\ s[i].arg.writes = s[j].arg.writes => i = j

(* Steps that read files there are, and write what some script has g *)
(* make.                                                             *)
Known(g, steps) ==
  /\ IsSeq(steps)
  /\ \A i \in DOMAIN steps :
       steps[i].reads \in Paths /\ steps[i].writes \in Paths \cap Makes(g)

(* No two steps write one file. *)
Distinct(steps) ==
  \A i, j \in DOMAIN steps : steps[i].writes = steps[j].writes => i = j

(* No call that is left makes what the steps write. *)
LeftOut(steps, left) ==
  \A i \in DOMAIN steps : \A j \in DOMAIN left :
    left[j] \in Making => left[j].arg.writes # steps[i].writes

(* What the script has given a generator so far. *)
GeneratorGiven(g) ==
  /\ DOMAIN Defaults \subseteq DOMAIN command[g]
  /\ DOMAIN given[g] = GivenFields
  /\ given[g].inputs \subseteq Paths
  /\ Known(g, given[g].commands)
  /\ Known(g, given[g].templates)
  /\ g \notin built => DOMAIN ids[g] = {}
  /\ \A id \in DOMAIN ids[g] : ids[g][id].inputs \subseteq Paths
  /\ Kind[g] = "file" => DOMAIN ids[g] \subseteq {"Generate"}
  /\ Kind[g] = "template" =>
       \A id \in DOMAIN ids[g] :
         /\ ids[g][id].inputs = {id}
         /\ ids[g][id].outputs # {}
         /\ \A w \in ids[g][id].outputs :
              \E t \in Templates(g) : t.reads = id /\ t.writes = w

(* What is so of the script wherever it is. *)
ScriptInv ==
  /\ calls \in Seq(Called)
  /\ DOMAIN command = Generators /\ DOMAIN given = Generators /\ DOMAIN ids = Generators
  /\ built \subseteq Generators
  /\ \A g \in Generators : GeneratorGiven(g)

(* A file is made once, counting the calls that are left. *)
MakesInv ==
  /\ Apart(calls)
  /\ \A g \in Generators :
       /\ Distinct(given[g].commands) /\ LeftOut(given[g].commands, calls)
       /\ Distinct(given[g].templates) /\ LeftOut(given[g].templates, calls)

(* Where a generator is: what it has begun, after those it waits for. *)
StageOf(g) ==
  /\ stage[g] \in {"none", "waiting", "running", "done"} /\ dirty[g] \in BOOLEAN
  /\ stage[g] # "running" => waiting[g] = {} /\ DOMAIN todo[g] = {}
  /\ stage[g] \in {"none", "waiting"} =>
       should_run[g] = {} /\ run_success[g] = {} /\ dirty[g] = FALSE
  /\ stage[g] = "running" \/ run_success[g] # {} \/ should_run[g] # {} =>
       \A d \in Deps : d[2] = g => stage[d[1]] = "done"
  /\ waiting[g] \cup should_run[g] \cup run_success[g] \subseteq DOMAIN ids[g]
  /\ DOMAIN todo[g] \subseteq should_run[g]
  /\ waiting[g] \cap (should_run[g] \cup run_success[g]) = {}
  /\ DOMAIN todo[g] \cap run_success[g] = {}
  /\ taskState = "SUCCESS" /\ stage[g] \in {"running", "done"} =>
       waiting[g] \cup DOMAIN todo[g] \cup run_success[g] = DOMAIN ids[g]
  /\ stored[g] = {} \/ \E s \in stored[g] : stored[g] = {s}

(* Where the process and all its generators are. *)
StageInv ==
  /\ DOMAIN stage = Generators /\ DOMAIN waiting = Generators
  /\ DOMAIN todo = Generators
  /\ DOMAIN should_run = Generators /\ DOMAIN run_success = Generators
  /\ DOMAIN dirty = Generators /\ DOMAIN stored = Generators
  /\ phase \in {"script", "build", "ok", "failed"}
  /\ taskState \in {"SUCCESS", "FAILURE"}
  /\ phase = "script" => \A g \in Generators : stage[g] = "none"
  /\ phase \in {"script", "failed"} \/ \A g \in Generators : stage[g] # "none"
  /\ \A g \in Generators : StageOf(g)
  /\ phase \in {"ok", "failed"} => \A g \in Generators : stage[g] \in {"none", "done"}
  /\ phase = "ok" => taskState = "SUCCESS"

(* Times are numbers. *)
FilesInv ==
  /\ DOMAIN files = Paths
  /\ \A p \in Paths : files[p].time \in Nat

(* Ordered, of a script given as a value. *)
OrderedIn(gv, is) ==
  LET Of1(g, id) == Callback(g, is[g][id].inputs, is[g][id].outputs, gv[g].commands)
      W(g) == {step.writes : step \in UNION {ToSet(Of1(g, id)) : id \in DOMAIN is[g]}}
  IN \A g \in Generators : \A h \in Generators \ {g} :
      (\E id \in DOMAIN is[g] : is[g][id].inputs \cap W(h) # {}) => <<h, g>> \in Deps

(* Entry, of a script given as a value. *)
EntryIn(gv, is, g, id) ==
  [inputs |-> [path \in is[g][id].inputs |-> files[path].time],
   outputs |-> is[g][id].outputs, blob |-> gv[g].commands]

(* The schema is that of the script and of the files as they are. *)
SettledIn(gv, is, g) ==
  \E s \in stored[g] : DOMAIN s = DOMAIN is[g]
    /\ \A id \in DOMAIN is[g] : s[id] = EntryIn(gv, is, g, id)

(* The steps of a callback that are left: none, the last, the last two... *)
RestOf(steps, rest) ==
  /\ IsSeq(rest)
  /\ \E k \in 0..Len(steps) :
       /\ Len(rest) = Len(steps) - k
       /\ \A m \in 1..Len(rest) : rest[m] = steps[k + m]

(* A callback under way has the last of its steps left. *)
TodoInv ==
  \A g \in Generators : \A id \in DOMAIN todo[g] :
    RestOf(CallbackOf(g, id), todo[g][id])

(* Only what Build was called for has a task. *)
OnlyBuilt ==
  \A g \in Generators : stage[g] \in {"waiting", "running"} => g \in built

(* Nothing is left to do for a generator that has ended, nor for what *)
(* has been checked of one that found nothing to do.                  *)
SettledInv ==
  taskState = "SUCCESS" /\ Ordered => \A g \in Generators :
    /\ stage[g] = "done" /\ g \in built => SettledIn(given, ids, g)
    /\ stage[g] = "running" /\ should_run[g] = {} /\ ~dirty[g] =>
        \E s \in stored[g] :
           DOMAIN s = DOMAIN ids[g] /\ \A id \in run_success[g] : s[id] = Entry(g, id)

(* A script that succeeded has nothing left to do until a file is saved. *)
LastInv ==
  \A x \in last :
    OrderedIn(x[2], x[3]) /\ (phase = "build" => x = <<command, given, ids, built>>) =>
      /\ \A g \in x[4] : SettledIn(x[2], x[3], g)
      /\ phase = "build" => \A g \in Generators : should_run[g] = {} /\ ~dirty[g]

(* The file a step writes is made from its input as it is now. *)
Good(g, step) ==
  LET content == files[step.writes].content IN
  /\ content.from = <<files[step.reads].content>>
  /\ Kind[g] = "file" => content.with = step.with

(* What the callbacks of the ids in S write. *)
WritesOf(g, S) ==
  {step.writes : step \in UNION {ToSet(CallbackOf(g, id)) : id \in S}}

(* The steps of the callback an entry was stored for. *)
EntrySteps(g, e) == Callback(g, DOMAIN e.inputs, e.outputs, e.blob)

(* A callback has begun to replace what the entry of id says of path. *)
MadeNow(g, id, path) ==
  stage[g] = "running" /\ (id \in should_run[g] \/ path \in WritesOf(g, should_run[g]))

(* What an entry that was stored, by whatever script, still says: a step *)
(* that is followed and whose input has the time in the entry has its    *)
(* output, unless a callback is replacing it.                            *)
EntryGood(g, id, e) ==
  /\ \A p \in DOMAIN e.inputs :
       p \in Paths /\ e.inputs[p] \in Nat /\ e.inputs[p] <= files[p].time
  /\ \A i \in DOMAIN EntrySteps(g, e) :
       /\ EntrySteps(g, e)[i].writes \in Makes(g)
       /\ /\ Followed(g, DOMAIN e.inputs, EntrySteps(g, e), i)
          /\ EntrySteps(g, e)[i].reads \in DOMAIN e.inputs =>
               e.inputs[EntrySteps(g, e)[i].reads]
                 = files[EntrySteps(g, e)[i].reads].time
          /\ ~MadeNow(g, id, EntrySteps(g, e)[i].writes)
          => Good(g, EntrySteps(g, e)[i])

(* All the entries stored. *)
EntryInv ==
  \A g \in Generators : \A s \in stored[g] :
    /\ Kind[g] = "file" => DOMAIN s \subseteq {"Generate"}
    /\ \A id \in DOMAIN s : EntryGood(g, id, s[id])

(* One step of the callback of id, if a rebuild follows its input. *)
StepGood(g, id, i) ==
  Followed(g, ids[g][id].inputs, CallbackOf(g, id), i) => Good(g, CallbackOf(g, id)[i])

(* What has succeeded has made its outputs. *)
DoneInv ==
  \A g \in Generators : \A id \in run_success[g] :
    \A i \in DOMAIN CallbackOf(g, id) : StepGood(g, id, i)

(* A callback under way has made those of the steps it is past. *)
UnderInv ==
  \A g \in Generators : \A id \in DOMAIN todo[g] :
    \A i \in DOMAIN CallbackOf(g, id) :
      i <= Len(CallbackOf(g, id)) - Len(todo[g][id]) => StepGood(g, id, i)

-----------------------------------------------------------------------------
(* AddPatterns loses no value. *)

(* A set of numbers has a least one. *)
LEMMA LeastNumber ==
  ASSUME NEW S \in SUBSET Nat, S # {}
  PROVE  \E n \in S : \A m \in S : n <= m
<1>1. PICK n \in S : \A m \in S : <<m, n>> \notin OpToRel(<, Nat)
  BY WFMin, NatLessThanWellFounded
<1>2. \A m \in S : ~(m < n)
  BY <1>1 DEF OpToRel
<1> QED BY <1>2

(* The last of the positions that a fold has left to take. *)
LEMMA MaxIs ==
  ASSUME NEW n \in Nat, NEW s \in SUBSET (1..n), n \in s
  PROVE  Max(s) = n
<1>1. n \in s /\ \A y \in s : n >= y
  OBVIOUS
<1>2. \A x \in s : (\A y \in s : x >= y) => x = n
  OBVIOUS
<1> QED BY <1>1, <1>2 DEF Max

PatternStep(made, p) == UNION {WithPattern(a, p) : a \in made}

(* All the steps of AddPatterns in one order, for every set of positions. *)
Patterned(args, order, D, it) ==
  it = [s \in SUBSET D |->
         IF s = {} THEN {args} ELSE PatternStep(it[s \ {Max(s)}], order[Max(s)])]

(* The fold over patterns is a function that exists: by least *)
(* counterexample.                                            *)
LEMMA PatternedExists ==
  ASSUME NEW args, NEW order
  PROVE  \A n \in Nat : \E it : Patterned(args, order, 1..n, it)
<1> DEFINE Bad == {n \in Nat : ~\E it : Patterned(args, order, 1..n, it)}
<1> SUFFICES ASSUME Bad # {} PROVE FALSE
  OBVIOUS
<1>1. PICK n \in Bad : \A m \in Bad : n <= m
  BY LeastNumber
<1>2. CASE n = 0
  <2> DEFINE it0 == [s \in SUBSET (1..0) |-> {args}]
  <2>1. SUBSET (1..0) = {{}}
    OBVIOUS
  <2>2. Patterned(args, order, 1..0, it0)
    BY <2>1 DEF Patterned
  <2> QED BY <1>2, <2>2
<1>3. CASE n # 0
  <2>1. n - 1 \in Nat /\ n - 1 \notin Bad
    BY <1>1, <1>3
  <2>2. PICK it : Patterned(args, order, 1..(n-1), it)
    BY <2>1
  <2> DEFINE
        jt == [s \in SUBSET (1..n) |->
                 IF n \in s THEN PatternStep(it[s \ {n}], order[n]) ELSE it[s]]
        kt == [s \in SUBSET (1..n) |->
                 IF s = {} THEN {args}
                 ELSE PatternStep(jt[s \ {Max(s)}], order[Max(s)])]
  <2>3. ASSUME NEW s \in SUBSET (1..n), n \in s PROVE jt[s] = kt[s]
    <3>1. Max(s) = n
      BY <2>1, <2>3, MaxIs
    <3>2. s \ {n} \in SUBSET (1..n) /\ n \notin s \ {n} /\ s # {}
      BY <2>3
    <3>3. jt[s] = PatternStep(it[s \ {n}], order[n])
      BY <2>3
    <3>4. jt[s \ {n}] = it[s \ {n}]
      BY <3>2
    <3>5. kt[s] = PatternStep(jt[s \ {Max(s)}], order[Max(s)])
      BY <3>2
    <3> HIDE DEF jt, kt
    <3> QED BY <3>1, <3>3, <3>4, <3>5
  <2>4. ASSUME NEW s \in SUBSET (1..n), n \notin s PROVE jt[s] = kt[s]
    <3>1. s \in SUBSET (1..(n-1))
      BY <2>4
    <3>2. it[s] = IF s = {} THEN {args}
                  ELSE PatternStep(it[s \ {Max(s)}], order[Max(s)])
      BY <2>2, <3>1 DEF Patterned
    <3>3. s \ {Max(s)} \in SUBSET (1..n) /\ n \notin s \ {Max(s)}
      BY <2>4
    <3>4. jt[s] = it[s] /\ jt[s \ {Max(s)}] = it[s \ {Max(s)}]
      BY <2>4, <3>3
    <3>5. kt[s] = IF s = {} THEN {args}
                  ELSE PatternStep(jt[s \ {Max(s)}], order[Max(s)])
      OBVIOUS
    <3> HIDE DEF jt, kt
    <3> QED BY <3>2, <3>4, <3>5
  <2>5. \A s \in SUBSET (1..n) : jt[s] = kt[s]
    BY <2>3, <2>4
  <2>6. jt = kt
    <3>1. jt = [s \in SUBSET (1..n) |-> jt[s]]
      OBVIOUS
    <3>2. kt = [s \in SUBSET (1..n) |-> kt[s]]
      OBVIOUS
    <3> HIDE DEF jt, kt
    <3> QED BY <2>5, <3>1, <3>2
  <2>7. Patterned(args, order, 1..n, jt)
    BY <2>6 DEF Patterned
  <2> QED BY <2>7
<1> QED BY <1>2, <1>3

(* A pattern more loses no value. *)
LEMMA StepKeeps ==
  ASSUME NEW args, NEW made, NEW p, \A a \in made : DOMAIN args \subseteq DOMAIN a
  PROVE  \A a \in PatternStep(made, p) : DOMAIN args \subseteq DOMAIN a
<1> SUFFICES ASSUME NEW a \in made, NEW b \in WithPattern(a, p)
             PROVE  DOMAIN args \subseteq DOMAIN b
  BY DEF PatternStep
<1>1. \E value : b = AddDefaultArguments(a, value)
  BY DEF WithPattern
<1>2. DOMAIN a \subseteq DOMAIN b
  BY <1>1 DEF AddDefaultArguments
<1> QED BY <1>2

(* AddPatterns takes nothing away. *)
LEMMA PatternsKeep ==
  ASSUME NEW args, NEW ps, IsFiniteSet(ps), NEW made \in WithPatterns(args, ps)
  PROVE  DOMAIN args \subseteq DOMAIN made
<1> DEFINE n == Cardinality(ps)
<1>0. n \in Nat
  BY FS_CardinalityType
<1>1. PICK order \in SetToSeqs(ps) :
        made \in FoldLeft(LAMBDA m, p : UNION {WithPattern(a, p) : a \in m},
                          {args}, order)
  BY DEF WithPatterns
<1>2. DOMAIN order = 1..n
  BY <1>1 DEF SetToSeqs
<1> DEFINE C(it) == it = [s \in SUBSET (1..n) |->
                           IF s = {} THEN {args}
                           ELSE UNION {WithPattern(a, order[Max(s)]) :
                                         a \in it[s \ {Max(s)}]}]
<1> HIDE DEF n
<1>3. \A it : C(it) <=> Patterned(args, order, 1..n, it)
  BY DEF Patterned, PatternStep
<1>4. C(CHOOSE it : C(it))
  BY <1>0, <1>3, PatternedExists
<1>5. made \in (CHOOSE it : C(it))[1..n]
  BY <1>1, <1>2 DEF FoldLeft, MapThenFoldSet
<1> HIDE DEF C
<1>6. PICK it : Patterned(args, order, 1..n, it) /\ made \in it[1..n]
  BY <1>3, <1>4, <1>5
<1> DEFINE Keeps(s) == \A a \in it[s] : DOMAIN args \subseteq DOMAIN a
           All(m) == \A s \in SUBSET (1..m) : Keeps(s)
           Bad == {m \in Nat : m <= n /\ ~All(m)}
<1>7. ASSUME NEW m \in Nat, m <= n, \A k \in Nat : k < m => All(k) PROVE All(m)
  <2> SUFFICES ASSUME NEW s \in SUBSET (1..m) PROVE Keeps(s)
    OBVIOUS
  <2>1. s \in SUBSET (1..n)
    BY <1>0, <1>7
  <2>2. it[s] = IF s = {} THEN {args} ELSE PatternStep(it[s \ {Max(s)}], order[Max(s)])
    BY <1>6, <2>1 DEF Patterned
  <2>3. CASE s = {}
    BY <2>2, <2>3
  <2>4. CASE s # {}
    <3>1. m # 0 /\ m - 1 \in Nat /\ m - 1 < m
      <4>1. PICK x : x \in 1..m
        BY <2>4
      <4> HIDE DEF Keeps
      <4> QED BY <4>1
    <3>2. CASE m \in s
      <4>1. Max(s) = m
        BY <3>2, MaxIs
      <4>2. s \ {m} \in SUBSET (1..(m-1))
        OBVIOUS
      <4>3. Keeps(s \ {m})
        BY <1>7, <3>1, <4>2
      <4>4. it[s] = PatternStep(it[s \ {m}], order[m])
        BY <2>2, <2>4, <4>1
      <4>5. \A a \in PatternStep(it[s \ {m}], order[m]) : DOMAIN args \subseteq DOMAIN a
        BY <4>3, StepKeeps
      <4> QED BY <4>4, <4>5
    <3>3. CASE m \notin s
      <4>1. s \in SUBSET (1..(m-1))
        BY <3>3
      <4> QED BY <1>7, <3>1, <4>1
    <3> QED BY <3>2, <3>3
  <2> QED BY <2>3, <2>4
<1>8. Bad = {}
  <2>1. SUFFICES ASSUME Bad # {} PROVE FALSE
    OBVIOUS
  <2>2. Bad \in SUBSET Nat
    OBVIOUS
  <2> HIDE DEF Bad
  <2>3. PICK m \in Bad : \A k \in Bad : m <= k
    BY <2>1, <2>2, LeastNumber
  <2> USE DEF Bad
  <2> HIDE DEF All
  <2>4. m \in Nat /\ m <= n /\ ~All(m)
    BY <2>3
  <2>5. \A k \in Nat : k < m => All(k)
    BY <1>0, <2>3, <2>4
  <2> QED BY <1>7, <2>4, <2>5
<1>9. All(n)
  <2> HIDE DEF All
  <2> QED BY <1>0, <1>8
<1> QED BY <1>6, <1>9

-----------------------------------------------------------------------------
(* The script. *)

(* The call the script is at, and those after it. *)
LEMMA CallsLeft ==
  ASSUME calls \in Seq(Called), calls # <<>>
  PROVE  /\ Head(calls) = calls[1] /\ Head(calls) \in Called /\ Of \in Generators
         /\ Tail(calls) \in Seq(Called) /\ Len(Tail(calls)) = Len(calls) - 1
         /\ \A i \in DOMAIN Tail(calls) : i + 1 \in DOMAIN calls
                                            /\ Tail(calls)[i] = calls[i + 1]
<1>1. Head(calls) = calls[1] /\ Head(calls) \in Called
  OBVIOUS
<1>2. Of \in Generators
  BY <1>1, ScriptsAssumption DEF Of
<1> QED BY <1>1, <1>2

(* A sequence is one of its own elements. *)
LEMMA SeqOwn ==
  ASSUME NEW S, NEW t \in Seq(S)
  PROVE  IsSeq(t)
<1>1. PICK n \in Nat : t \in [1..n -> S]
  BY SeqDef
<1>2. t \in [1..n -> ToSet(t)]
  BY <1>1 DEF ToSet
<1>3. t \in Seq(ToSet(t))
  BY <1>2, SeqDef
<1> QED BY <1>3 DEF IsSeq

(* The sequence s and x after it. *)
LEMMA Appended ==
  ASSUME NEW s, IsSeq(s), NEW x
  PROVE  /\ IsSeq(Append(s, x))
         /\ DOMAIN Append(s, x) = 1..(Len(s) + 1) /\ DOMAIN s = 1..Len(s)
         /\ Len(s) \in Nat
         /\ \A i \in DOMAIN s : Append(s, x)[i] = s[i]
         /\ Append(s, x)[Len(s) + 1] = x
<1>1. s \in Seq(ToSet(s))
  BY DEF IsSeq
<1>2. Append(s, x) \in Seq(ToSet(s) \cup {x})
  BY <1>1
<1>3. IsSeq(Append(s, x))
  BY <1>2, SeqOwn
<1> QED BY <1>1, <1>3

(* The sequence of no elements. *)
LEMMA NothingGiven ==
  ASSUME NEW s, s = <<>> PROVE IsSeq(s) /\ DOMAIN s = {}
<1>1. s \in Seq({})
  OBVIOUS
<1>2. DOMAIN s = {}
  OBVIOUS
<1>3. IsSeq(s)
  BY <1>1, SeqOwn
<1> QED BY <1>2, <1>3

(* What a call that gives a field changes. *)
LEMMA Gave ==
  ASSUME ScriptInv, Of \in Generators, NEW field \in GivenFields, NEW value,
         Give(field, value)
  PROVE  /\ DOMAIN given' = Generators
         /\ given'[Of][field] = value
         /\ \A g \in Generators : DOMAIN given'[g] = GivenFields
         /\ \A g \in Generators : \A f \in GivenFields :
              g # Of \/ f # field => given'[g][f] = given[g][f]
BY DEF ScriptInv, GeneratorGiven, Give

(* What a step of the script says of the rest. *)
LEMMA ScriptSteps ==
  ASSUME Script
  PROVE  /\ phase = "script" /\ phase' \in {"script", "failed"} /\ calls # <<>>
         /\ calls' = Tail(calls)
         /\ UNCHANGED <<taskState, tasks, files, stored, last, processes>>
BY DEF Script, AddPatterns, AddPatternsFails, AddInput, AddOutput, AddCommand,
       AddCommandFails, AddTemplate, Build, BuildFails, Give, Calling, Elsewhere

(* Every step is one of the script, of the process or of a generator. *)
LEMMA Steps4 ==
  ASSUME Next
  PROVE  \/ Script \/ Run \/ RunBuildEnds \/ NextProcess
         \/ \E g \in Generators : Generate(g)
BY DEF Next

(* A generator at work leaves the script and the process alone. *)
LEMMA GenerateKeeps ==
  ASSUME NEW g \in Generators, Generate(g)
  PROVE  UNCHANGED <<script, phase, last, processes>>
BY DEF Generate, Begin, BeginSkips, Join, Check, CheckFails, CheckSkips, Execute,
       ExecuteFails, Return, Tasks

(* ScriptInv unfolded. *)
LEMMA ScriptInvIs ==
  ScriptInv <=>
    /\ calls \in Seq(Called)
    /\ DOMAIN command = Generators /\ DOMAIN given = Generators
    /\ DOMAIN ids = Generators
    /\ built \subseteq Generators
    /\ \A g \in Generators : GeneratorGiven(g)
BY DEF ScriptInv

(* A generator that the call is not about is as before. *)
LEMMA OthersGiven ==
  ASSUME ScriptInv, NEW g \in Generators,
         command'[g] = command[g], ids'[g] = ids[g], built \subseteq built',
         \A f \in GivenFields : given'[g][f] = given[g][f],
                                  DOMAIN given'[g] = GivenFields
  PROVE  GeneratorGiven(g)'
<1>1. GeneratorGiven(g)
  BY ScriptInvIs
<1>2. given'[g]["templates"] = given[g]["templates"]
      /\ given'[g]["commands"] = given[g]["commands"]
      /\ given'[g]["inputs"] = given[g]["inputs"]
  BY DEF GivenFields
<1>3. Templates(g)' = Templates(g)
  BY <1>2 DEF Templates
<1> QED BY <1>1, <1>2, <1>3 DEF GeneratorGiven

(* A call that gives a field its value. *)
LEMMA GiveKeeps ==
  ASSUME ScriptInv, Of \in Generators, NEW field \in GivenFields, NEW value,
         Give(field, value),
         field = "inputs" => value \subseteq Paths,
         field \in {"commands", "templates"} => Known(Of, value),
         field = "templates" => ToSet(given[Of].templates) \subseteq ToSet(value)
  PROVE  \A g \in Generators : GeneratorGiven(g)'
<1> SUFFICES ASSUME NEW g \in Generators PROVE GeneratorGiven(g)'
  OBVIOUS
<1>0. UNCHANGED <<command, ids, built>>
  BY DEF Give
<1>1. CASE g # Of
  BY <1>0, <1>1, Gave, OthersGiven
<1>2. CASE g = Of
  <2>1. GeneratorGiven(g)
    BY ScriptInvIs
  <2>2. DOMAIN given'[g] = GivenFields
    BY Gave
  <2>3. given'[g]["inputs"] \subseteq Paths
    BY <1>2, <2>1, Gave DEF GeneratorGiven, GivenFields
  <2>4. Known(g, given'[g]["commands"]) /\ Known(g, given'[g]["templates"])
    BY <1>2, <2>1, Gave DEF GeneratorGiven, GivenFields
  <2>5. Templates(g) \subseteq Templates(g)'
    <3>1. CASE field = "templates"
      BY <1>2, <3>1, Gave DEF Templates
    <3>2. CASE field # "templates"
      BY <1>2, <3>2, Gave DEF Templates, GivenFields
    <3> QED BY <3>1, <3>2
  <2>6. Kind[g] = "template" =>
          \A id \in DOMAIN ids'[g] :
            /\ ids'[g][id].inputs = {id} /\ ids'[g][id].outputs # {}
            /\ \A w \in ids'[g][id].outputs :
                 \E t \in Templates(g)' : t.reads = id /\ t.writes = w
    BY <1>0, <2>1, <2>5 DEF GeneratorGiven
  <2> QED BY <1>0, <2>1, <2>2, <2>3, <2>4, <2>6 DEF GeneratorGiven
<1> QED BY <1>1, <1>2

(* The elements of a sequence with one more. *)
LEMMA AppendedTo ==
  ASSUME NEW s, IsSeq(s), NEW x
  PROVE  ToSet(Append(s, x)) = ToSet(s) \cup {x}
<1>1. /\ DOMAIN Append(s, x) = 1..(Len(s) + 1) /\ DOMAIN s = 1..Len(s) /\ Len(s) \in Nat
      /\ \A i \in DOMAIN s : Append(s, x)[i] = s[i]
      /\ Append(s, x)[Len(s) + 1] = x
  BY Appended
<1> DEFINE t == Append(s, x)
           n == Len(s)
<1>2. n \in Nat /\ DOMAIN t = 1..(n + 1) /\ DOMAIN s = 1..n /\ t[n + 1] = x
      /\ \A i \in 1..n : t[i] = s[i]
  BY <1>1
<1> HIDE DEF t, n
<1>3. {t[i] : i \in DOMAIN t} = {s[i] : i \in DOMAIN s} \cup {x}
  <2>1. ASSUME NEW y \in {t[i] : i \in DOMAIN t}
        PROVE  y \in {s[i] : i \in DOMAIN s} \cup {x}
    BY <1>2
  <2>2. ASSUME NEW i \in DOMAIN s PROVE s[i] \in {t[j] : j \in DOMAIN t}
    <3>1. i \in DOMAIN t /\ t[i] = s[i]
      BY <1>2, <2>2
    <3> QED BY <3>1
  <2>3. x \in {t[j] : j \in DOMAIN t}
    <3>1. n + 1 \in DOMAIN t
      BY <1>2
    <3> QED BY <1>2, <3>1
  <2> QED BY <2>1, <2>2, <2>3
<1>4. ToSet(t) = ToSet(s) \cup {x}
  BY <1>3 DEF ToSet
<1> QED BY <1>4 DEF t

(* The ids that Build makes. *)
LEMMA GivenIdsAre ==
  ASSUME ScriptInv, NEW g \in Generators
  PROVE  /\ \A id \in DOMAIN GivenIds(g) : GivenIds(g)[id].inputs \subseteq Paths
         /\ Kind[g] = "file" => DOMAIN GivenIds(g) \subseteq {"Generate"}
         /\ Kind[g] = "template" =>
              \A id \in DOMAIN GivenIds(g) :
                /\ GivenIds(g)[id].inputs = {id} /\ GivenIds(g)[id].outputs # {}
                /\ \A w \in GivenIds(g)[id].outputs :
                     \E t \in Templates(g) : t.reads = id /\ t.writes = w
<1>1. GeneratorGiven(g)
  BY ScriptInvIs
<1>2. CASE Kind[g] = "file"
  <2>1. GivenIds(g) = [id \in {"Generate"} |->
          [inputs |-> given[g].inputs, outputs |-> given[g].outputs]]
    BY <1>2 DEF GivenIds
  <2> QED BY <1>1, <1>2, <2>1 DEF GeneratorGiven
<1>3. CASE Kind[g] = "template"
  <2>1. GivenIds(g) = [input \in {t.reads : t \in Templates(g)} |->
          [inputs |-> {input},
           outputs |-> {t.writes : t \in {u \in Templates(g) : u.reads = input}}]]
    BY <1>3 DEF GivenIds
  <2>2. ASSUME NEW id \in DOMAIN GivenIds(g)
        PROVE  /\ GivenIds(g)[id].inputs = {id} /\ GivenIds(g)[id].outputs # {}
               /\ \A w \in GivenIds(g)[id].outputs :
                     \E t \in Templates(g) : t.reads = id /\ t.writes = w
    <3>1. id \in {t.reads : t \in Templates(g)}
      BY <2>1
    <3>2. GivenIds(g)[id] = [inputs |-> {id},
            outputs |-> {t.writes : t \in {u \in Templates(g) : u.reads = id}}]
      BY <2>1, <3>1
    <3> HIDE DEF GivenIds
    <3>3. GivenIds(g)[id].inputs = {id} /\ GivenIds(g)[id].outputs
            = {t.writes : t \in {u \in Templates(g) : u.reads = id}}
      BY <3>2
    <3>4. PICK u \in Templates(g) : u.reads = id
      BY <3>1
    <3>5. u.writes \in GivenIds(g)[id].outputs
      BY <3>3, <3>4
    <3> QED BY <3>3, <3>5
  <2>3. ASSUME NEW id \in DOMAIN GivenIds(g) PROVE id \in Paths
    <3>1. PICK t \in Templates(g) : id = t.reads
      BY <2>1
    <3>2. PICK i \in DOMAIN given[g].templates : t = given[g].templates[i]
      BY DEF Templates, ToSet
    <3> QED BY <1>1, <3>1, <3>2 DEF GeneratorGiven, Known
  <2>4. \A id \in DOMAIN GivenIds(g) : GivenIds(g)[id].inputs \subseteq Paths
    BY <2>2, <2>3
  <2> HIDE DEF GivenIds
  <2> QED BY <1>3, <2>2, <2>4
<1> QED BY <1>2, <1>3, KindAssumption

-----------------------------------------------------------------------------
(* What a script has its generators make. *)

(* A call that adds a command or a template. *)
LEMMA MakesOf ==
  ASSUME calls \in Seq(Called), calls # <<>>,
         Head(calls).call \in {"AddCommand", "AddTemplate"}
  PROVE  Head(calls) \in Making /\ Arg.reads \in Paths
           /\ Arg.writes \in Paths \cap Makes(Of)
<1>1. Head(calls) \in Called
  BY CallsLeft
<1>2. Head(calls) \in Making
  BY <1>1 DEF Making
<1>3. Head(calls) \in {c \in Making : c.of = Of}
  BY <1>2 DEF Of
<1>4. Arg.writes \in Makes(Of)
  BY <1>3 DEF Makes, Arg
<1> QED BY <1>1, <1>2, <1>4, ScriptsAssumption DEF Arg

(* One known step more. *)
LEMMA KnownAppended ==
  ASSUME NEW g, NEW steps, Known(g, steps), NEW step,
         step.reads \in Paths, step.writes \in Paths \cap Makes(g)
  PROVE  Known(g, Append(steps, step))
<1>1. /\ DOMAIN Append(steps, step) = 1..(Len(steps) + 1)
      /\ DOMAIN steps = 1..Len(steps)
      /\ Len(steps) \in Nat
      /\ \A i \in DOMAIN steps : Append(steps, step)[i] = steps[i]
      /\ Append(steps, step)[Len(steps) + 1] = step
  BY Appended DEF Known
<1>2. IsSeq(Append(steps, step))
  BY Appended DEF Known
<1> DEFINE t == Append(steps, step)
           n == Len(steps)
<1>3. n \in Nat /\ DOMAIN t = 1..(n + 1) /\ DOMAIN steps = 1..n /\ t[n + 1] = step
      /\ \A i \in 1..n : t[i] = steps[i]
  BY <1>1
<1>4. IsSeq(t)
  BY <1>2
<1> HIDE DEF t, n
<1>5. Known(g, t)
  BY <1>3, <1>4 DEF Known
<1> QED BY <1>5 DEF t

(* No calls yet. *)
LEMMA ScriptInvInit == Init => ScriptInv
<1> SUFFICES ASSUME Init PROVE ScriptInv
  OBVIOUS
<1>1. calls \in Seq(Called)
  BY ScriptsAssumption DEF Init
<1>2. ASSUME NEW g \in Generators PROVE GeneratorGiven(g)
  <2>1. given[g]
          = [inputs |-> {}, outputs |-> {}, commands |-> <<>>, templates |-> <<>>]
        /\ command[g] = Defaults /\ ids[g] = <<>>
    BY DEF Init
  <2>2. DOMAIN ids[g] = {}
    BY <2>1, NothingGiven
  <2>3. Known(g, given[g].commands) /\ Known(g, given[g].templates)
    BY <2>1, NothingGiven DEF Known
  <2>4. DOMAIN given[g] = GivenFields /\ given[g].inputs = {}
    BY <2>1 DEF GivenFields
  <2> QED BY <2>1, <2>2, <2>3, <2>4 DEF GeneratorGiven
<1>3. DOMAIN command = Generators /\ DOMAIN given = Generators
      /\ DOMAIN ids = Generators
      /\ built \subseteq Generators
  BY DEF Init
<1> QED BY <1>1, <1>2, <1>3, ScriptInvIs

(* A new process starts over. *)
LEMMA NewScriptGives ==
  ASSUME NewScript
  PROVE  ScriptInv'
<1>1. calls' \in Seq(Called)
  BY ScriptsAssumption DEF NewScript
<1>2. ASSUME NEW g \in Generators PROVE GeneratorGiven(g)'
  <2>1. given'[g]
          = [inputs |-> {}, outputs |-> {}, commands |-> <<>>, templates |-> <<>>]
        /\ command'[g] = Defaults /\ ids'[g] = <<>>
    BY DEF NewScript
  <2>2. DOMAIN ids'[g] = {}
    BY <2>1, NothingGiven
  <2>3. Known(g, given'[g].commands) /\ Known(g, given'[g].templates)
    BY <2>1, NothingGiven DEF Known
  <2>4. DOMAIN given'[g] = GivenFields /\ given'[g].inputs = {}
    BY <2>1 DEF GivenFields
  <2> QED BY <2>1, <2>2, <2>3, <2>4 DEF GeneratorGiven
<1>3. DOMAIN command' = Generators /\ DOMAIN given' = Generators
      /\ DOMAIN ids' = Generators
      /\ built' \subseteq Generators
  BY DEF NewScript
<1> QED BY <1>1, <1>2, <1>3 DEF ScriptInv

(* One step per action of the script; the others leave it alone. *)
LEMMA ScriptInvNext == ScriptInv /\ [Next]_vars => ScriptInv'
<1> SUFFICES ASSUME ScriptInv, [Next]_vars PROVE ScriptInv'
  OBVIOUS
<1>u. UNCHANGED script => ScriptInv'
  <2> SUFFICES ASSUME UNCHANGED script PROVE ScriptInv'
    OBVIOUS
  <2>1. \A g \in Generators : Templates(g)' = Templates(g)
    BY DEF Templates, script
  <2>2. ASSUME NEW g \in Generators PROVE GeneratorGiven(g)'
    BY <2>1, ScriptInvIs DEF GeneratorGiven, script
  <2> QED BY <2>2 DEF ScriptInv, script
<1>1. CASE Script
  <2>1. calls' = Tail(calls) /\ calls # <<>> /\ calls \in Seq(Called)
    BY <1>1, ScriptSteps DEF ScriptInv
  <2>2. calls' \in Seq(Called) /\ Of \in Generators /\ Head(calls) \in Called
    BY <2>1, CallsLeft
  <2>3. SUFFICES /\ DOMAIN command' = Generators /\ DOMAIN given' = Generators
                 /\ DOMAIN ids' = Generators /\ built' \subseteq Generators
                 /\ \A g \in Generators : GeneratorGiven(g)'
    BY <2>1, <2>2 DEF ScriptInv
  <2>4. CASE AddPatterns
    <3>1. PICK args \in WithPatterns(command[Of], Arg) :
            command' = [command EXCEPT ![Of] = args]
      BY <2>4 DEF AddPatterns
    <3>2. IsFiniteSet(Arg)
      BY <2>2, <2>4, ScriptsAssumption DEF AddPatterns, Calling, Arg
    <3>3. DOMAIN command[Of] \subseteq DOMAIN args
      BY <3>1, <3>2, PatternsKeep
    <3>4. UNCHANGED <<given, ids, built>>
      BY <2>4 DEF AddPatterns
    <3>5. ASSUME NEW g \in Generators PROVE GeneratorGiven(g)'
      <4>1. GeneratorGiven(g) /\ DOMAIN command = Generators
        BY ScriptInvIs
      <4>2. DOMAIN Defaults \subseteq DOMAIN command'[g]
        BY <3>1, <3>3, <4>1 DEF GeneratorGiven
      <4>3. Templates(g)' = Templates(g)
        BY <3>4 DEF Templates
      <4> QED BY <3>4, <4>1, <4>2, <4>3 DEF GeneratorGiven
    <3> QED BY <3>1, <3>4, <3>5 DEF ScriptInv
  <2>5. CASE AddPatternsFails \/ AddCommandFails \/ BuildFails
    <3>1. UNCHANGED <<command, given, ids, built>>
      BY <2>5 DEF AddPatternsFails, AddCommandFails, BuildFails
    <3>2. ASSUME NEW g \in Generators PROVE GeneratorGiven(g)'
      <4>1. GeneratorGiven(g)
        BY ScriptInvIs
      <4>2. Templates(g)' = Templates(g)
        BY <3>1 DEF Templates
      <4> QED BY <3>1, <4>1, <4>2 DEF GeneratorGiven
    <3> QED BY <3>1, <3>2 DEF ScriptInv
  <2>6. ASSUME NEW field \in GivenFields, NEW value, Give(field, value),
               \A g \in Generators : GeneratorGiven(g)'
        PROVE  /\ DOMAIN command' = Generators /\ DOMAIN given' = Generators
               /\ DOMAIN ids' = Generators /\ built' \subseteq Generators
    BY <2>2, <2>6, Gave DEF Give, ScriptInv
  <2> USE DEF GivenFields
  <2>7. CASE AddInput
    <3>1. GeneratorGiven(Of)
      BY <2>2, ScriptInvIs
    <3>2. given[Of].inputs \cup {Arg} \subseteq Paths
      BY <2>2, <2>7, <3>1, ScriptsAssumption DEF AddInput, Calling, Arg, GeneratorGiven
    <3>3. Give("inputs", given[Of].inputs \cup {Arg})
      BY <2>7 DEF AddInput
    <3>4. \A g \in Generators : GeneratorGiven(g)'
      BY <2>2, <3>2, <3>3, GiveKeeps
    <3> QED BY <2>6, <3>3, <3>4
  <2>8. CASE AddOutput
    <3>3. Give("outputs", given[Of].outputs \cup {Arg})
      BY <2>8 DEF AddOutput
    <3>4. \A g \in Generators : GeneratorGiven(g)'
      BY <2>2, <3>3, GiveKeeps
    <3> QED BY <2>6, <3>3, <3>4
  <2>9. CASE AddCommand
    <3>0. Head(calls).call = "AddCommand"
      BY <2>9 DEF AddCommand, Calling
    <3>1. PICK values \in Construct(Arg.uses, command[Of]) :
            Give("commands", Append(given[Of].commands,
                   [reads |-> Arg.reads, writes |-> Arg.writes, with |-> values]))
      BY <2>9 DEF AddCommand
    <3> DEFINE step == [reads |-> Arg.reads, writes |-> Arg.writes, with |-> values]
    <3>2. step.reads \in Paths /\ step.writes \in Paths \cap Makes(Of)
      BY <2>1, <3>0, MakesOf
    <3>3. Known(Of, given[Of].commands)
      BY <2>2, ScriptInvIs DEF GeneratorGiven
    <3> HIDE DEF step
    <3>4. Known(Of, Append(given[Of].commands, step))
      BY <3>2, <3>3, KnownAppended
    <3>5. Give("commands", Append(given[Of].commands, step))
      BY <3>1 DEF step
    <3>6. \A g \in Generators : GeneratorGiven(g)'
      BY <2>2, <3>4, <3>5, GiveKeeps
    <3> QED BY <2>6, <3>5, <3>6
  <2>10. CASE AddTemplate
    <3>0. Head(calls).call = "AddTemplate"
      BY <2>10 DEF AddTemplate, Calling
    <3>1. Give("templates", Append(given[Of].templates, Arg))
      BY <2>10 DEF AddTemplate
    <3>2. Arg.reads \in Paths /\ Arg.writes \in Paths \cap Makes(Of)
      BY <2>1, <3>0, MakesOf
    <3>3. Known(Of, given[Of].templates)
      BY <2>2, ScriptInvIs DEF GeneratorGiven
    <3>4. Known(Of, Append(given[Of].templates, Arg))
      BY <3>2, <3>3, KnownAppended
    <3>5. ToSet(given[Of].templates) \subseteq ToSet(Append(given[Of].templates, Arg))
      BY <3>3, AppendedTo DEF Known
    <3>6. \A g \in Generators : GeneratorGiven(g)'
      BY <2>2, <3>1, <3>4, <3>5, GiveKeeps
    <3> QED BY <2>6, <3>1, <3>6
  <2>11. CASE Build
    <3>1. ids' = [ids EXCEPT ![Of] = GivenIds(Of)] /\ built' = built \cup {Of}
          /\ UNCHANGED <<command, given>>
      BY <2>11 DEF Build
    <3>2. ASSUME NEW g \in Generators PROVE GeneratorGiven(g)'
      <4>1. GeneratorGiven(g) /\ DOMAIN ids = Generators
        BY ScriptInvIs
      <4>2. Templates(g)' = Templates(g)
        BY <3>1 DEF Templates
      <4>3. CASE g = Of
        <5>1. ids'[g] = GivenIds(g) /\ g \in built'
          BY <3>1, <4>1, <4>3
        <5> QED BY <3>1, <4>1, <4>2, <5>1, GivenIdsAre DEF GeneratorGiven
      <4>4. CASE g # Of
        <5>1. ids'[g] = ids[g] /\ (g \in built' <=> g \in built)
          BY <3>1, <4>1, <4>4
        <5> QED BY <3>1, <4>1, <4>2, <5>1 DEF GeneratorGiven
      <4> QED BY <4>3, <4>4
    <3> QED BY <2>2, <3>1, <3>2 DEF ScriptInv
  <2> QED BY <1>1, <2>4, <2>5, <2>7, <2>8, <2>9, <2>10, <2>11 DEF Script
<1>2. CASE NextProcess
  BY <1>2, NewScriptGives DEF NextProcess
<1>3. CASE Run \/ RunBuildEnds \/ UNCHANGED vars
  BY <1>3, <1>u DEF Run, RunBuildEnds, vars
<1>4. CASE \E g \in Generators : Generate(g)
  BY <1>4, <1>u, GenerateKeeps
<1> QED BY <1>1, <1>2, <1>3, <1>4, Steps4

(* Steps that a call adds nothing to, and those it adds one to. *)
LEMMA ApartKept ==
  ASSUME ScriptInv, calls # <<>>, Apart(calls), calls' = Tail(calls)
  PROVE  /\ Apart(calls')
         /\ \A steps : LeftOut(steps, calls) => LeftOut(steps, calls')
<1>1. calls \in Seq(Called)
  BY DEF ScriptInv
<1>2. \A i \in DOMAIN calls' : i + 1 \in DOMAIN calls /\ calls'[i] = calls[i + 1]
                                 /\ i \in Nat
  <2>1. Tail(calls) \in Seq(Called)
    BY <1>1, CallsLeft
  <2> QED BY <1>1, <2>1, CallsLeft
<1>3. Apart(calls')
  <2> SUFFICES ASSUME NEW i \in DOMAIN calls', NEW j \in DOMAIN calls',
                      calls'[i] \in Making, calls'[j] \in Making,
                      calls'[i].arg.writes = calls'[j].arg.writes
               PROVE  i = j
    BY DEF Apart
  <2>1. i + 1 = j + 1
    BY <1>2 DEF Apart
  <2> QED BY <1>2, <2>1
<1>4. \A steps : LeftOut(steps, calls) => LeftOut(steps, calls')
  BY <1>2 DEF LeftOut
<1> QED BY <1>3, <1>4

(* A step more is of a file that no other makes. *)
LEMMA ApartAppended ==
  ASSUME ScriptInv, calls # <<>>, Apart(calls), calls' = Tail(calls),
         Head(calls) \in Making,
         NEW steps, IsSeq(steps), Distinct(steps), LeftOut(steps, calls),
         NEW step, step.writes = Arg.writes
  PROVE  Distinct(Append(steps, step)) /\ LeftOut(Append(steps, step), calls')
<1>1. calls \in Seq(Called)
  BY DEF ScriptInv
<1>2. /\ Head(calls) = calls[1] /\ 1 \in DOMAIN calls
      /\ \A i \in DOMAIN calls' : i + 1 \in DOMAIN calls /\ calls'[i] = calls[i + 1]
                                  /\ i \in Nat /\ i + 1 # 1
  <2>1. Tail(calls) \in Seq(Called)
    BY <1>1, CallsLeft
  <2> QED BY <1>1, <2>1, CallsLeft
<1> DEFINE t == Append(steps, step)
           n == Len(steps)
<1>3. n \in Nat /\ DOMAIN t = 1..(n + 1) /\ DOMAIN steps = 1..n /\ t[n + 1] = step
      /\ \A i \in 1..n : t[i] = steps[i]
  BY Appended
<1> HIDE DEF t, n
<1>4. \A i \in DOMAIN steps : steps[i].writes # step.writes
  BY <1>2 DEF LeftOut, Arg
<1>5. Distinct(t)
  <2> SUFFICES ASSUME NEW i \in DOMAIN t, NEW j \in DOMAIN t, t[i].writes = t[j].writes
               PROVE  i = j
    BY DEF Distinct
  <2>1. CASE i = n + 1 /\ j # n + 1
    BY <1>3, <1>4, <2>1
  <2>2. CASE j = n + 1 /\ i # n + 1
    BY <1>3, <1>4, <2>2
  <2>3. CASE i # n + 1 /\ j # n + 1
    BY <1>3, <2>3 DEF Distinct
  <2> QED BY <2>1, <2>2, <2>3
<1>6. LeftOut(t, calls')
  <2> SUFFICES ASSUME NEW i \in DOMAIN t, NEW j \in DOMAIN calls', calls'[j] \in Making
               PROVE  calls'[j].arg.writes # t[i].writes
    BY DEF LeftOut
  <2>2. calls'[j] = calls[j + 1] /\ j + 1 \in DOMAIN calls /\ j + 1 # 1
    BY <1>2
  <2>3. CASE i = n + 1
    BY <1>2, <1>3, <2>2, <2>3 DEF Apart, Arg
  <2>4. CASE i # n + 1
    <3>1. i \in DOMAIN steps /\ t[i] = steps[i]
      BY <1>3, <2>4
    <3> QED BY <2>2, <3>1 DEF LeftOut
  <2> QED BY <2>3, <2>4
<1> QED BY <1>5, <1>6 DEF t

(* Nothing made yet. *)
LEMMA MakesInvInit == Init /\ OneMaker => MakesInv
<1> SUFFICES ASSUME Init, OneMaker PROVE MakesInv
  OBVIOUS
<1>1. Apart(calls)
  BY DEF Init, OneMaker, Apart
<1>2. ASSUME NEW g \in Generators
      PROVE  /\ Distinct(given[g].commands) /\ LeftOut(given[g].commands, calls)
             /\ Distinct(given[g].templates) /\ LeftOut(given[g].templates, calls)
  <2>1. given[g]
          = [inputs |-> {}, outputs |-> {}, commands |-> <<>>, templates |-> <<>>]
    BY DEF Init
  <2>2. DOMAIN given[g].commands = {} /\ DOMAIN given[g].templates = {}
    BY <2>1, NothingGiven
  <2> QED BY <2>2 DEF Distinct, LeftOut
<1> QED BY <1>1, <1>2 DEF MakesInv

(* A new process starts over. *)
LEMMA NewScriptMakes == NewScript /\ OneMaker => MakesInv'
<1> SUFFICES ASSUME NewScript, OneMaker PROVE MakesInv'
  OBVIOUS
<1>1. Apart(calls')
  BY DEF NewScript, OneMaker, Apart
<1>2. ASSUME NEW g \in Generators
      PROVE  /\ Distinct(given'[g].commands) /\ LeftOut(given'[g].commands, calls')
             /\ Distinct(given'[g].templates) /\ LeftOut(given'[g].templates, calls')
  <2>1. given'[g]
          = [inputs |-> {}, outputs |-> {}, commands |-> <<>>, templates |-> <<>>]
    BY DEF NewScript
  <2>2. DOMAIN given'[g].commands = {} /\ DOMAIN given'[g].templates = {}
    BY <2>1, NothingGiven
  <2> QED BY <2>2 DEF Distinct, LeftOut
<1> QED BY <1>1, <1>2 DEF MakesInv

(* One step per call that makes a file. *)
LEMMA MakesInvNext == OneMaker /\ ScriptInv /\ MakesInv /\ [Next]_vars => MakesInv'
<1> SUFFICES ASSUME OneMaker, ScriptInv, MakesInv, [Next]_vars PROVE MakesInv'
  OBVIOUS
<1>u. UNCHANGED script => MakesInv'
  BY DEF MakesInv, script
<1>1. CASE Script
  <2>1. calls' = Tail(calls) /\ calls # <<>> /\ calls \in Seq(Called)
    BY <1>1, ScriptSteps DEF ScriptInv
  <2>2. Of \in Generators /\ Head(calls) \in Called
    BY <2>1, CallsLeft
  <2>3. /\ Apart(calls) /\ Apart(calls')
        /\ \A steps : LeftOut(steps, calls) => LeftOut(steps, calls')
    BY <2>1, ApartKept DEF MakesInv
  <2>4. ASSUME UNCHANGED given PROVE MakesInv'
    BY <2>3, <2>4 DEF MakesInv
  <2>5. ASSUME NEW field \in GivenFields, NEW value, Give(field, value),
               field = "commands" => Distinct(value) /\ LeftOut(value, calls'),
               field = "templates" => Distinct(value) /\ LeftOut(value, calls')
        PROVE  MakesInv'
    <3> SUFFICES ASSUME NEW g \in Generators, NEW f \in {"commands", "templates"}
                 PROVE  Distinct(given'[g][f]) /\ LeftOut(given'[g][f], calls')
      BY <2>3 DEF MakesInv
    <3>1. f \in GivenFields /\ Distinct(given[g][f]) /\ LeftOut(given[g][f], calls)
      BY DEF MakesInv, GivenFields
    <3>2. CASE g = Of /\ f = field
      <4>1. given'[g][f] = value
        BY <2>2, <2>5, <3>2, Gave
      <4> QED BY <2>5, <3>2, <4>1
    <3>3. CASE g # Of \/ f # field
      <4>1. given'[g][f] = given[g][f]
        BY <2>2, <2>5, <3>1, <3>3, Gave
      <4> QED BY <2>3, <3>1, <4>1
    <3> QED BY <3>2, <3>3
  <2>6. GeneratorGiven(Of)
    BY <2>2 DEF ScriptInv
  <2>7. CASE AddInput \/ AddOutput
    BY <2>5, <2>7 DEF AddInput, AddOutput, GivenFields
  <2>8. CASE AddCommand
    <3>0. Head(calls).call = "AddCommand"
      BY <2>8 DEF AddCommand, Calling
    <3>1. PICK values \in Construct(Arg.uses, command[Of]) :
            Give("commands", Append(given[Of].commands,
                   [reads |-> Arg.reads, writes |-> Arg.writes, with |-> values]))
      BY <2>8 DEF AddCommand
    <3> DEFINE step == [reads |-> Arg.reads, writes |-> Arg.writes, with |-> values]
               steps == given[Of].commands
    <3>2. step.writes = Arg.writes /\ Head(calls) \in Making
      BY <2>1, <3>0, MakesOf
    <3>3. IsSeq(steps) /\ Distinct(steps) /\ LeftOut(steps, calls)
      BY <2>2, <2>6 DEF GeneratorGiven, Known, MakesInv
    <3>5. Give("commands", Append(steps, step))
      BY <3>1
    <3> HIDE DEF step, steps
    <3>4. Distinct(Append(steps, step)) /\ LeftOut(Append(steps, step), calls')
      BY <2>1, <2>3, <3>2, <3>3, ApartAppended
    <3> QED BY <2>5, <3>4, <3>5 DEF GivenFields
  <2>9. CASE AddTemplate
    <3>0. Head(calls).call = "AddTemplate"
      BY <2>9 DEF AddTemplate, Calling
    <3> DEFINE steps == given[Of].templates
    <3>2. Head(calls) \in Making
      BY <2>1, <3>0, MakesOf
    <3>3. IsSeq(steps) /\ Distinct(steps) /\ LeftOut(steps, calls)
      BY <2>2, <2>6 DEF GeneratorGiven, Known, MakesInv
    <3>5. Give("templates", Append(steps, Arg))
      BY <2>9 DEF AddTemplate
    <3> HIDE DEF steps
    <3>4. Distinct(Append(steps, Arg)) /\ LeftOut(Append(steps, Arg), calls')
      BY <2>1, <2>3, <3>2, <3>3, ApartAppended
    <3> QED BY <2>5, <3>4, <3>5 DEF GivenFields
  <2>10. CASE UNCHANGED given
    BY <2>4, <2>10
  <2> QED BY <1>1, <2>7, <2>8, <2>9, <2>10
          DEF Script, AddPatterns, AddPatternsFails, AddCommandFails, Build, BuildFails
<1>2. CASE NextProcess
  BY <1>2, NewScriptMakes DEF NextProcess
<1>3. CASE Run \/ RunBuildEnds \/ UNCHANGED vars
  BY <1>3, <1>u DEF Run, RunBuildEnds, vars
<1>4. CASE \E g \in Generators : Generate(g)
  BY <1>4, <1>u, GenerateKeeps
<1> QED BY <1>1, <1>2, <1>3, <1>4, Steps4

-----------------------------------------------------------------------------
(* The tasks. *)

(* A generator at work changes what is its own, and the files. *)
OnlyOf(g) ==
  /\ UNCHANGED <<script, phase, last, processes>>
  /\ DOMAIN stage' = Generators /\ DOMAIN waiting' = Generators
  /\ DOMAIN todo' = Generators
  /\ DOMAIN should_run' = Generators /\ DOMAIN run_success' = Generators
  /\ DOMAIN dirty' = Generators /\ DOMAIN stored' = Generators
  /\ \A h \in Generators \ {g} :
       /\ stage'[h] = stage[h] /\ waiting'[h] = waiting[h] /\ todo'[h] = todo[h]
       /\ should_run'[h] = should_run[h] /\ run_success'[h] = run_success[h]
       /\ dirty'[h] = dirty[h] /\ stored'[h] = stored[h]
  /\ taskState' \in {"SUCCESS", "FAILURE"}
  /\ (taskState' = "SUCCESS" => taskState = "SUCCESS")
  /\ stage[g] \in {"waiting", "running"} /\ stage'[g] \in {"running", "done"}

(* All steps of a generator do so. *)
LEMMA GenerateFrame ==
  ASSUME StageInv, NEW g \in Generators, Generate(g)
  PROVE  OnlyOf(g)
<1>0. StageOf(g) /\ DOMAIN stage = Generators /\ DOMAIN waiting = Generators
      /\ DOMAIN todo = Generators /\ DOMAIN should_run = Generators
      /\ DOMAIN run_success = Generators /\ DOMAIN dirty = Generators
      /\ DOMAIN stored = Generators /\ taskState \in {"SUCCESS", "FAILURE"}
  BY DEF StageInv
<1>1. CASE Begin(g)
  BY <1>0, <1>1 DEF Begin, Tasks, OnlyOf
<1>2. CASE BeginSkips(g)
  BY <1>0, <1>2 DEF BeginSkips, Tasks, OnlyOf
<1>3. CASE Join(g)
  <2>1. /\ DOMAIN stored' = Generators
        /\ \A h \in Generators \ {g} : stored'[h] = stored[h]
    BY <1>0, <1>3 DEF Join
  <2>2. /\ UNCHANGED <<taskState, waiting, todo, should_run, run_success, files>>
        /\ Tasks
        /\ stage' = [stage EXCEPT ![g] = "done"] /\ stage[g] = "running"
        /\ dirty' = [dirty EXCEPT ![g] = @ \/ should_run[g] # {}]
    BY <1>3 DEF Join
  <2> QED BY <1>0, <2>1, <2>2 DEF Tasks, OnlyOf
<1>4. ASSUME NEW id \in DOMAIN ids[g],
             Check(g, id) \/ CheckFails(g, id) \/ CheckSkips(g, id)
             \/ Execute(g, id) \/ ExecuteFails(g, id) \/ Return(g, id)
      PROVE  OnlyOf(g)
  <2>1. stage[g] = "running"
    BY <1>0, <1>4
    DEF Check, CheckFails, CheckSkips, Starts, Execute, ExecuteFails, Return,
                      Under, StageOf
  <2>2. CASE Check(g, id)
    BY <1>0, <2>1, <2>2 DEF Check, Starts, Tasks, OnlyOf
  <2>3. CASE CheckFails(g, id) \/ CheckSkips(g, id)
    BY <1>0, <2>1, <2>3 DEF CheckFails, CheckSkips, Starts, Tasks, OnlyOf
  <2>4. CASE Execute(g, id) \/ ExecuteFails(g, id)
    BY <1>0, <2>1, <2>4 DEF Execute, ExecuteFails, Tasks, OnlyOf
  <2>5. CASE Return(g, id)
    BY <1>0, <2>1, <2>5 DEF Return, Tasks, OnlyOf
  <2> QED BY <1>4, <2>2, <2>3, <2>4, <2>5
<1> QED BY <1>1, <1>2, <1>3, <1>4 DEF Generate

(* The stage of another generator is kept: what it waits for stays done. *)
LEMMA OthersStage ==
  ASSUME StageInv, NEW g \in Generators, OnlyOf(g), NEW h \in Generators \ {g}
  PROVE  StageOf(h)'
<1>1. StageOf(h)
  BY DEF StageInv
<1>2. \A d \in Deps : stage[d[1]] = "done" => stage'[d[1]] = "done"
  BY DepsAssumption DEF OnlyOf
<1>3. ids' = ids
  BY DEF OnlyOf, script
<1> QED BY <1>1, <1>2, <1>3 DEF OnlyOf, StageOf

(* No task has begun. *)
LEMMA StageInvInit == Init => StageInv
BY NothingGiven DEF Init, StageInv, StageOf

(* A step of the generator keeps its own stage. *)
LEMMA OwnStage ==
  ASSUME StageInv, NEW g \in Generators, Generate(g)
  PROVE  StageOf(g)'
<1>0. StageOf(g) /\ OnlyOf(g) /\ DOMAIN stage = Generators
      /\ DOMAIN waiting = Generators
      /\ DOMAIN todo = Generators /\ DOMAIN should_run = Generators
      /\ DOMAIN run_success = Generators /\ DOMAIN dirty = Generators
      /\ DOMAIN stored = Generators
  BY GenerateFrame DEF StageInv
<1>d. \A d \in Deps : d[2] = g /\ stage[d[1]] = "done" => stage'[d[1]] = "done"
  BY <1>0, DepsAssumption DEF OnlyOf
<1>i. ids' = ids
  BY <1>0 DEF OnlyOf, script
<1>1. CASE Begin(g)
  BY <1>0, <1>1, <1>d, <1>i DEF Begin, StageOf
<1>2. CASE BeginSkips(g)
  BY <1>0, <1>2, <1>d, <1>i DEF BeginSkips, StageOf
<1>3. CASE Join(g)
  <2>1. /\ UNCHANGED <<taskState, waiting, todo, should_run, run_success, files>>
        /\ stage' = [stage EXCEPT ![g] = "done"] /\ stage[g] = "running"
        /\ waiting[g] = {} /\ DOMAIN todo[g] = {}
        /\ dirty' = [dirty EXCEPT ![g] = @ \/ should_run[g] # {}]
    BY <1>3 DEF Join
  <2>2. stored'[g] = stored[g] \/ \E s : stored'[g] = {s}
    BY <1>0, <1>3 DEF Join
  <2>3. stored'[g] = {} \/ \E s \in stored'[g] : stored'[g] = {s}
    BY <1>0, <2>2 DEF StageOf
  <2>4. stage'[g] = "done" /\ dirty'[g] \in BOOLEAN
        /\ UNCHANGED <<taskState, waiting, todo, should_run, run_success>>
    BY <1>0, <2>1 DEF StageOf
  <2> QED BY <1>0, <1>d, <1>i, <2>1, <2>3, <2>4 DEF StageOf
<1>4. ASSUME NEW id \in DOMAIN ids[g], Check(g, id) PROVE StageOf(g)'
  <2>1. /\ id \in waiting[g] /\ taskState' = taskState /\ stage' = stage
        /\ dirty' = dirty
        /\ waiting'[g] = waiting[g] \ {id} /\ stored' = stored
    BY <1>0, <1>4 DEF Check, Starts
  <2>2. stage[g] = "running" /\ id \notin should_run[g] /\ id \notin run_success[g]
    BY <1>0, <2>1 DEF StageOf
  <2>3. CASE Changed(g, id)
    <3>1. /\ should_run'[g] = should_run[g] \cup {id} /\ run_success' = run_success
          /\ todo'[g] = With(todo[g], id, CallbackOf(g, id))
      BY <1>0, <1>4, <2>3 DEF Check
    <3>2. DOMAIN todo'[g] = DOMAIN todo[g] \cup {id}
      BY <3>1 DEF With
    <3> QED BY <1>0, <1>d, <1>i, <2>1, <2>2, <3>1, <3>2 DEF StageOf
  <2>4. CASE ~Changed(g, id)
    <3>1. run_success'[g] = run_success[g] \cup {id} /\ UNCHANGED <<should_run, todo>>
      BY <1>0, <1>4, <2>4 DEF Check
    <3> QED BY <1>0, <1>d, <1>i, <2>1, <2>2, <3>1 DEF StageOf
  <2> QED BY <2>3, <2>4
<1>5. ASSUME NEW id \in DOMAIN ids[g], CheckFails(g, id) \/ CheckSkips(g, id)
      PROVE  StageOf(g)'
  <2>1. /\ id \in waiting[g] /\ taskState' = "FAILURE" /\ stage' = stage
        /\ dirty' = dirty
        /\ waiting'[g] = waiting[g] \ {id} /\ stored' = stored
        /\ UNCHANGED <<todo, should_run, run_success>>
    BY <1>0, <1>5 DEF CheckFails, CheckSkips, Starts
  <2> QED BY <1>0, <1>d, <1>i, <2>1 DEF StageOf
<1>6. ASSUME NEW id \in DOMAIN ids[g], Execute(g, id) PROVE StageOf(g)'
  <2>1. /\ UNCHANGED <<taskState, stage, waiting, should_run, run_success, dirty,
             stored>>
        /\ todo' = [todo EXCEPT ![g][id] = Tail(@)]
    BY <1>6 DEF Execute
  <2>2. DOMAIN todo'[g] = DOMAIN todo[g]
    BY <1>0, <2>1
  <2> QED BY <1>0, <1>d, <1>i, <2>1, <2>2 DEF StageOf
<1>7. ASSUME NEW id \in DOMAIN ids[g], ExecuteFails(g, id) PROVE StageOf(g)'
  <2>1. /\ UNCHANGED <<stage, waiting, should_run, run_success, dirty, stored>>
        /\ taskState' = "FAILURE" /\ todo'[g] = Without(todo[g], id)
        /\ DOMAIN todo[g] # {}
    BY <1>0, <1>7 DEF ExecuteFails, Under
  <2>2. DOMAIN todo'[g] = DOMAIN todo[g] \ {id}
    BY <2>1 DEF Without
  <2> QED BY <1>0, <1>d, <1>i, <2>1, <2>2 DEF StageOf
<1>8. ASSUME NEW id \in DOMAIN ids[g], Return(g, id) PROVE StageOf(g)'
  <2>1. /\ UNCHANGED <<taskState, stage, waiting, should_run, dirty, stored>>
        /\ todo'[g] = Without(todo[g], id) /\ run_success'[g] = run_success[g] \cup {id}
        /\ id \in DOMAIN todo[g]
    BY <1>0, <1>8 DEF Return
  <2>2. DOMAIN todo'[g] = DOMAIN todo[g] \ {id}
    BY <2>1 DEF Without
  <2> QED BY <1>0, <1>d, <1>i, <2>1, <2>2 DEF StageOf
<1> QED BY <1>1, <1>2, <1>3, <1>4, <1>5, <1>6, <1>7, <1>8 DEF Generate

(* One step per action. *)
LEMMA StageInvNext == ScriptInv /\ StageInv /\ [Next]_vars => StageInv'
<1> SUFFICES ASSUME ScriptInv, StageInv, [Next]_vars PROVE StageInv'
  OBVIOUS
<1>1. CASE Script
  <2>1. /\ phase = "script" /\ phase' \in {"script", "failed"}
        /\ UNCHANGED <<taskState, stage, waiting, todo, should_run, run_success, dirty,
             stored>>
    BY <1>1, ScriptSteps DEF tasks
  <2>2. ASSUME NEW g \in Generators PROVE StageOf(g)'
    BY <2>1, <2>2 DEF StageInv, StageOf
  <2> QED BY <2>1, <2>2 DEF StageInv
<1>2. CASE Run
  <2>1. ASSUME NEW g \in Generators PROVE StageOf(g)'
    <3>1. StageOf(g) /\ stage[g] = "none" /\ GeneratorGiven(g) /\ g \in DOMAIN stage
      BY <1>2 DEF Run, StageInv, ScriptInv
    <3>2. stage'[g] = IF g \in built THEN "waiting" ELSE "done"
      BY <1>2 DEF Run
    <3>3. UNCHANGED <<taskState, waiting, todo, should_run, run_success, dirty, stored,
            ids>>
      BY <1>2 DEF Run, script
    <3> QED BY <3>1, <3>2, <3>3 DEF StageOf, GeneratorGiven
  <2> QED BY <1>2, <2>1 DEF Run, StageInv
<1>3. CASE RunBuildEnds
  <2>1. ASSUME NEW g \in Generators PROVE StageOf(g)'
    BY <1>3 DEF RunBuildEnds, StageInv, StageOf, tasks, script
  <2> QED BY <1>3, <2>1 DEF RunBuildEnds, StageInv, tasks
<1>4. CASE NextProcess
  <2>1. stored' = stored /\ NewScript /\ NoTasks
    BY <1>4 DEF NextProcess
  <2>2. ASSUME NEW g \in Generators PROVE StageOf(g)'
    <3>1. todo'[g] = <<>> /\ waiting'[g] = {} /\ should_run'[g] = {}
          /\ run_success'[g] = {}
          /\ dirty'[g] = FALSE /\ stage'[g] = "none"
      BY <2>1 DEF NoTasks
    <3>2. DOMAIN todo'[g] = {}
      BY <3>1, NothingGiven
    <3>3. stored[g] = {} \/ \E s \in stored[g] : stored[g] = {s}
      BY DEF StageInv, StageOf
    <3> QED BY <2>1, <3>1, <3>2, <3>3 DEF StageOf
  <2> QED BY <2>1, <2>2 DEF NewScript, NoTasks, StageInv
<1>5. CASE UNCHANGED vars
  <2>1. ASSUME NEW g \in Generators PROVE StageOf(g)'
    BY <1>5 DEF vars, StageInv, StageOf, tasks, script
  <2> QED BY <1>5, <2>1 DEF vars, StageInv, tasks
<1>6. ASSUME NEW g \in Generators, Generate(g) PROVE StageInv'
  <2>1. OnlyOf(g) /\ \A h \in Generators : StageOf(h)'
    BY <1>6, GenerateFrame, OwnStage, OthersStage
  <2>2. phase = "build"
    BY <2>1 DEF OnlyOf, StageInv
  <2> QED BY <2>1, <2>2 DEF OnlyOf, StageInv
<1> QED BY <1>1, <1>2, <1>3, <1>4, <1>5, <1>6, Steps4

-----------------------------------------------------------------------------
(* The files. *)

(* The files after a write. *)
LEMMA Written ==
  ASSUME NEW path, NEW content, Write(path, content)
  PROVE  /\ DOMAIN files' = DOMAIN files
         /\ \A p \in DOMAIN files : p # path => files'[p] = files[p]
         /\ path \in DOMAIN files =>
              files'[path].time = files[path].time + 1 /\ files'[path].content = content
BY DEF Write

(* What a generator writes. *)
LEMMA GenerateWrites ==
  ASSUME NEW g \in Generators, Generate(g)
  PROVE  \/ UNCHANGED files
         \/ \E id \in DOMAIN ids[g] : \E content :
              /\ Under(g, id)
              /\ Execute(g, id) \/ ExecuteFails(g, id)
              /\ Write(Head(todo[g][id]).writes, content)
<1>1. CASE Begin(g) \/ BeginSkips(g) \/ Join(g)
  BY <1>1 DEF Begin, BeginSkips, Join
<1>2. ASSUME NEW id \in DOMAIN ids[g],
             Check(g, id) \/ CheckFails(g, id) \/ CheckSkips(g, id) \/ Return(g, id)
      PROVE  UNCHANGED files
  BY <1>2 DEF Check, CheckFails, CheckSkips, Return
<1>3. ASSUME NEW id \in DOMAIN ids[g], Execute(g, id)
      PROVE  Under(g, id) /\ \E content : Write(Head(todo[g][id]).writes, content)
  BY <1>3 DEF Execute
<1>4. ASSUME NEW id \in DOMAIN ids[g], ExecuteFails(g, id)
      PROVE  /\ Under(g, id)
             /\ UNCHANGED files \/ \E content : Write(Head(todo[g][id]).writes, content)
  BY <1>4 DEF ExecuteFails
<1> QED BY <1>1, <1>2, <1>3, <1>4 DEF Generate

(* What is written when no generator is at work. *)
LEMMA OthersWrite ==
  ASSUME Script \/ Run \/ RunBuildEnds \/ NextProcess \/ UNCHANGED vars
  PROVE  \/ UNCHANGED files
         \/ /\ NextProcess /\ last' = {}
            /\ \E path \in Saved : \E content : Write(path, content)
<1>1. CASE Script
  BY <1>1, ScriptSteps
<1>2. CASE NextProcess
  BY <1>2 DEF NextProcess, Save
<1> QED BY <1>1, <1>2 DEF Run, RunBuildEnds, vars

(* Times start as numbers. *)
LEMMA FilesInvInit == Init => FilesInv
BY DEF Init, FilesInv

(* A write leaves times numbers. *)
LEMMA WriteTimes ==
  ASSUME FilesInv, NEW path, NEW content, Write(path, content)
  PROVE  FilesInv'
BY Written DEF FilesInv

(* Only writes change times. *)
LEMMA FilesInvNext == FilesInv /\ [Next]_vars => FilesInv'
<1> SUFFICES ASSUME FilesInv, [Next]_vars PROVE FilesInv'
  OBVIOUS
<1>1. UNCHANGED files => FilesInv'
  BY DEF FilesInv
<1>2. ASSUME NEW g \in Generators, Generate(g) PROVE FilesInv'
  BY <1>1, <1>2, GenerateWrites, WriteTimes
<1>3. ASSUME Script \/ Run \/ RunBuildEnds \/ NextProcess \/ UNCHANGED vars
      PROVE  FilesInv'
  BY <1>1, <1>3, OthersWrite, WriteTimes
<1> QED BY <1>2, <1>3, Steps4

-----------------------------------------------------------------------------
(* The callbacks. *)

(* The steps of a callback are known. *)
LEMMA KnownCallback ==
  ASSUME ScriptInv, NEW g \in Generators, NEW id \in DOMAIN ids[g]
  PROVE  Known(g, CallbackOf(g, id))
<1>1. GeneratorGiven(g)
  BY DEF ScriptInv
<1>2. CASE Kind[g] = "file"
  BY <1>1, <1>2 DEF GeneratorGiven, CallbackOf, Callback
<1>3. CASE Kind[g] = "template"
  <2> DEFINE ins == ids[g][id].inputs
             outs == ids[g][id].outputs
             r == CHOOSE path \in ins : TRUE
             w == CHOOSE path \in outs : TRUE
             step == [reads |-> r, writes |-> w]
  <2>1. ins = {id} /\ outs # {} /\ ins \subseteq Paths
    BY <1>1, <1>3 DEF GeneratorGiven
  <2>2. r = id /\ w \in outs
    BY <2>1
  <2>3. PICK t \in Templates(g) : t.writes = w
    BY <1>1, <1>3, <2>2 DEF GeneratorGiven
  <2>4. PICK j \in DOMAIN given[g].templates : t = given[g].templates[j]
    BY <2>3 DEF Templates, ToSet
  <2>5. w \in Paths \cap Makes(g)
    <3>1. Known(g, given[g].templates)
      BY <1>1 DEF GeneratorGiven
    <3>2. t.writes \in Paths \cap Makes(g)
      BY <3>1, <2>4 DEF Known
    <3> QED BY <3>2, <2>3
  <2>6. CallbackOf(g, id) = <<step>>
    BY <1>3 DEF CallbackOf, Callback
  <2> HIDE DEF r, w
  <2>7. step.reads \in Paths /\ step.writes \in Paths \cap Makes(g)
    BY <2>1, <2>2, <2>5
  <2>8. <<step>> \in Seq({step})
    OBVIOUS
  <2>9. IsSeq(<<step>>)
    BY <2>8, SeqOwn
  <2>10. DOMAIN <<step>> = {1} /\ <<step>>[1] = step
    OBVIOUS
  <2> QED BY <2>6, <2>7, <2>9, <2>10 DEF Known
<1> QED BY <1>2, <1>3, KindAssumption

(* All of the steps are left at first. *)
LEMMA RestAll ==
  ASSUME NEW steps, IsSeq(steps)
  PROVE  RestOf(steps, steps)
<1>1. Len(steps) \in Nat /\ steps \in Seq(ToSet(steps))
  BY DEF IsSeq
<1>2. 0 \in 0..Len(steps) /\ Len(steps) = Len(steps) - 0
      /\ \A m \in 1..Len(steps) : steps[m] = steps[0 + m]
  BY <1>1
<1> QED BY <1>2 DEF RestOf

(* The head of what is left, and what is left after it. *)
LEMMA RestTail ==
  ASSUME NEW steps, IsSeq(steps), NEW rest, RestOf(steps, rest), rest # <<>>
  PROVE  /\ RestOf(steps, Tail(rest)) /\ Len(rest) \in Nat \ {0} /\ Len(steps) \in Nat
         /\ Len(Tail(rest)) = Len(rest) - 1
         /\ Len(steps) - Len(rest) + 1 \in DOMAIN steps
         /\ Head(rest) = steps[Len(steps) - Len(rest) + 1]
<1> DEFINE n == Len(steps)
           r == Len(rest)
<1>1. rest \in Seq(ToSet(rest)) /\ steps \in Seq(ToSet(steps))
  BY DEF IsSeq, RestOf
<1>2. r \in Nat \ {0} /\ n \in Nat /\ DOMAIN steps = 1..n
  BY <1>1
<1>3. PICK k \in 0..n : r = n - k /\ \A m \in 1..r : rest[m] = steps[k + m]
  BY DEF RestOf
<1>4. /\ Tail(rest) \in Seq(ToSet(rest)) /\ Len(Tail(rest)) = r - 1
      /\ \A m \in 1..(r - 1) : Tail(rest)[m] = rest[m + 1]
      /\ Head(rest) = rest[1]
  BY <1>1, <1>2
<1>5. IsSeq(Tail(rest))
  BY <1>4, SeqOwn
<1> HIDE DEF n, r
<1>k. k \in Nat /\ k <= n /\ r = n - k
  BY <1>2, <1>3
<1>6. k + 1 \in 0..n /\ r - 1 = n - (k + 1)
  BY <1>2, <1>k
<1>7. ASSUME NEW m \in 1..(r - 1) PROVE Tail(rest)[m] = steps[(k + 1) + m]
  <2>1. m + 1 \in 1..r /\ k + (m + 1) = (k + 1) + m
    BY <1>2, <1>k
  <2>2. rest[m + 1] = steps[k + (m + 1)]
    BY <1>3, <2>1
  <2> QED BY <1>4, <2>1, <2>2
<1>9. 1 \in 1..r /\ k + 1 = n - r + 1 /\ k + 1 \in 1..n
  BY <1>2, <1>k
<1>10. Head(rest) = steps[k + 1]
  BY <1>3, <1>4, <1>9
<1> USE DEF n, r
<1>8. RestOf(steps, Tail(rest))
  BY <1>4, <1>5, <1>6, <1>7 DEF RestOf
<1> QED BY <1>2, <1>4, <1>8, <1>9, <1>10

TodoOf(g) == \A id \in DOMAIN todo[g] : RestOf(CallbackOf(g, id), todo[g][id])

(* No callback is under way. *)
LEMMA TodoInvInit == Init => TodoInv
BY NothingGiven DEF Init, TodoInv

(* A generator that is not running has no callback under way. *)
LEMMA NoTodo ==
  ASSUME StageInv, NEW g \in Generators, stage[g] # "running"
  PROVE  DOMAIN todo[g] = {}
BY DEF StageInv, StageOf

(* A step of the generator itself. *)
LEMMA OwnTodo ==
  ASSUME ScriptInv, StageInv, TodoInv, NEW g \in Generators, Generate(g)
  PROVE  TodoOf(g)'
<1>1. ScriptInv /\ script' = script /\ DOMAIN todo = Generators
  BY GenerateFrame DEF OnlyOf, StageInv
<1>2. \A id \in DOMAIN ids[g] : CallbackOf(g, id)' = CallbackOf(g, id)
  BY <1>1 DEF CallbackOf, Callback, script
<1>3. DOMAIN todo[g] \subseteq DOMAIN ids[g]
  BY DEF StageInv, StageOf
<1>4. \A id \in DOMAIN todo[g] : RestOf(CallbackOf(g, id), todo[g][id])
  BY DEF TodoInv
<1>s. ASSUME NEW id \in DOMAIN ids[g] PROVE IsSeq(CallbackOf(g, id))
  BY <1>1, KnownCallback DEF Known
<1>u. ASSUME \A id \in DOMAIN todo'[g] : id \in DOMAIN todo[g]
                                           /\ todo'[g][id] = todo[g][id]
      PROVE  TodoOf(g)'
  BY <1>2, <1>3, <1>4, <1>u DEF TodoOf
<1>5. CASE Begin(g) \/ BeginSkips(g) \/ Join(g)
  <2>1. todo' = todo
    BY <1>5 DEF Begin, BeginSkips, Join
  <2> QED BY <1>u, <2>1
<1>6. ASSUME NEW i \in DOMAIN ids[g], CheckFails(g, i) \/ CheckSkips(g, i)
      PROVE  TodoOf(g)'
  <2>1. todo' = todo
    BY <1>6 DEF CheckFails, CheckSkips
  <2> QED BY <1>u, <2>1
<1>7. ASSUME NEW i \in DOMAIN ids[g], ExecuteFails(g, i) \/ Return(g, i)
      PROVE  TodoOf(g)'
  <2>1. todo'[g] = Without(todo[g], i)
    BY <1>1, <1>7 DEF ExecuteFails, Return
  <2> QED BY <1>u, <2>1 DEF Without
<1>8. ASSUME NEW i \in DOMAIN ids[g], Check(g, i) PROVE TodoOf(g)'
  <2>1. CASE ~Changed(g, i)
    <3>1. todo' = todo
      BY <1>8, <2>1 DEF Check
    <3> QED BY <1>u, <3>1
  <2>2. CASE Changed(g, i)
    <3>1. todo'[g] = With(todo[g], i, CallbackOf(g, i))
      BY <1>1, <1>8, <2>2 DEF Check
    <3>2. DOMAIN todo'[g] = DOMAIN todo[g] \cup {i} /\ todo'[g][i] = CallbackOf(g, i)
          /\ \A id \in DOMAIN todo[g] \ {i} : todo'[g][id] = todo[g][id]
      BY <3>1 DEF With
    <3>3. RestOf(CallbackOf(g, i), CallbackOf(g, i))
      BY <1>s, RestAll
    <3>4. RestOf(CallbackOf(g, i)', todo'[g][i])
      BY <1>2, <3>2, <3>3
    <3>5. \A id \in DOMAIN todo[g] \ {i} : RestOf(CallbackOf(g, id)', todo'[g][id])
      BY <1>2, <1>3, <1>4, <3>2
    <3> QED BY <3>2, <3>4, <3>5 DEF TodoOf
  <2> QED BY <2>1, <2>2
<1>9. ASSUME NEW i \in DOMAIN ids[g], Execute(g, i) PROVE TodoOf(g)'
  <2>1. todo' = [todo EXCEPT ![g][i] = Tail(@)] /\ i \in DOMAIN todo[g]
        /\ todo[g][i] # <<>>
    BY <1>9 DEF Execute, Under
  <2>2. /\ DOMAIN todo'[g] = DOMAIN todo[g] /\ todo'[g][i] = Tail(todo[g][i])
        /\ \A id \in DOMAIN todo[g] \ {i} : todo'[g][id] = todo[g][id]
    BY <1>1, <2>1
  <2>3. RestOf(CallbackOf(g, i), Tail(todo[g][i]))
    BY <1>4, <1>s, <2>1, RestTail
  <2>4. RestOf(CallbackOf(g, i)', todo'[g][i])
    BY <1>2, <2>2, <2>3
  <2>5. \A id \in DOMAIN todo[g] \ {i} : RestOf(CallbackOf(g, id)', todo'[g][id])
    BY <1>2, <1>3, <1>4, <2>2
  <2> QED BY <2>2, <2>4, <2>5 DEF TodoOf
<1> QED BY <1>5, <1>6, <1>7, <1>8, <1>9 DEF Generate

(* Outside a build no callback is under way. *)
LEMMA NoTodoOutside ==
  ASSUME StageInv, Script \/ Run \/ RunBuildEnds \/ NextProcess
  PROVE  \A g \in Generators : DOMAIN todo'[g] = {}
<1>1. CASE Script
  BY <1>1, ScriptSteps, NoTodo DEF StageInv, tasks
<1>2. CASE Run
  BY <1>2, NoTodo DEF Run, StageInv
<1>3. CASE RunBuildEnds
  BY <1>3, NoTodo DEF RunBuildEnds, tasks
<1>4. CASE NextProcess
  BY <1>4, NothingGiven DEF NextProcess, NoTasks
<1> QED BY <1>1, <1>2, <1>3, <1>4

(* One step per action. *)
LEMMA TodoInvNext == ScriptInv /\ StageInv /\ TodoInv /\ [Next]_vars => TodoInv'
<1> SUFFICES ASSUME ScriptInv, StageInv, TodoInv, [Next]_vars PROVE TodoInv'
  OBVIOUS
<1>1. CASE Script \/ Run \/ RunBuildEnds \/ NextProcess
  BY <1>1, NoTodoOutside DEF TodoInv
<1>2. CASE UNCHANGED vars
  BY <1>2 DEF vars, script, tasks, TodoInv, CallbackOf, Callback
<1>3. ASSUME NEW g \in Generators, Generate(g) PROVE TodoInv'
  <2>1. TodoOf(g)'
    BY <1>3, OwnTodo
  <2>2. OnlyOf(g)
    BY <1>3, GenerateFrame
  <2>3. ASSUME NEW h \in Generators \ {g} PROVE TodoOf(h)'
    BY <2>2 DEF OnlyOf, script, TodoInv, TodoOf, CallbackOf, Callback
  <2> QED BY <2>1, <2>3 DEF TodoInv, TodoOf
<1> QED BY <1>1, <1>2, <1>3, Steps4

(* No task yet. *)
LEMMA OnlyBuiltInit == Init => OnlyBuilt
BY DEF Init, OnlyBuilt

(* Reg::Run gives a task to what was built. *)
LEMMA OnlyBuiltNext == StageInv /\ OnlyBuilt /\ [Next]_vars => OnlyBuilt'
<1> SUFFICES ASSUME StageInv, OnlyBuilt, [Next]_vars PROVE OnlyBuilt'
  OBVIOUS
<1>1. CASE Script
  BY <1>1, ScriptSteps DEF StageInv, tasks, OnlyBuilt
<1>2. CASE Run
  BY <1>2 DEF Run, script, OnlyBuilt
<1>3. CASE RunBuildEnds \/ UNCHANGED vars
  BY <1>3 DEF RunBuildEnds, vars, script, tasks, OnlyBuilt
<1>4. CASE NextProcess
  BY <1>4 DEF NextProcess, NoTasks, OnlyBuilt
<1>5. ASSUME NEW g \in Generators, Generate(g) PROVE OnlyBuilt'
  BY <1>5, GenerateFrame DEF OnlyOf, script, OnlyBuilt
<1> QED BY <1>1, <1>2, <1>3, <1>4, <1>5, Steps4

-----------------------------------------------------------------------------
(* Types. *)

Counted == processes \in 1..MaxProcesses

(* The processes are counted. *)
LEMMA CountedAlways == Spec => []Counted
<1>1. Init => Counted
  BY BoundAssumption DEF Init, Counted
<1>2. Counted /\ [Next]_vars => Counted'
  <2> SUFFICES ASSUME Counted, [Next]_vars PROVE Counted'
    OBVIOUS
  <2>1. CASE processes' = processes
    BY <2>1 DEF Counted
  <2>2. CASE NextProcess
    BY <2>2, BoundAssumption DEF NextProcess, Counted
  <2>3. CASE Script \/ Run \/ RunBuildEnds \/ UNCHANGED vars
    BY <2>1, <2>3, ScriptSteps DEF Run, RunBuildEnds, vars
  <2>4. ASSUME NEW g \in Generators, Generate(g) PROVE Counted'
    BY <2>1, <2>4, GenerateKeeps
  <2> QED BY <2>2, <2>3, <2>4, Steps4
<1> QED BY <1>1, <1>2, PTL DEF Spec

(* The invariant without what it says of the files. *)
TaskInv == ScriptInv /\ StageInv /\ FilesInv /\ TodoInv /\ OnlyBuilt

(* The invariant of the script and its tasks. *)
LEMMA TaskInvHolds == Spec => []TaskInv
<1>1. Init => TaskInv
  BY ScriptInvInit, StageInvInit, FilesInvInit, TodoInvInit, OnlyBuiltInit DEF TaskInv
<1>2. TaskInv /\ [Next]_vars => TaskInv'
  BY ScriptInvNext, StageInvNext, FilesInvNext, TodoInvNext, OnlyBuiltNext DEF TaskInv
<1> QED BY <1>1, <1>2, PTL DEF Spec

(* The variables keep their types: tasks are of ids that Build made, one *)
(* schema at most is stored, the script keeps a value for each default   *)
(* pattern.                                                              *)
THEOREM GeneratorsTypeCorrect == Spec => []TypeOK
<1>1. TaskInv /\ Counted => TypeOK
  <2> SUFFICES ASSUME TaskInv, Counted PROVE TypeOK
    OBVIOUS
  <2>1. ASSUME NEW g \in Generators
        PROVE  /\ DOMAIN Defaults \subseteq DOMAIN command[g]
               /\ stage[g] \in {"none", "waiting", "running", "done"}
               /\ waiting[g] \cup DOMAIN todo[g] \cup should_run[g] \cup run_success[g]
                    \subseteq DOMAIN ids[g]
               /\ dirty[g] \in BOOLEAN /\ Cardinality(stored[g]) <= 1
    <3>1. GeneratorGiven(g) /\ StageOf(g)
      BY DEF TaskInv, ScriptInv, StageInv
    <3>2. stored[g] = {} \/ \E s : stored[g] = {s}
      BY <3>1 DEF StageOf
    <3>3. Cardinality(stored[g]) <= 1
      <4>1. CASE stored[g] = {}
        <5>1. Cardinality(stored[g]) = 0
          BY <4>1, FS_EmptySet
        <5> QED BY <5>1
      <4>2. ASSUME NEW s, stored[g] = {s} PROVE Cardinality(stored[g]) <= 1
        <5>1. Cardinality({s}) = 1
          BY FS_Singleton
        <5> QED BY <4>2, <5>1
      <4> QED BY <3>2, <4>1, <4>2
    <3> QED BY <3>1, <3>3 DEF GeneratorGiven, StageOf
  <2>2. built \subseteq Generators /\ processes \in 1..MaxProcesses
        /\ phase \in {"script", "build", "ok", "failed"}
        /\ taskState \in {"SUCCESS", "FAILURE"}
        /\ \A path \in Paths : files[path].time \in Nat
    BY DEF TaskInv, Counted, ScriptInv, StageInv, FilesInv
  <2> QED BY <2>1, <2>2 DEF TypeOK
<1> QED BY <1>1, TaskInvHolds, CountedAlways, PTL

-----------------------------------------------------------------------------
(* Nothing is made again. *)

(* Ordered is OrderedIn of the script as it is. *)
LEMMA OrderedIs == Ordered <=> OrderedIn(given, ids)
BY DEF Ordered, OrderedIn, Writes, Steps, CallbackOf

(* What a callback under way writes next. *)
LEMMA UnderWrites ==
  ASSUME ScriptInv, StageInv, TodoInv, NEW g \in Generators, NEW id \in DOMAIN ids[g],
         Under(g, id)
  PROVE  /\ id \in should_run[g] /\ stage[g] = "running"
         /\ Len(CallbackOf(g, id)) - Len(todo[g][id]) + 1 \in DOMAIN CallbackOf(g, id)
         /\ Head(todo[g][id])
              = CallbackOf(g, id)[Len(CallbackOf(g, id)) - Len(todo[g][id]) + 1]
         /\ Head(todo[g][id]).writes \in Writes(g)
         /\ Head(todo[g][id]).writes \in Paths \cap Makes(g)
         /\ Head(todo[g][id]).reads \in Paths
<1> DEFINE steps == CallbackOf(g, id)
           i == Len(steps) - Len(todo[g][id]) + 1
<1>1. id \in DOMAIN todo[g] /\ todo[g][id] # <<>>
  BY DEF Under
<1>2. id \in should_run[g] /\ stage[g] = "running"
  BY <1>1 DEF StageInv, StageOf
<1>3. RestOf(steps, todo[g][id]) /\ Known(g, steps)
  BY <1>1, KnownCallback DEF TodoInv
<1> HIDE DEF steps
<1>4. i \in DOMAIN steps /\ Head(todo[g][id]) = steps[i]
  BY <1>1, <1>3, RestTail DEF Known
<1>5. steps[i] \in ToSet(steps)
  BY <1>4 DEF ToSet
<1>6. ToSet(steps) \subseteq Steps(g)
  BY DEF Steps, steps
<1>7. steps[i].writes \in Writes(g)
  BY <1>5, <1>6 DEF Writes
<1>8. steps[i].writes \in Paths \cap Makes(g) /\ steps[i].reads \in Paths
  BY <1>3, <1>4 DEF Known
<1> QED BY <1>2, <1>4, <1>7, <1>8 DEF steps

(* A generator that has made something is not disturbed by another. *)
LEMMA InputsHeld ==
  ASSUME ScriptInv, StageInv, TodoInv, Ordered, NEW g \in Generators,
         NEW h \in Generators \ {g},
         NEW i \in DOMAIN ids[h], Under(h, i), NEW content,
         Write(Head(todo[h][i]).writes, content),
         stage[g] = "running" \/ run_success[g] # {},
         NEW id \in DOMAIN ids[g]
  PROVE  \A p \in ids[g][id].inputs : files'[p] = files[p]
<1> DEFINE w == Head(todo[h][i]).writes
<1>1. stage[h] = "running" /\ w \in Writes(h)
  BY UnderWrites
<1>2. \A d \in Deps : d[2] = g => stage[d[1]] = "done"
  BY DEF StageInv, StageOf
<1>3. <<h, g>> \notin Deps
  BY <1>1, <1>2
<1>4. w \notin ids[g][id].inputs
  BY <1>1, <1>3 DEF Ordered
<1> HIDE DEF w
<1>5. \A p : p # w => files'[p] = files[p]
  BY DEF Write, w
<1> QED BY <1>4, <1>5

SettledOf(g) ==
  /\ stage[g] = "done" /\ g \in built => SettledIn(given, ids, g)
  /\ stage[g] = "running" /\ should_run[g] = {} /\ ~dirty[g] =>
       \E s \in stored[g] :
          DOMAIN s = DOMAIN ids[g] /\ \A id \in run_success[g] : s[id] = Entry(g, id)

(* Nothing has ended. *)
LEMMA SettledInvInit == Init => SettledInv
BY DEF Init, SettledInv

(* Entry is EntryIn of the script as it is. *)
LEMMA EntryIs ==
  ASSUME NEW g, NEW id
  PROVE  EntryIn(given, ids, g, id) = Entry(g, id)
BY DEF EntryIn, Entry

(* The entries of a generator, when its inputs are not written. *)
LEMMA EntriesHeld ==
  ASSUME UNCHANGED script, NEW g, NEW id,
         \A p \in ids[g][id].inputs : files'[p] = files[p]
  PROVE  Entry(g, id)' = Entry(g, id)
<1>1. ids'[g][id] = ids[g][id] /\ given'[g] = given[g]
  BY DEF script
<1>2. [path \in ids[g][id].inputs |-> files'[path].time]
        = [path \in ids[g][id].inputs |-> files[path].time]
  OBVIOUS
<1> QED BY <1>1, <1>2 DEF Entry

(* Settled stays settled while its inputs are not written. *)
LEMMA SettledHeld ==
  ASSUME UNCHANGED script, StageInv, NEW g \in Generators, SettledOf(g),
         UNCHANGED <<stage[g], should_run[g], dirty[g], stored[g], run_success[g]>>,
         \A id \in DOMAIN ids[g] : stage[g] = "running" \/ run_success[g] # {} =>
            \A p \in ids[g][id].inputs : files'[p] = files[p],
         stage[g] = "done" => run_success[g] = DOMAIN ids[g]
  PROVE  SettledOf(g)'
<1>1. UNCHANGED <<given, ids, built>> /\ run_success[g] \subseteq DOMAIN ids[g]
  BY DEF script, StageInv, StageOf
<1>2. ASSUME NEW id \in DOMAIN ids[g], stage[g] = "running" \/ run_success[g] # {}
      PROVE  Entry(g, id)' = Entry(g, id)
  BY <1>2, EntriesHeld
<1>3. CASE stage[g] = "done" /\ g \in built
  <2>1. PICK s \in stored[g] : DOMAIN s = DOMAIN ids[g]
               /\ \A id \in DOMAIN ids[g] : s[id] = Entry(g, id)
    BY <1>3, EntryIs DEF SettledOf, SettledIn
  <2>2. \A id \in DOMAIN ids[g] : s[id] = Entry(g, id)'
    BY <1>2, <1>3, <2>1
  <2>3. \A id \in DOMAIN ids[g] : s[id] = EntryIn(given, ids, g, id)'
    BY <2>2, <1>1 DEF EntryIn, Entry
  <2>4. SettledIn(given, ids, g)'
    BY <1>1, <2>1, <2>3 DEF SettledIn
  <2> QED BY <1>3, <2>4 DEF SettledOf
<1>4. CASE stage[g] = "running" /\ should_run[g] = {} /\ ~dirty[g]
  <2>1. PICK s \in stored[g] : DOMAIN s = DOMAIN ids[g]
               /\ \A id \in run_success[g] : s[id] = Entry(g, id)
    BY <1>4 DEF SettledOf
  <2>2. \A id \in run_success[g] : s[id] = Entry(g, id)'
    BY <1>1, <1>2, <1>4, <2>1
  <2> QED BY <1>1, <1>4, <2>1, <2>2 DEF SettledOf
<1> QED BY <1>1, <1>3, <1>4 DEF SettledOf

(* One step of the generator itself. *)
LEMMA OwnSettled ==
  ASSUME ScriptInv, StageInv, TodoInv, OnlyBuilt, SettledInv, Ordered,
         NEW g \in Generators, Generate(g), taskState' = "SUCCESS"
  PROVE  SettledOf(g)'
<1>0. StageOf(g) /\ StageOf(g)' /\ OnlyOf(g) /\ taskState = "SUCCESS"
      /\ SettledOf(g) /\ UNCHANGED <<script, given, ids, built>>
  BY GenerateFrame, OwnStage DEF OnlyOf, script, SettledInv, SettledOf, StageInv
<1>d. DOMAIN stage = Generators /\ DOMAIN waiting = Generators
      /\ DOMAIN todo = Generators
      /\ DOMAIN should_run = Generators /\ DOMAIN run_success = Generators
      /\ DOMAIN dirty = Generators /\ DOMAIN stored = Generators
  BY DEF StageInv
<1>r. ASSUME stage'[g] = "running", should_run'[g] # {} PROVE SettledOf(g)'
  BY <1>r DEF SettledOf
<1>1. CASE Begin(g)
  <2>1. /\ UNCHANGED <<stored, run_success>> /\ stage'[g] = "running"
        /\ dirty'[g] = \A s \in stored[g] : DOMAIN s # DOMAIN ids[g]
    BY <1>1, <1>d DEF Begin
  <2>2. run_success[g] = {}
    BY <1>0, <1>1 DEF Begin, StageOf
  <2> QED BY <1>0, <2>1, <2>2 DEF SettledOf
<1>2. CASE BeginSkips(g)
  BY <1>0, <1>2 DEF BeginSkips
<1>3. CASE Join(g)
  <2>1. /\ UNCHANGED <<run_success, files, should_run>> /\ stage'[g] = "done"
        /\ dirty'[g] = (dirty[g] \/ should_run[g] # {})
        /\ stored'[g] = IF dirty'[g] THEN {[id \in run_success[g] |-> Entry(g, id)]}
                        ELSE stored[g]
        /\ stage[g] = "running"
    BY <1>3, <1>d DEF Join
  <2>2. run_success[g] = DOMAIN ids[g]
    BY <1>0, <2>1 DEF StageOf
  <2>3. \A id : Entry(g, id) = EntryIn(given, ids, g, id)'
    BY <1>0, <2>1 DEF Entry, EntryIn
  <2>4. CASE dirty'[g]
    <3> DEFINE s == [id \in run_success[g] |-> Entry(g, id)]
    <3>1. s \in stored'[g]
      BY <2>1, <2>4
    <3>2. DOMAIN s = DOMAIN ids'[g]
          /\ \A id \in DOMAIN ids'[g] : s[id] = EntryIn(given, ids, g, id)'
      BY <1>0, <2>2, <2>3
    <3>3. SettledIn(given, ids, g)'
      BY <3>1, <3>2 DEF SettledIn
    <3> QED BY <2>1, <3>3 DEF SettledOf
  <2>5. CASE ~dirty'[g]
    <3>1. should_run[g] = {} /\ ~dirty[g] /\ stored'[g] = stored[g]
      BY <1>0, <2>1, <2>5 DEF StageOf
    <3>2. PICK s \in stored[g] : DOMAIN s = DOMAIN ids[g]
                 /\ \A id \in run_success[g] : s[id] = Entry(g, id)
      BY <1>0, <2>1, <3>1 DEF SettledOf
    <3>3. DOMAIN s = DOMAIN ids'[g]
          /\ \A id \in DOMAIN ids'[g] : s[id] = EntryIn(given, ids, g, id)'
      BY <1>0, <2>2, <2>3, <3>2
    <3>4. SettledIn(given, ids, g)'
      BY <3>1, <3>2, <3>3 DEF SettledIn
    <3> QED BY <2>1, <3>4 DEF SettledOf
  <2> QED BY <2>4, <2>5
<1>4. ASSUME NEW i \in DOMAIN ids[g], Check(g, i) PROVE SettledOf(g)'
  <2>1. stage' = stage /\ dirty' = dirty /\ files' = files /\ stored' = stored
        /\ i \in waiting[g]
    BY <1>4 DEF Check, Starts
  <2>2. stage[g] = "running"
    BY <1>0, <2>1 DEF StageOf
  <2>3. CASE Changed(g, i)
    <3>1. i \in should_run'[g]
      BY <1>4, <1>d, <2>3 DEF Check
    <3> QED BY <1>r, <2>1, <2>2, <3>1
  <2>4. CASE ~Changed(g, i)
    <3>1. should_run' = should_run /\ run_success'[g] = run_success[g] \cup {i}
      BY <1>4, <1>d, <2>4 DEF Check
    <3>2. PICK s \in stored[g] : i \in DOMAIN s /\ s[i] = Entry(g, i)
      BY <2>4 DEF Changed
    <3>3. stored[g] = {s}
      BY <1>0, <3>2 DEF StageOf
    <3>4. \A id : Entry(g, id)' = Entry(g, id)
      BY <1>0, <2>1 DEF Entry
    <3>5. should_run[g] = {} /\ ~dirty[g] =>
            DOMAIN s = DOMAIN ids[g] /\ \A id \in run_success[g] : s[id] = Entry(g, id)
      BY <1>0, <2>2, <3>3 DEF SettledOf
    <3>6. should_run'[g] = {} /\ ~dirty'[g] =>
            DOMAIN s = DOMAIN ids'[g]
              /\ \A id \in run_success'[g] : s[id] = Entry(g, id)'
      BY <1>0, <2>1, <3>1, <3>2, <3>4, <3>5
    <3>7. s \in stored'[g] /\ stage'[g] = "running"
      BY <2>1, <2>2, <3>2
    <3> QED BY <3>6, <3>7 DEF SettledOf
  <2> QED BY <2>3, <2>4
<1>5. ASSUME NEW i \in DOMAIN ids[g], CheckFails(g, i) \/ CheckSkips(g, i)
               \/ ExecuteFails(g, i)
      PROVE  SettledOf(g)'
  BY <1>0, <1>5 DEF CheckFails, CheckSkips, ExecuteFails
<1>6. ASSUME NEW i \in DOMAIN ids[g], Execute(g, i) \/ Return(g, i) PROVE SettledOf(g)'
  <2>1. i \in DOMAIN todo[g] /\ should_run' = should_run /\ stage' = stage
    BY <1>6 DEF Execute, Return, Under
  <2>2. stage[g] = "running" /\ should_run[g] # {}
    BY <1>0, <2>1 DEF StageOf
  <2> QED BY <1>r, <2>1, <2>2
<1> QED BY <1>1, <1>2, <1>3, <1>4, <1>5, <1>6 DEF Generate

(* One step per action: another generator writes none of the inputs. *)
LEMMA SettledInvNext ==
  ScriptInv /\ StageInv /\ TodoInv /\ OnlyBuilt /\ SettledInv /\ [Next]_vars
    => SettledInv'
<1> SUFFICES ASSUME ScriptInv, StageInv, TodoInv, OnlyBuilt, SettledInv, [Next]_vars,
                    taskState' = "SUCCESS", Ordered'
             PROVE  \A g \in Generators : SettledOf(g)'
  BY DEF SettledInv, SettledOf
<1>1. CASE Script
  <2>1. stage' = stage /\ \A g \in Generators : stage[g] = "none"
    BY <1>1, ScriptSteps DEF tasks, StageInv
  <2> QED BY <2>1 DEF SettledOf
<1>2. CASE Run
  BY <1>2 DEF Run, script, SettledOf
<1>3. CASE RunBuildEnds \/ UNCHANGED vars
  <2>1. UNCHANGED <<script, taskState, tasks, files, stored>>
    BY <1>3 DEF RunBuildEnds, vars
  <2>2. UNCHANGED <<command, given, ids, built, stage, should_run, run_success, dirty>>
    BY <2>1 DEF script, tasks
  <2>3. Ordered /\ taskState = "SUCCESS"
    BY <2>1, <2>2 DEF Ordered, Writes, Steps, CallbackOf, Callback
  <2> QED BY <2>1, <2>2, <2>3 DEF SettledInv, SettledOf, SettledIn, EntryIn, Entry
<1>4. CASE NextProcess
  BY <1>4 DEF NextProcess, NoTasks, SettledOf
<1>5. ASSUME NEW h \in Generators, Generate(h) PROVE \A g \in Generators : SettledOf(g)'
  <2>1. OnlyOf(h) /\ UNCHANGED script /\ taskState = "SUCCESS"
    BY <1>5, GenerateFrame DEF OnlyOf
  <2>2. Ordered
    BY <2>1 DEF script, Ordered, Writes, Steps, CallbackOf, Callback
  <2>3. SettledOf(h)'
    BY <1>5, <2>2, OwnSettled
  <2>4. ASSUME NEW g \in Generators \ {h} PROVE SettledOf(g)'
    <3>1. SettledOf(g) /\ StageOf(g)
      BY <2>1, <2>2 DEF SettledInv, SettledOf, StageInv
    <3>2. UNCHANGED <<stage[g], should_run[g], dirty[g], stored[g], run_success[g]>>
      BY <2>1 DEF OnlyOf
    <3>3. stage[g] = "done" => run_success[g] = DOMAIN ids[g]
      BY <2>1, <3>1 DEF StageOf
    <3>4. ASSUME NEW id \in DOMAIN ids[g], stage[g] = "running" \/ run_success[g] # {}
          PROVE  \A p \in ids[g][id].inputs : files'[p] = files[p]
      BY <1>5, <2>2, <3>4, GenerateWrites, InputsHeld
    <3> QED BY <2>1, <3>1, <3>2, <3>3, <3>4, SettledHeld
  <2> QED BY <2>3, <2>4
<1> QED BY <1>1, <1>2, <1>3, <1>4, <1>5, Steps4

(* No run yet. *)
LEMMA LastInvInit == Init => LastInv
BY DEF Init, LastInv

(* A generator at work on a script that succeeded and whose files are as then. *)
LEMMA OwnLast ==
  ASSUME ScriptInv, StageInv, OnlyBuilt, NEW g \in Generators, Generate(g),
         should_run[g] = {}, ~dirty[g], g \in built => SettledIn(given, ids, g)
  PROVE  /\ UNCHANGED <<files, stored>>
         /\ should_run'[g] = {} /\ ~dirty'[g]
<1>0. StageOf(g) /\ OnlyOf(g)
  BY GenerateFrame DEF StageInv
<1>1. g \in built
  BY <1>0 DEF OnlyOf, OnlyBuilt
<1>2. PICK s \in stored[g] : DOMAIN s = DOMAIN ids[g]
             /\ \A id \in DOMAIN ids[g] : s[id] = Entry(g, id)
  BY <1>1, EntryIs DEF SettledIn
<1>d. DOMAIN todo[g] = {} /\ DOMAIN dirty = Generators /\ DOMAIN should_run = Generators
  BY <1>0 DEF StageOf, StageInv
<1>3. CASE Begin(g)
  BY <1>2, <1>3, <1>d DEF Begin
<1>4. CASE BeginSkips(g)
  BY <1>4 DEF BeginSkips
<1>5. CASE Join(g)
  <2>1. dirty'[g] = (dirty[g] \/ should_run[g] # {}) /\ should_run' = should_run
          /\ files' = files
        /\ (~dirty'[g] => stored' = stored)
    BY <1>5, <1>d DEF Join
  <2> QED BY <2>1
<1>6. ASSUME NEW i \in DOMAIN ids[g], Check(g, i)
      PROVE  UNCHANGED <<files, stored, should_run, dirty>>
  <2>1. ~Changed(g, i)
    BY <1>2 DEF Changed
  <2> QED BY <1>6, <2>1 DEF Check
<1>7. ASSUME NEW i \in DOMAIN ids[g], CheckFails(g, i) \/ CheckSkips(g, i)
      PROVE  UNCHANGED <<files, stored, should_run, dirty>>
  BY <1>7 DEF CheckFails, CheckSkips
<1>8. ASSUME NEW i \in DOMAIN ids[g], Execute(g, i) \/ ExecuteFails(g, i)
               \/ Return(g, i)
      PROVE  FALSE
  BY <1>8, <1>d DEF Execute, ExecuteFails, Return, Under
<1> QED BY <1>3, <1>4, <1>5, <1>6, <1>7, <1>8 DEF Generate

(* The files and the schemas decide what is settled. *)
LEMMA SettledKept ==
  ASSUME UNCHANGED <<files, stored>>, NEW gv, NEW is, NEW g, SettledIn(gv, is, g)
  PROVE  SettledIn(gv, is, g)'
BY DEF SettledIn, EntryIn

(* Outside a build what succeeded stays settled. *)
LEMMA LastKept ==
  ASSUME LastInv, UNCHANGED <<files, stored>>, phase # "build", NEW x \in last,
         OrderedIn(x[2], x[3])
  PROVE  \A g \in x[4] : SettledIn(x[2], x[3], g)'
BY SettledKept DEF LastInv

(* One step per action. *)
LEMMA LastInvNext ==
  ScriptInv /\ StageInv /\ OnlyBuilt /\ SettledInv /\ LastInv /\ [Next]_vars => LastInv'
<1> SUFFICES ASSUME ScriptInv, StageInv, OnlyBuilt, SettledInv, LastInv, [Next]_vars,
                    NEW x \in last', OrderedIn(x[2], x[3]),
                    phase' = "build" => x = <<command', given', ids', built'>>
             PROVE  /\ \A g \in x[4] : SettledIn(x[2], x[3], g)'
                    /\ phase' = "build"
                         => \A g \in Generators : should_run'[g] = {} /\ ~dirty'[g]
  BY DEF LastInv, OrderedIn, Callback
<1>1. CASE Script
  <2>1. phase = "script" /\ phase' # "build" /\ UNCHANGED <<files, stored, last>>
    BY <1>1, ScriptSteps
  <2> QED BY <2>1, LastKept
<1>2. CASE Run
  <2>1. phase = "script" /\ UNCHANGED <<files, stored, last, should_run, dirty>>
    BY <1>2 DEF Run
  <2>2. \A g \in Generators : should_run[g] = {} /\ ~dirty[g]
    BY <2>1 DEF StageInv, StageOf
  <2> QED BY <2>1, <2>2, LastKept
<1>3. CASE RunBuildEnds
  <2>1. /\ UNCHANGED <<command, given, ids, built, taskState, stage, files, stored>>
        /\ phase' # "build" /\ \A g \in Generators : stage[g] = "done"
        /\ taskState = "SUCCESS" /\ x = <<command, given, ids, built>>
    BY <1>3 DEF RunBuildEnds, script, tasks
  <2>2. x[2] = given /\ x[3] = ids /\ x[4] = built
    BY <2>1
  <2>3. Ordered
    BY <2>2, OrderedIs
  <2>4. \A g \in built : SettledIn(given, ids, g)
    BY <2>1, <2>3 DEF SettledInv, ScriptInv
  <2>5. \A g \in built : SettledIn(given, ids, g)'
    BY <2>1, <2>4 DEF SettledIn, EntryIn
  <2> QED BY <2>1, <2>2, <2>4 DEF SettledIn, EntryIn
<1>4. CASE NextProcess
  <2>1. phase # "build" /\ phase' = "script" /\ stored' = stored
    BY <1>4 DEF NextProcess, NewScript
  <2>2. files' = files /\ last' = last
    BY <1>4 DEF NextProcess, Save
  <2> QED BY <2>1, <2>2, LastKept
<1>5. CASE UNCHANGED vars
  <2>1. UNCHANGED <<command, given, ids, built, phase, files, stored, last, should_run,
          dirty>>
    BY <1>5 DEF vars, script, tasks
  <2>2. /\ \A g \in x[4] : SettledIn(x[2], x[3], g)
        /\ phase = "build" => \A g \in Generators : should_run[g] = {} /\ ~dirty[g]
    BY <2>1 DEF LastInv
  <2> QED BY <2>1, <2>2, SettledKept
<1>6. ASSUME NEW h \in Generators, Generate(h)
      PROVE  /\ \A g \in x[4] : SettledIn(x[2], x[3], g)'
             /\ phase' = "build"
                  => \A g \in Generators : should_run'[g] = {} /\ ~dirty'[g]
  <2>1. OnlyOf(h) /\ UNCHANGED <<command, given, ids, built, phase, last>>
    BY <1>6, GenerateFrame DEF OnlyOf, script
  <2>2. phase = "build"
    BY <2>1 DEF OnlyOf, StageInv
  <2>3. x = <<command, given, ids, built>>
    BY <2>1, <2>2
  <2>4. x[2] = given /\ x[3] = ids /\ x[4] = built /\ x \in last
    BY <2>1, <2>3
  <2>5. /\ \A g \in built : SettledIn(given, ids, g)
        /\ \A g \in Generators : should_run[g] = {} /\ ~dirty[g]
    BY <2>2, <2>3, <2>4 DEF LastInv
  <2>6. UNCHANGED <<files, stored>> /\ should_run'[h] = {} /\ ~dirty'[h]
    BY <1>6, <2>5, OwnLast
  <2>7. \A g \in built : SettledIn(given, ids, g)'
    BY <2>1, <2>5, <2>6 DEF SettledIn, EntryIn
  <2>8. \A g \in Generators \ {h} : should_run'[g] = {} /\ ~dirty'[g]
    BY <2>1, <2>5 DEF OnlyOf
  <2>9. \A g \in x[4] : SettledIn(x[2], x[3], g)'
    BY <2>4, <2>5, <2>6, SettledKept
  <2> QED BY <2>6, <2>8, <2>9
<1> QED BY <1>1, <1>2, <1>3, <1>4, <1>5, <1>6, Steps4

(* A script that is run again after it succeeded, with nothing saved    *)
(* meanwhile, runs no command, fills in no template and stores nothing, *)
(* if generators wait for those whose outputs they read.                *)
THEOREM NothingRunsAgain == Spec => []RunsNothingAgain
<1>1. Init => SettledInv /\ LastInv
  BY SettledInvInit, LastInvInit
<1>2. TaskInv /\ SettledInv /\ LastInv /\ [Next]_vars => SettledInv' /\ LastInv'
  BY SettledInvNext, LastInvNext DEF TaskInv
<1>3. LastInv => RunsNothingAgain
  <2> SUFFICES ASSUME LastInv, phase = "build", last = {<<command, given, ids, built>>},
                      Ordered
               PROVE  \A g \in Generators : should_run[g] = {} /\ ~dirty[g]
    BY DEF RunsNothingAgain
  <2> DEFINE x == <<command, given, ids, built>>
  <2>1. x \in last /\ x[2] = given /\ x[3] = ids
    OBVIOUS
  <2>2. OrderedIn(x[2], x[3])
    BY <2>1, OrderedIs
  <2> QED BY <2>1, <2>2 DEF LastInv
<1> QED BY <1>1, <1>2, <1>3, TaskInvHolds, PTL DEF Spec

-----------------------------------------------------------------------------
(* Steps stay made. *)

(* The two lists of what a generator makes. *)
LEMMA StoresApart ==
  ASSUME MakesInv, NEW g \in Generators
  PROVE  Distinct(given[g].commands) /\ Distinct(given[g].templates)
BY DEF MakesInv

(* No two steps of a callback write one file. *)
LEMMA StepsApart ==
  ASSUME ScriptInv, MakesInv, NEW g \in Generators, NEW id \in DOMAIN ids[g]
  PROVE  Distinct(CallbackOf(g, id))
<1>1. CASE Kind[g] = "file"
  BY <1>1, StoresApart DEF CallbackOf, Callback
<1>2. CASE Kind[g] = "template"
  <2>1. PICK step : CallbackOf(g, id) = <<step>>
    BY <1>2 DEF CallbackOf, Callback
  <2>2. DOMAIN <<step>> = {1}
    OBVIOUS
  <2> QED BY <2>1, <2>2 DEF Distinct
<1> QED BY <1>1, <1>2, KindAssumption

(* The one step of a template. *)
LEMMA TemplateStep ==
  ASSUME ScriptInv, NEW g \in Generators, Kind[g] = "template",
         NEW id \in DOMAIN ids[g],
         NEW i \in DOMAIN CallbackOf(g, id)
  PROVE  \E j \in DOMAIN given[g].templates :
           given[g].templates[j].reads = id
           /\ given[g].templates[j].writes = CallbackOf(g, id)[i].writes
<1> DEFINE ins == ids[g][id].inputs
           outs == ids[g][id].outputs
           step == [reads |-> CHOOSE path \in ins : TRUE,
             writes |-> CHOOSE path \in outs : TRUE]
<1>1. GeneratorGiven(g)
  BY DEF ScriptInv
<1>2. /\ outs # {}
      /\ \A w \in outs : \E t \in Templates(g) : t.reads = id /\ t.writes = w
  BY <1>1 DEF GeneratorGiven
<1>3. CallbackOf(g, id) = <<step>>
  BY DEF CallbackOf, Callback
<1>4. step.writes \in outs
  BY <1>2
<1> HIDE DEF step, ins, outs
<1>5. CallbackOf(g, id)[i] = step
  BY <1>3
<1>6. PICK t \in Templates(g) : t.reads = id /\ t.writes = step.writes
  BY <1>2, <1>4
<1>7. PICK j \in DOMAIN given[g].templates : t = given[g].templates[j]
  BY <1>6 DEF Templates, ToSet
<1> QED BY <1>5, <1>6, <1>7

(* Nor do the callbacks of two ids. *)
LEMMA IdsApart ==
  ASSUME ScriptInv, MakesInv, NEW g \in Generators, NEW id \in DOMAIN ids[g],
         NEW other \in DOMAIN ids[g], id # other,
         NEW i \in DOMAIN CallbackOf(g, id), NEW j \in DOMAIN CallbackOf(g, other)
  PROVE  CallbackOf(g, id)[i].writes # CallbackOf(g, other)[j].writes
<1>1. GeneratorGiven(g)
  BY DEF ScriptInv
<1>2. CASE Kind[g] = "file"
  BY <1>1, <1>2 DEF GeneratorGiven
<1>3. CASE Kind[g] = "template"
  <2>1. PICK k \in DOMAIN given[g].templates :
          given[g].templates[k].reads = id
          /\ given[g].templates[k].writes = CallbackOf(g, id)[i].writes
    BY <1>3, TemplateStep
  <2>2. PICK l \in DOMAIN given[g].templates :
          given[g].templates[l].reads = other
          /\ given[g].templates[l].writes = CallbackOf(g, other)[j].writes
    BY <1>3, TemplateStep
  <2>3. Distinct(given[g].templates)
    BY StoresApart
  <2> QED BY <2>1, <2>2, <2>3 DEF Distinct
<1> QED BY <1>2, <1>3, KindAssumption

(* A write of another file. *)
LEMMA Untouched ==
  ASSUME NEW g, NEW step, Good(g, step), NEW w, NEW content, Write(w, content),
         w # step.writes, w # step.reads
  PROVE  Good(g, step)'
<1>1. files'[step.writes] = files[step.writes] /\ files'[step.reads] = files[step.reads]
  BY DEF Write
<1> QED BY <1>1 DEF Good

(* Where the input of a step that is followed comes from. *)
LEMMA FollowedInput ==
  ASSUME NEW g, NEW inputs, NEW steps, NEW i, Followed(g, inputs, steps, i)
  PROVE  \/ /\ steps[i].reads \in inputs /\ steps[i].reads \notin Makes(g)
            /\ \A h \in Generators \ {g} : steps[i].reads \in Makes(h)
                                             => <<h, g>> \in Deps
         \/ /\ \E j \in DOMAIN steps : steps[j].writes = steps[i].reads
            /\ \A j \in DOMAIN steps : steps[j].writes = steps[i].reads => j < i
            /\ \A h \in Generators \ {g} : steps[i].reads \notin Makes(h)
BY DEF Followed

(* The files of the step are left alone. *)
LEMMA StepHeld ==
  ASSUME UNCHANGED script, NEW g, NEW id, NEW i, StepGood(g, id, i),
         Followed(g, ids[g][id].inputs, CallbackOf(g, id), i) =>
           /\ files'[CallbackOf(g, id)[i].writes] = files[CallbackOf(g, id)[i].writes]
           /\ files'[CallbackOf(g, id)[i].reads] = files[CallbackOf(g, id)[i].reads]
  PROVE  StepGood(g, id, i)'
<1>1. ids' = ids /\ given' = given
  BY DEF script
<1>2. CallbackOf(g, id)' = CallbackOf(g, id)
  BY <1>1 DEF CallbackOf, Callback
<1>3. PICK steps, inputs : steps = CallbackOf(g, id) /\ inputs = ids[g][id].inputs
  OBVIOUS
<1>4. steps = CallbackOf(g, id)' /\ inputs = ids'[g][id].inputs
  BY <1>1, <1>2, <1>3
<1>5. Followed(g, inputs, steps, i) => Good(g, steps[i])
  BY <1>3 DEF StepGood
<1>6. Followed(g, inputs, steps, i) =>
        /\ files'[steps[i].writes] = files[steps[i].writes]
        /\ files'[steps[i].reads] = files[steps[i].reads]
  BY <1>3
<1>7. Followed(g, inputs, steps, i) => Good(g, steps[i])'
  BY <1>5, <1>6 DEF Good
<1> QED BY <1>4, <1>7 DEF StepGood

(* What was made stays so while another id is made. *)
LEMMA WritesElsewhere ==
  ASSUME OneMaker, ScriptInv, MakesInv, StageInv, TodoInv,
         NEW g \in Generators, NEW id \in DOMAIN ids[g],
         NEW i \in DOMAIN CallbackOf(g, id),
         stage[g] = "running" \/ run_success[g] # {},
         Followed(g, ids[g][id].inputs, CallbackOf(g, id), i),
         NEW h \in Generators, NEW other \in DOMAIN ids[h], Under(h, other),
         h # g \/ other # id
  PROVE  Head(todo[h][other]).writes
           \notin {CallbackOf(g, id)[i].writes, CallbackOf(g, id)[i].reads}
<1> DEFINE steps == CallbackOf(g, id)
           k == Len(CallbackOf(h, other)) - Len(todo[h][other]) + 1
           w == Head(todo[h][other]).writes
<1>1. /\ stage[h] = "running" /\ k \in DOMAIN CallbackOf(h, other)
      /\ w = CallbackOf(h, other)[k].writes /\ w \in Makes(h)
  BY UnderWrites
<1>2. Known(g, steps)
  BY KnownCallback
<1>3. \A j \in DOMAIN steps : w # steps[j].writes
  <2>1. CASE h = g
    <3>1. other \in DOMAIN ids[g] /\ other # id /\ k \in DOMAIN CallbackOf(g, other)
          /\ w = CallbackOf(g, other)[k].writes
      BY <1>1, <2>1
    <3> HIDE DEF w, k
    <3> QED BY <3>1, IdsApart
  <2>2. CASE h # g
    BY <1>1, <1>2, <2>2 DEF OneMaker, Known
  <2> QED BY <2>1, <2>2
<1>4. \A d \in Deps : d[2] = g => stage[d[1]] = "done"
  BY DEF StageInv, StageOf
<1>5. h # g => <<h, g>> \notin Deps
  BY <1>1, <1>4
<1> HIDE DEF steps, w, k
<1>6. w # steps[i].reads
  BY <1>1, <1>3, <1>5, FollowedInput DEF steps
<1> QED BY <1>3, <1>6 DEF steps, w

(* So it stays made. *)
LEMMA StepKept ==
  ASSUME OneMaker, ScriptInv, MakesInv, StageInv, TodoInv, UNCHANGED script,
         NEW g \in Generators, NEW id \in DOMAIN ids[g],
         NEW i \in DOMAIN CallbackOf(g, id),
         stage[g] = "running" \/ run_success[g] # {},
         StepGood(g, id, i),
         NEW h \in Generators, NEW other \in DOMAIN ids[h], Under(h, other),
         h # g \/ other # id,
         NEW content, Write(Head(todo[h][other]).writes, content)
  PROVE  StepGood(g, id, i)'
<1>1. ASSUME Followed(g, ids[g][id].inputs, CallbackOf(g, id), i)
      PROVE  /\ files'[CallbackOf(g, id)[i].writes] = files[CallbackOf(g, id)[i].writes]
             /\ files'[CallbackOf(g, id)[i].reads] = files[CallbackOf(g, id)[i].reads]
  <2>1. Head(todo[h][other]).writes
           \notin {CallbackOf(g, id)[i].writes, CallbackOf(g, id)[i].reads}
    BY <1>1, WritesElsewhere
  <2> QED BY <2>1 DEF Write
<1> QED BY <1>1, StepHeld

-----------------------------------------------------------------------------
(* What has succeeded, and what is under way. *)

DoneOf(g) ==
  \A id \in run_success[g] : \A i \in DOMAIN CallbackOf(g, id) : StepGood(g, id, i)

UnderOf(g) ==
  \A id \in DOMAIN todo[g] :
    \A i \in DOMAIN CallbackOf(g, id) :
      i <= Len(CallbackOf(g, id)) - Len(todo[g][id]) => StepGood(g, id, i)

(* Nothing is stored or made yet. *)
LEMMA DoneInit == Init => DoneInv /\ UnderInv /\ EntryInv
BY NothingGiven DEF Init, DoneInv, UnderInv, EntryInv

(* The callbacks are those of the script. *)
LEMMA CallbackHeld ==
  ASSUME UNCHANGED script, NEW g, NEW id
  PROVE  CallbackOf(g, id)' = CallbackOf(g, id) /\ ids' = ids /\ given' = given
BY DEF script, CallbackOf, Callback

(* No file is written. *)
LEMMA StepSame ==
  ASSUME UNCHANGED script, UNCHANGED files, NEW g, NEW id, NEW i, StepGood(g, id, i)
  PROVE  StepGood(g, id, i)'
BY StepHeld

(* Steps of other generators. *)
LEMMA OthersGood ==
  ASSUME OneMaker, ScriptInv, MakesInv, StageInv, TodoInv, DoneInv, UnderInv,
         NEW h \in Generators, Generate(h), NEW g \in Generators \ {h}
  PROVE  DoneOf(g)' /\ UnderOf(g)'
<1>0. OnlyOf(h) /\ StageOf(g)
  BY GenerateFrame DEF StageInv
<1>1. /\ UNCHANGED script /\ run_success'[g] = run_success[g] /\ todo'[g] = todo[g]
      /\ StageOf(g) /\ DOMAIN todo[g] \subseteq DOMAIN ids[g]
      /\ run_success[g] \subseteq DOMAIN ids[g]
  BY <1>0 DEF OnlyOf, StageOf
<1>2. ASSUME NEW id \in DOMAIN ids[g], NEW i \in DOMAIN CallbackOf(g, id),
             stage[g] = "running" \/ run_success[g] # {}, StepGood(g, id, i)
      PROVE  StepGood(g, id, i)'
  <2>1. CASE UNCHANGED files
    BY <1>1, <1>2, <2>1, StepSame
  <2>2. ASSUME NEW other \in DOMAIN ids[h], NEW content, Under(h, other),
               Write(Head(todo[h][other]).writes, content)
        PROVE  StepGood(g, id, i)'
    BY <1>1, <1>2, <2>2, StepKept
  <2> QED BY <2>1, <2>2, GenerateWrites
<1>3. DoneOf(g)'
  <2> SUFFICES ASSUME NEW id \in run_success'[g], NEW i \in DOMAIN CallbackOf(g, id)'
               PROVE  StepGood(g, id, i)'
    BY DEF DoneOf
  <2>1. id \in run_success[g] /\ i \in DOMAIN CallbackOf(g, id) /\ id \in DOMAIN ids[g]
    BY <1>1, CallbackHeld
  <2>2. StepGood(g, id, i)
    BY <2>1 DEF DoneInv
  <2> QED BY <1>2, <2>1, <2>2
<1>4. UnderOf(g)'
  <2> SUFFICES ASSUME NEW id \in DOMAIN todo'[g], NEW i \in DOMAIN CallbackOf(g, id)',
                      i <= Len(CallbackOf(g, id)') - Len(todo'[g][id])
               PROVE  StepGood(g, id, i)'
    BY DEF UnderOf
  <2>1. id \in DOMAIN todo[g] /\ id \in DOMAIN ids[g]
    BY <1>1
  <2>2. i \in DOMAIN CallbackOf(g, id) /\ i <= Len(CallbackOf(g, id)) - Len(todo[g][id])
    BY <1>1, CallbackHeld
  <2>3. StepGood(g, id, i)
    BY <2>1, <2>2 DEF UnderInv
  <2>4. stage[g] = "running"
    BY <1>1, <2>1 DEF StageOf
  <2> QED BY <1>2, <2>1, <2>2, <2>3, <2>4
<1> QED BY <1>3, <1>4

(* A number is not before itself. *)
LEMMA NotBefore == \A n \in Nat : ~(n < n)
OBVIOUS

(* The step that is executed. *)
LEMMA JustMade ==
  ASSUME OneMaker, ScriptInv, MakesInv, StageInv, TodoInv,
         NEW g \in Generators, NEW id \in DOMAIN ids[g], Execute(g, id),
         UNCHANGED script, FilesInv,
         NEW k, k = Len(CallbackOf(g, id)) - Len(todo[g][id]) + 1
  PROVE  StepGood(g, id, k)'
<1>1. Under(g, id)
  BY DEF Execute
<1>2. k \in DOMAIN CallbackOf(g, id) /\ Head(todo[g][id]) = CallbackOf(g, id)[k]
      /\ CallbackOf(g, id)[k].writes \in Paths \cap Makes(g)
      /\ Len(CallbackOf(g, id)) \in Nat
      /\ DOMAIN CallbackOf(g, id) \subseteq Nat
  <2>1. IsSeq(CallbackOf(g, id))
    BY KnownCallback DEF Known
  <2>2. Len(CallbackOf(g, id)) \in Nat /\ DOMAIN CallbackOf(g, id) \subseteq Nat
    BY <2>1 DEF IsSeq
  <2>3. Head(todo[g][id]).writes \in Paths \cap Makes(g)
        /\ k \in DOMAIN CallbackOf(g, id)
        /\ Head(todo[g][id]) = CallbackOf(g, id)[k]
    BY <1>1, UnderWrites
  <2> QED BY <2>2, <2>3
<1>3. PICK steps, inputs : steps = CallbackOf(g, id) /\ inputs = ids[g][id].inputs
  OBVIOUS
<1>4. steps = CallbackOf(g, id)' /\ inputs = ids'[g][id].inputs
  BY <1>3, CallbackHeld
<1>6. PICK values \in Values(g, steps[k]) :
             Write(steps[k].writes, Content(steps[k], values))
  BY <1>2, <1>3 DEF Execute
<1>7. ASSUME Followed(g, inputs, steps, k) PROVE steps[k].reads # steps[k].writes
  <2>1. k \in DOMAIN steps /\ steps[k].writes \in Makes(g)
    BY <1>2, <1>3
  <2>2. k \in Nat
    BY <1>2
  <2>3. ~(k < k)
    BY <2>2, NotBefore
  <2> QED BY <1>7, <2>1, <2>3, FollowedInput
<1>8. ASSUME Followed(g, inputs, steps, k) PROVE Good(g, steps[k])'
  <2>1. files'[steps[k].reads] = files[steps[k].reads]
    BY <1>6, <1>7, <1>8 DEF Write
  <2>2. files'[steps[k].writes].content = Content(steps[k], values)
    BY <1>2, <1>3, <1>6, Written DEF FilesInv
  <2>3. Kind[g] = "file" => values = steps[k].with
    BY <1>6 DEF Values
  <2>4. Content(steps[k], values).from = <<files[steps[k].reads].content>>
        /\ Content(steps[k], values).with = values
    BY DEF Content
  <2> QED BY <2>1, <2>2, <2>3, <2>4 DEF Good
<1> QED BY <1>4, <1>8 DEF StepGood

(* What a stored entry that has not changed says. *)
LEMMA UnchangedGood ==
  ASSUME ScriptInv, MakesInv, StageInv, EntryInv,
         NEW g \in Generators, NEW id \in waiting[g], stage[g] = "running",
         ~Changed(g, id),
         NEW i \in DOMAIN CallbackOf(g, id)
  PROVE  StepGood(g, id, i)
<1> SUFFICES ASSUME Followed(g, ids[g][id].inputs, CallbackOf(g, id), i)
             PROVE  Good(g, CallbackOf(g, id)[i])
  BY DEF StepGood
<1>1. PICK s \in stored[g] : id \in DOMAIN s /\ s[id] = Entry(g, id)
  BY DEF Changed
<1> DEFINE e == Entry(g, id)
<1>2. EntryGood(g, id, e)
  BY <1>1 DEF EntryInv
<1>3. /\ DOMAIN e.inputs = ids[g][id].inputs
      /\ \A p \in DOMAIN e.inputs : e.inputs[p] = files[p].time
      /\ e.outputs = ids[g][id].outputs /\ e.blob = given[g].commands
  BY DEF Entry
<1> HIDE DEF e
<1>4. EntrySteps(g, e) = CallbackOf(g, id)
  BY <1>3 DEF EntrySteps, CallbackOf
<1>5. id \notin should_run[g] /\ should_run[g] \subseteq DOMAIN ids[g]
      /\ id \in DOMAIN ids[g]
  BY DEF StageInv, StageOf
<1>6. CallbackOf(g, id)[i].writes \notin WritesOf(g, should_run[g])
  <2>1. ASSUME NEW other \in should_run[g], NEW step \in ToSet(CallbackOf(g, other))
        PROVE  CallbackOf(g, id)[i].writes # step.writes
    <3>1. PICK j \in DOMAIN CallbackOf(g, other) : step = CallbackOf(g, other)[j]
      BY DEF ToSet
    <3> QED BY <1>5, <3>1, IdsApart
  <2> QED BY <2>1 DEF WritesOf
<1>7. ~MadeNow(g, id, CallbackOf(g, id)[i].writes)
  BY <1>5, <1>6 DEF MadeNow
<1>8. /\ Followed(g, DOMAIN e.inputs, EntrySteps(g, e), i)
      /\ i \in DOMAIN EntrySteps(g, e)
      /\ EntrySteps(g, e)[i].reads \in DOMAIN e.inputs =>
           e.inputs[EntrySteps(g, e)[i].reads] = files[EntrySteps(g, e)[i].reads].time
      /\ ~MadeNow(g, id, EntrySteps(g, e)[i].writes)
  BY <1>3, <1>4, <1>7
<1>9. Good(g, EntrySteps(g, e)[i])
  BY <1>2, <1>8 DEF EntryGood
<1> QED BY <1>4, <1>9

(* A step of the generator that leaves the files alone, but for todo and run_success. *)
LEMMA OwnGood ==
  ASSUME OneMaker, ScriptInv, MakesInv, StageInv, TodoInv, FilesInv, DoneInv, UnderInv,
         EntryInv,
         NEW g \in Generators, Generate(g)
  PROVE  DoneOf(g)' /\ UnderOf(g)'
<1>0. OnlyOf(g) /\ StageOf(g) /\ UNCHANGED script /\ DOMAIN todo = Generators
      /\ DOMAIN run_success = Generators
  BY GenerateFrame DEF OnlyOf, StageInv
<1>1. DoneOf(g) /\ UnderOf(g) /\ DOMAIN todo[g] \subseteq DOMAIN ids[g]
      /\ run_success[g] \subseteq DOMAIN ids[g]
  BY <1>0 DEF DoneInv, UnderInv, DoneOf, UnderOf, StageOf
<1>c. \A id : CallbackOf(g, id)' = CallbackOf(g, id)
  BY <1>0, CallbackHeld
<1>f. ASSUME UNCHANGED files, NEW id, NEW i, StepGood(g, id, i)
      PROVE  StepGood(g, id, i)'
  BY <1>0, <1>f, StepSame
<1>d. ASSUME UNCHANGED <<files, run_success>> PROVE DoneOf(g)'
  BY <1>1, <1>c, <1>d, <1>f DEF DoneOf
<1>u. ASSUME UNCHANGED files,
             \A id \in DOMAIN todo'[g] : id \in DOMAIN todo[g]
                                           /\ todo'[g][id] = todo[g][id]
      PROVE  UnderOf(g)'
  BY <1>1, <1>c, <1>u, <1>f DEF UnderOf
<1>2. CASE Begin(g) \/ BeginSkips(g) \/ Join(g)
  <2>1. UNCHANGED <<files, run_success, todo>>
    BY <1>2 DEF Begin, BeginSkips, Join
  <2> QED BY <1>d, <1>u, <2>1
<1>3. ASSUME NEW id \in DOMAIN ids[g], CheckFails(g, id) \/ CheckSkips(g, id)
      PROVE  DoneOf(g)' /\ UnderOf(g)'
  <2>1. UNCHANGED <<files, run_success, todo>>
    BY <1>3 DEF CheckFails, CheckSkips
  <2> QED BY <1>d, <1>u, <2>1
<1>4. ASSUME NEW id \in DOMAIN ids[g], Check(g, id) PROVE DoneOf(g)' /\ UnderOf(g)'
  <2>1. UNCHANGED files /\ id \in waiting[g] /\ stage[g] = "running"
    BY <1>0, <1>4 DEF Check, Starts, StageOf
  <2>2. CASE Changed(g, id)
    <3>1. run_success' = run_success /\ todo'[g] = With(todo[g], id, CallbackOf(g, id))
      BY <1>0, <1>4, <2>2 DEF Check
    <3>2. DOMAIN todo'[g] = DOMAIN todo[g] \cup {id} /\ todo'[g][id] = CallbackOf(g, id)
          /\ \A o \in DOMAIN todo[g] \ {id} : todo'[g][o] = todo[g][o]
      BY <3>1 DEF With
    <3>3. \A i \in DOMAIN CallbackOf(g, id) :
            ~(i <= Len(CallbackOf(g, id)) - Len(CallbackOf(g, id)))
      <4>1. IsSeq(CallbackOf(g, id))
        BY KnownCallback DEF Known
      <4> DEFINE n == Len(CallbackOf(g, id))
      <4>2. n \in Nat /\ DOMAIN CallbackOf(g, id) = 1..n
        BY <4>1 DEF IsSeq
      <4> HIDE DEF n
      <4>3. n - n = 0
        BY <4>2
      <4>4. \A i \in 1..n : ~(i <= n - n)
        BY <4>2, <4>3
      <4> QED BY <4>2, <4>4 DEF n
    <3>4. UnderOf(g)'
      <4> SUFFICES ASSUME NEW o \in DOMAIN todo'[g], NEW i \in DOMAIN CallbackOf(g, o)',
                          i <= Len(CallbackOf(g, o)') - Len(todo'[g][o])
                   PROVE  StepGood(g, o, i)'
        BY DEF UnderOf
      <4>1. i \in DOMAIN CallbackOf(g, o)
            /\ i <= Len(CallbackOf(g, o)) - Len(todo'[g][o])
        BY <1>c
      <4>2. o # id
        BY <3>2, <3>3, <4>1
      <4>3. o \in DOMAIN todo[g] /\ todo'[g][o] = todo[g][o]
        BY <3>2, <4>2
      <4>4. StepGood(g, o, i)
        BY <1>1, <4>1, <4>3 DEF UnderOf
      <4> QED BY <1>f, <2>1, <4>4
    <3> QED BY <1>d, <2>1, <3>1, <3>4
  <2>3. CASE ~Changed(g, id)
    <3>1. todo' = todo /\ run_success'[g] = run_success[g] \cup {id}
      BY <1>0, <1>4, <2>3 DEF Check
    <3>2. \A i \in DOMAIN CallbackOf(g, id) : StepGood(g, id, i)
      BY <2>1, <2>3, UnchangedGood
    <3>3. DoneOf(g)'
      BY <1>1, <1>c, <1>f, <2>1, <3>1, <3>2 DEF DoneOf
    <3> QED BY <1>u, <2>1, <3>1, <3>3
  <2> QED BY <2>2, <2>3
<1>5. ASSUME NEW id \in DOMAIN ids[g], Return(g, id) PROVE DoneOf(g)' /\ UnderOf(g)'
  <2>1. UNCHANGED files /\ id \in DOMAIN todo[g] /\ todo[g][id] = <<>>
        /\ todo'[g] = Without(todo[g], id) /\ run_success'[g] = run_success[g] \cup {id}
    BY <1>0, <1>5 DEF Return
  <2>2. \A i \in DOMAIN CallbackOf(g, id) :
          i <= Len(CallbackOf(g, id)) - Len(todo[g][id])
    <3>1. IsSeq(CallbackOf(g, id))
      BY KnownCallback DEF Known
    <3> DEFINE n == Len(CallbackOf(g, id))
    <3>2. n \in Nat /\ DOMAIN CallbackOf(g, id) = 1..n
      BY <3>1 DEF IsSeq
    <3>3. Len(todo[g][id]) = 0
      BY <2>1
    <3> HIDE DEF n
    <3>4. \A i \in 1..n : i <= n - 0
      BY <3>2
    <3> QED BY <3>2, <3>3, <3>4 DEF n
  <2>3. \A i \in DOMAIN CallbackOf(g, id) : StepGood(g, id, i)
    BY <1>1, <2>1, <2>2 DEF UnderOf
  <2>4. DoneOf(g)'
    BY <1>1, <1>c, <1>f, <2>1, <2>3 DEF DoneOf
  <2>5. UnderOf(g)'
    BY <1>u, <2>1 DEF Without
  <2> QED BY <2>4, <2>5
<1>6. ASSUME NEW id \in DOMAIN ids[g], Execute(g, id) \/ ExecuteFails(g, id)
      PROVE  DoneOf(g)' /\ UnderOf(g)'
  <2>1. Under(g, id) /\ id \in DOMAIN todo[g] /\ run_success' = run_success
        /\ stage[g] = "running"
    BY <1>0, <1>6 DEF Execute, ExecuteFails, Under, StageOf
  <2>2. ASSUME NEW o \in DOMAIN ids[g] \ {id}, NEW i \in DOMAIN CallbackOf(g, o),
               StepGood(g, o, i)
        PROVE  StepGood(g, o, i)'
    <3>1. CASE UNCHANGED files
      BY <1>f, <2>2, <3>1
    <3>2. ASSUME NEW content, Write(Head(todo[g][id]).writes, content)
          PROVE  StepGood(g, o, i)'
      BY <1>0, <2>1, <2>2, <3>2, StepKept
    <3> QED BY <1>6, <3>1, <3>2 DEF Execute, ExecuteFails
  <2>3. DoneOf(g)'
    BY <1>0, <1>1, <1>c, <2>1, <2>2 DEF DoneOf, StageOf
  <2>4. ASSUME NEW o \in DOMAIN todo'[g], o # id, o \in DOMAIN todo[g],
               todo'[g][o] = todo[g][o],
               NEW i \in DOMAIN CallbackOf(g, o)',
               i <= Len(CallbackOf(g, o)') - Len(todo'[g][o])
        PROVE  StepGood(g, o, i)'
    <3>1. i \in DOMAIN CallbackOf(g, o) /\ i <= Len(CallbackOf(g, o)) - Len(todo[g][o])
      BY <1>c, <2>4
    <3>2. StepGood(g, o, i)
      BY <1>1, <2>4, <3>1 DEF UnderOf
    <3> QED BY <1>1, <2>2, <2>4, <3>1, <3>2
  <2>5. CASE ExecuteFails(g, id)
    <3>1. todo'[g] = Without(todo[g], id)
      BY <1>0, <2>5 DEF ExecuteFails
    <3>2. \A o \in DOMAIN todo'[g] : o # id /\ o \in DOMAIN todo[g]
                                       /\ todo'[g][o] = todo[g][o]
      BY <3>1 DEF Without
    <3>3. UnderOf(g)'
      BY <2>4, <3>2 DEF UnderOf
    <3> QED BY <2>3, <3>3
  <2>6. CASE Execute(g, id)
    <3> DEFINE steps == CallbackOf(g, id)
               k == Len(steps) - Len(todo[g][id]) + 1
    <3>1. todo' = [todo EXCEPT ![g][id] = Tail(@)]
      BY <2>6 DEF Execute
    <3>2. DOMAIN todo'[g] = DOMAIN todo[g] /\ todo'[g][id] = Tail(todo[g][id])
          /\ \A o \in DOMAIN todo[g] \ {id} : todo'[g][o] = todo[g][o]
      BY <1>0, <2>1, <3>1
    <3>3. ASSUME NEW i \in DOMAIN CallbackOf(g, id)',
                 i <= Len(CallbackOf(g, id)') - Len(todo'[g][id])
          PROVE  StepGood(g, id, i)'
      <4>1. i \in DOMAIN steps /\ i <= Len(steps) - Len(Tail(todo[g][id]))
        BY <1>c, <3>2, <3>3
      <4>2. IsSeq(steps) /\ RestOf(steps, todo[g][id]) /\ todo[g][id] # <<>>
        BY <2>1, KnownCallback DEF Known, Under, TodoInv
      <4>3. /\ Len(todo[g][id]) \in Nat \ {0} /\ Len(steps) \in Nat
            /\ Len(Tail(todo[g][id])) = Len(todo[g][id]) - 1
        BY <4>2, RestTail
      <4>4. i \in Nat
        BY <4>1, <4>2 DEF IsSeq
      <4>5. i = k \/ (i < k /\ i <= Len(steps) - Len(todo[g][id]))
        <5> DEFINE n == Len(steps)
                   r == Len(todo[g][id])
        <5>1. i \in Nat /\ n \in Nat /\ r \in Nat /\ i <= n - (r - 1)
          BY <4>1, <4>3, <4>4
        <5> HIDE DEF n, r
        <5>2. i = n - r + 1 \/ (i < n - r + 1 /\ i <= n - r)
          BY <5>1
        <5> QED BY <5>2 DEF n, r
      <4>6. ASSUME i = k PROVE StepGood(g, id, i)'
        BY <1>0, <2>6, <4>6, JustMade
      <4>7. ASSUME i < k, i <= Len(steps) - Len(todo[g][id]) PROVE StepGood(g, id, i)'
        <5>1. StepGood(g, id, i)
          BY <1>1, <2>1, <4>1, <4>7 DEF UnderOf
        <5>2. PICK path, content : Write(path, content)
                     /\ path = Head(todo[g][id]).writes
          BY <2>6 DEF Execute
        <5>3. /\ k \in DOMAIN steps /\ Head(todo[g][id]) = steps[k]
              /\ steps[k].writes \in Makes(g)
          BY <2>1, UnderWrites
        <5>4. k \in Nat /\ ~(k < i)
          <6>0. DOMAIN steps \subseteq Nat
            BY <4>2 DEF IsSeq
          <6> HIDE DEF k, steps
          <6>1. k \in Nat
            BY <6>0, <5>3
          <6> QED BY <4>4, <4>7, <6>1
        <5>5. steps[i].writes # steps[k].writes
          <6>1. Distinct(steps)
            BY StepsApart
          <6>2. i # k
            BY <4>4, <4>7, <5>4
          <6> QED BY <4>1, <5>3, <6>1, <6>2 DEF Distinct
        <5>6. ASSUME Followed(g, ids[g][id].inputs, steps, i)
              PROVE  steps[i].reads # steps[k].writes
          BY <5>3, <5>4, <5>6, FollowedInput
        <5>7. \A p : p # path => files'[p] = files[p]
          BY <5>2 DEF Write
        <5>8. ASSUME Followed(g, ids[g][id].inputs, steps, i)
              PROVE  files'[steps[i].writes] = files[steps[i].writes]
                     /\ files'[steps[i].reads] = files[steps[i].reads]
          BY <5>2, <5>3, <5>5, <5>6, <5>7, <5>8
        <5> QED BY <1>0, <5>1, <5>8, StepHeld
      <4> QED BY <4>5, <4>6, <4>7
    <3>4. UnderOf(g)'
      BY <2>4, <3>2, <3>3 DEF UnderOf
    <3> QED BY <2>3, <3>4
  <2> QED BY <1>6, <2>5, <2>6
<1> QED BY <1>2, <1>3, <1>4, <1>5, <1>6 DEF Generate

(* Nothing of a generator is made outside a build. *)
LEMMA NoneDone ==
  ASSUME StageInv, ScriptInv, NEW g \in Generators, stage[g] = "none"
  PROVE  run_success[g] = {} /\ DOMAIN todo[g] = {}
BY DEF StageInv, StageOf

(* One step per action. *)
LEMMA DoneInvNext ==
  /\ OneMaker /\ ScriptInv /\ MakesInv /\ StageInv /\ TodoInv /\ FilesInv
  /\ DoneInv /\ UnderInv /\ EntryInv /\ [Next]_vars
  => DoneInv' /\ UnderInv'
<1> SUFFICES ASSUME OneMaker, ScriptInv, MakesInv, StageInv, TodoInv, FilesInv,
                    DoneInv, UnderInv, EntryInv, [Next]_vars
             PROVE  \A g \in Generators : DoneOf(g)' /\ UnderOf(g)'
  BY DEF DoneInv, UnderInv, DoneOf, UnderOf
<1>n. ASSUME \A g \in Generators : run_success'[g] = {} /\ DOMAIN todo'[g] = {}
      PROVE  \A g \in Generators : DoneOf(g)' /\ UnderOf(g)'
  BY <1>n DEF DoneOf, UnderOf
<1>1. CASE Script
  <2>1. UNCHANGED <<run_success, todo>> /\ phase = "script"
    BY <1>1, ScriptSteps DEF tasks
  <2> QED BY <1>n, <2>1, NoneDone DEF StageInv
<1>2. CASE Run
  <2>1. UNCHANGED <<run_success, todo>> /\ phase = "script"
    BY <1>2 DEF Run
  <2> QED BY <1>n, <2>1, NoneDone DEF StageInv
<1>3. CASE NextProcess
  <2>1. \A g \in Generators : run_success'[g] = {} /\ DOMAIN todo'[g] = {}
    BY <1>3, NothingGiven DEF NextProcess, NoTasks
  <2> QED BY <1>n, <2>1
<1>4. CASE RunBuildEnds \/ UNCHANGED vars
  <2>1. UNCHANGED <<script, files, run_success, todo>>
    BY <1>4 DEF RunBuildEnds, vars, tasks
  <2>2. \A g \in Generators : DoneOf(g) /\ UnderOf(g)
    BY DEF DoneInv, UnderInv, DoneOf, UnderOf
  <2>3. \A g, id : CallbackOf(g, id)' = CallbackOf(g, id)
    BY <2>1, CallbackHeld
  <2>4. ASSUME NEW g, NEW id, NEW i, StepGood(g, id, i) PROVE StepGood(g, id, i)'
    BY <2>1, <2>4, StepSame
  <2> QED BY <2>1, <2>2, <2>3, <2>4 DEF DoneOf, UnderOf
<1>5. ASSUME NEW h \in Generators, Generate(h)
      PROVE  \A g \in Generators : DoneOf(g)' /\ UnderOf(g)'
  BY <1>5, OwnGood, OthersGood
<1> QED BY <1>1, <1>2, <1>3, <1>4, <1>5, Steps4

-----------------------------------------------------------------------------
(* What is stored. *)

(* An entry after a write of w. *)
LEMMA EntryWritten ==
  ASSUME FilesInv, NEW g, NEW id, NEW e, EntryGood(g, id, e),
         NEW w \in Paths, NEW content, Write(w, content),
         \A path : MadeNow(g, id, path) => MadeNow(g, id, path)',
         \A i \in DOMAIN EntrySteps(g, e) :
           Followed(g, DOMAIN e.inputs, EntrySteps(g, e), i)
           /\ ~MadeNow(g, id, EntrySteps(g, e)[i].writes)
           => /\ EntrySteps(g, e)[i].writes # w
              /\ EntrySteps(g, e)[i].reads = w => w \in DOMAIN e.inputs
  PROVE  EntryGood(g, id, e)'
<1>1. /\ files'[w].time = files[w].time + 1 /\ files[w].time \in Nat
      /\ \A p : p # w => files'[p] = files[p]
  BY DEF FilesInv, Write
<1>2. PICK steps : steps = EntrySteps(g, e)
  OBVIOUS
<1>3. steps = EntrySteps(g, e)'
  BY <1>2 DEF EntrySteps, Callback
<1>4. ASSUME NEW p \in DOMAIN e.inputs
      PROVE  /\ p \in Paths /\ e.inputs[p] \in Nat /\ e.inputs[p] <= files'[p].time
             /\ p = w => e.inputs[p] # files'[p].time
  <2>1. p \in Paths /\ e.inputs[p] \in Nat /\ e.inputs[p] <= files[p].time
    BY DEF EntryGood
  <2>2. CASE p # w
    BY <1>1, <2>1, <2>2
  <2>3. CASE p = w
    <3> DEFINE t == files[w].time
               u == e.inputs[p]
               v == files'[w].time
    <3>1. u \in Nat /\ t \in Nat /\ u <= t /\ v = t + 1
      BY <1>1, <2>1, <2>3
    <3> HIDE DEF t, u, v
    <3>2. u <= v /\ u # v
      BY <3>1
    <3> QED BY <2>1, <2>3, <3>2 DEF u, v
  <2> QED BY <2>2, <2>3
<1>5. ASSUME NEW i \in DOMAIN steps, Followed(g, DOMAIN e.inputs, steps, i),
             steps[i].reads \in DOMAIN e.inputs =>
               e.inputs[steps[i].reads] = files'[steps[i].reads].time,
             ~MadeNow(g, id, steps[i].writes)'
      PROVE  Good(g, steps[i])'
  <2>1. ~MadeNow(g, id, steps[i].writes)
    BY <1>5
  <2>2. steps[i].writes # w /\ (steps[i].reads = w => w \in DOMAIN e.inputs)
    BY <1>2, <1>5, <2>1
  <2>3. steps[i].reads # w
    BY <1>4, <1>5, <2>2
  <2>4. files'[steps[i].reads] = files[steps[i].reads]
    BY <1>1, <2>3
  <2>5. steps[i].reads \in DOMAIN e.inputs =>
               e.inputs[steps[i].reads] = files[steps[i].reads].time
    BY <1>5, <2>4
  <2>6. Good(g, steps[i])
    BY <1>2, <1>5, <2>1, <2>5 DEF EntryGood
  <2> QED BY <2>2, <2>3, <2>6, Untouched
<1>6. \A i \in DOMAIN steps : steps[i].writes \in Makes(g)
  BY <1>2 DEF EntryGood
<1> QED BY <1>3, <1>4, <1>5, <1>6 DEF EntryGood

(* No file is written. *)
LEMMA EntryHeld ==
  ASSUME UNCHANGED files, NEW g, NEW id, NEW e, EntryGood(g, id, e),
         \A path : MadeNow(g, id, path) => MadeNow(g, id, path)'
  PROVE  EntryGood(g, id, e)'
<1>2. PICK steps : steps = EntrySteps(g, e)
  OBVIOUS
<1>3. steps = EntrySteps(g, e)'
  BY <1>2 DEF EntrySteps, Callback
<1>4. \A i \in DOMAIN steps : Good(g, steps[i]) => Good(g, steps[i])'
  BY DEF Good
<1> QED BY <1>2, <1>3, <1>4 DEF EntryGood

(* What an entry stored says of the input of a step it made. *)
LEMMA EntryInput ==
  ASSUME NEW g, NEW e, NEW i \in DOMAIN EntrySteps(g, e), NEW id, EntryGood(g, id, e),
         Followed(g, DOMAIN e.inputs, EntrySteps(g, e), i), NEW w,
         EntrySteps(g, e)[i].reads = w,
         w \notin Makes(g)
  PROVE  w \in DOMAIN e.inputs
BY FollowedInput DEF EntryGood

EntryOf(g) ==
  \A s \in stored[g] :
    /\ Kind[g] = "file" => DOMAIN s \subseteq {"Generate"}
    /\ \A id \in DOMAIN s : EntryGood(g, id, s[id])

(* What is being replaced stays so while the generator runs. *)
LEMMA MadeStays ==
  ASSUME UNCHANGED script, NEW g, stage[g] = "running" => stage'[g] = "running",
         should_run[g] \subseteq should_run'[g]
  PROVE  \A id, path : MadeNow(g, id, path) => MadeNow(g, id, path)'
<1>1. \A id : CallbackOf(g, id)' = CallbackOf(g, id)
  BY CallbackHeld
<1>2. WritesOf(g, should_run[g]) \subseteq WritesOf(g, should_run[g])'
  BY <1>1 DEF WritesOf
<1> QED BY <1>2 DEF MadeNow

(* A generator that does not run replaces nothing. *)
LEMMA NotMade ==
  ASSUME NEW g, stage[g] # "running"
  PROVE  \A id, path : MadeNow(g, id, path) => MadeNow(g, id, path)'
BY DEF MadeNow

(* The entries of a generator when no file is written. *)
LEMMA EntriesSame ==
  ASSUME UNCHANGED files, NEW g \in Generators, EntryOf(g), stored'[g] = stored[g],
         \A id, path : MadeNow(g, id, path) => MadeNow(g, id, path)'
  PROVE  EntryOf(g)'
<1>1. ASSUME NEW s \in stored[g], NEW id \in DOMAIN s PROVE EntryGood(g, id, s[id])'
  <2>1. PICK e : e = s[id]
    OBVIOUS
  <2>2. EntryGood(g, id, e)'
    BY <2>1, EntryHeld DEF EntryOf
  <2> QED BY <2>1, <2>2
<1> QED BY <1>1 DEF EntryOf

(* The entries of a generator when w is written. *)
LEMMA EntriesWritten ==
  ASSUME FilesInv, NEW g \in Generators, EntryOf(g), stored'[g] = stored[g],
         NEW w \in Paths, NEW content, Write(w, content),
         \A id, path : MadeNow(g, id, path) => MadeNow(g, id, path)',
         \A s \in stored[g] : \A id \in DOMAIN s :
         \A i \in DOMAIN EntrySteps(g, s[id]) :
           Followed(g, DOMAIN s[id].inputs, EntrySteps(g, s[id]), i)
           /\ ~MadeNow(g, id, EntrySteps(g, s[id])[i].writes)
           => /\ EntrySteps(g, s[id])[i].writes # w
              /\ EntrySteps(g, s[id])[i].reads = w => w \in DOMAIN s[id].inputs
  PROVE  EntryOf(g)'
<1>1. ASSUME NEW s \in stored[g], NEW id \in DOMAIN s PROVE EntryGood(g, id, s[id])'
  <2>1. PICK e : e = s[id]
    OBVIOUS
  <2>2. EntryGood(g, id, e)
    BY <2>1 DEF EntryOf
  <2>3. \A i \in DOMAIN EntrySteps(g, e) :
          Followed(g, DOMAIN e.inputs, EntrySteps(g, e), i)
          /\ ~MadeNow(g, id, EntrySteps(g, e)[i].writes)
          => /\ EntrySteps(g, e)[i].writes # w
             /\ EntrySteps(g, e)[i].reads = w => w \in DOMAIN e.inputs
    BY <2>1
  <2>4. \A path : MadeNow(g, id, path) => MadeNow(g, id, path)'
    OBVIOUS
  <2>5. EntryGood(g, id, e)'
    BY <2>2, <2>3, <2>4, EntryWritten
  <2> QED BY <2>1, <2>5
<1> QED BY <1>1 DEF EntryOf

(* The entries of a generator that does not make w. *)
LEMMA EntriesApart ==
  ASSUME FilesInv, NEW g \in Generators, EntryOf(g), stored'[g] = stored[g],
         NEW w \in Paths, w \notin Makes(g), NEW content, Write(w, content),
         \A id, path : MadeNow(g, id, path) => MadeNow(g, id, path)'
  PROVE  EntryOf(g)'
<1>1. ASSUME NEW s \in stored[g], NEW id \in DOMAIN s,
             NEW i \in DOMAIN EntrySteps(g, s[id]),
             Followed(g, DOMAIN s[id].inputs, EntrySteps(g, s[id]), i)
      PROVE  /\ EntrySteps(g, s[id])[i].writes # w
             /\ EntrySteps(g, s[id])[i].reads = w => w \in DOMAIN s[id].inputs
  <2>1. PICK e : e = s[id]
    OBVIOUS
  <2>2. EntryGood(g, id, e) /\ i \in DOMAIN EntrySteps(g, e)
    BY <2>1 DEF EntryOf
  <2>3. Followed(g, DOMAIN e.inputs, EntrySteps(g, e), i)
    BY <1>1, <2>1
  <2>4. EntrySteps(g, e)[i].writes # w
    BY <2>2 DEF EntryGood
  <2>5. EntrySteps(g, e)[i].reads = w => w \in DOMAIN e.inputs
    BY <2>2, <2>3, EntryInput
  <2> QED BY <2>1, <2>4, <2>5
<1> QED BY <1>1, EntriesWritten

(* Another generator is at work. *)
LEMMA OthersEntry ==
  ASSUME OneMaker, ScriptInv, StageInv, TodoInv, FilesInv, EntryInv,
         NEW h \in Generators, Generate(h), NEW g \in Generators \ {h}
  PROVE  EntryOf(g)'
<1>1. OnlyOf(h)
  BY GenerateFrame
<1>2. UNCHANGED script /\ stored'[g] = stored[g] /\ EntryOf(g)
      /\ stage'[g] = stage[g] /\ should_run'[g] = should_run[g]
  BY <1>1 DEF OnlyOf, EntryInv, EntryOf
<1>3. \A id, path : MadeNow(g, id, path) => MadeNow(g, id, path)'
  BY <1>2, MadeStays
<1>4. CASE UNCHANGED files
  BY <1>2, <1>3, <1>4, EntriesSame
<1>5. ASSUME NEW other \in DOMAIN ids[h], NEW content, Under(h, other),
             Write(Head(todo[h][other]).writes, content)
      PROVE  EntryOf(g)'
  <2>1. Head(todo[h][other]).writes \in Paths \cap Makes(h)
    BY <1>5, UnderWrites
  <2>2. PICK w : w = Head(todo[h][other]).writes
    OBVIOUS
  <2>3. w \in Paths /\ w \notin Makes(g) /\ Write(w, content)
    BY <1>5, <2>1, <2>2 DEF OneMaker
  <2> QED BY <1>2, <1>3, <2>3, EntriesApart
<1> QED BY <1>4, <1>5, GenerateWrites

(* The files the generator itself is writing. *)
LEMMA OwnWrites ==
  ASSUME ScriptInv, StageInv, TodoInv, FilesInv, EntryInv,
         NEW g \in Generators, NEW other \in DOMAIN ids[g], Under(g, other),
         UNCHANGED script, stored'[g] = stored[g], stage'[g] = stage[g],
         should_run'[g] = should_run[g],
         NEW content, Write(Head(todo[g][other]).writes, content)
  PROVE  EntryOf(g)'
<1>0. EntryOf(g) /\ GeneratorGiven(g)
  BY DEF EntryInv, EntryOf, ScriptInv
<1>1. PICK w : w = Head(todo[g][other]).writes
  OBVIOUS
<1>2. /\ w \in Paths \cap Makes(g) /\ other \in should_run[g] /\ stage[g] = "running"
      /\ \E k \in DOMAIN CallbackOf(g, other) : w = CallbackOf(g, other)[k].writes
  BY <1>1, UnderWrites
<1>3. w \in WritesOf(g, should_run[g])
  <2>1. \E step \in ToSet(CallbackOf(g, other)) : w = step.writes
    BY <1>2 DEF ToSet
  <2> QED BY <1>2, <2>1 DEF WritesOf
<1>4. \A id, path : MadeNow(g, id, path) => MadeNow(g, id, path)'
  BY MadeStays
<1>5. ASSUME NEW s \in stored[g], NEW id \in DOMAIN s,
             NEW i \in DOMAIN EntrySteps(g, s[id]),
             Followed(g, DOMAIN s[id].inputs, EntrySteps(g, s[id]), i),
             ~MadeNow(g, id, EntrySteps(g, s[id])[i].writes)
      PROVE  /\ EntrySteps(g, s[id])[i].writes # w
             /\ EntrySteps(g, s[id])[i].reads = w => w \in DOMAIN s[id].inputs
  <2>1. PICK e : e = s[id]
    OBVIOUS
  <2>2. EntrySteps(g, e)[i].writes # w /\ id \notin should_run[g]
    BY <1>2, <1>3, <1>5, <2>1 DEF MadeNow
  <2>3. ASSUME EntrySteps(g, e)[i].reads = w PROVE w \in DOMAIN e.inputs
    <3>1. Followed(g, DOMAIN e.inputs, EntrySteps(g, e), i)
      BY <1>5, <2>1
    <3>2. CASE Kind[g] = "file"
      <4>1. id = "Generate" /\ other = "Generate"
        BY <1>0, <3>2 DEF EntryOf, GeneratorGiven
      <4> QED BY <1>2, <2>2, <4>1
    <3>3. CASE Kind[g] = "template"
      <4>1. PICK step : EntrySteps(g, e) = <<step>>
        BY <3>3 DEF EntrySteps, Callback
      <4>2. DOMAIN <<step>> = {1}
        OBVIOUS
      <4>3. i = 1 /\ ~(1 < 1) /\ DOMAIN EntrySteps(g, e) = {1}
        BY <2>1, <4>1, <4>2
      <4> QED BY <2>3, <3>1, <4>3, FollowedInput
    <3> QED BY <3>2, <3>3, KindAssumption
  <2> QED BY <2>1, <2>2, <2>3
<1> QED BY <1>0, <1>1, <1>2, <1>4, <1>5, EntriesWritten

(* An entry that Join stores was made. *)
LEMMA JoinEntry ==
  ASSUME ScriptInv, StageInv, FilesInv, DoneInv, NEW g \in Generators,
         NEW id \in run_success[g], UNCHANGED files, NEW e, e = Entry(g, id)
  PROVE  EntryGood(g, id, e)'
<1>1. e = Entry(g, id)
  OBVIOUS
<1>3. id \in DOMAIN ids[g] /\ GeneratorGiven(g)
  BY DEF StageInv, StageOf, ScriptInv
<1>4. /\ DOMAIN e.inputs = ids[g][id].inputs /\ DOMAIN e.inputs \subseteq Paths
      /\ \A p \in DOMAIN e.inputs : e.inputs[p] = files[p].time
      /\ e.outputs = ids[g][id].outputs /\ e.blob = given[g].commands
  BY <1>1, <1>3 DEF Entry, GeneratorGiven
<1>5. PICK steps : steps = CallbackOf(g, id)
  OBVIOUS
<1>6. steps = EntrySteps(g, e)
  BY <1>4, <1>5 DEF EntrySteps, CallbackOf
<1>7. \A i \in DOMAIN steps : steps[i].writes \in Makes(g)
  BY <1>3, <1>5, KnownCallback DEF Known
<1>8. \A i \in DOMAIN steps : Followed(g, DOMAIN e.inputs, steps, i)
                                => Good(g, steps[i])
  BY <1>4, <1>5 DEF DoneInv, StepGood
<1>9. \A i \in DOMAIN steps : Followed(g, DOMAIN e.inputs, steps, i)
                                => Good(g, steps[i])'
  BY <1>8 DEF Good
<1>10. ASSUME NEW p \in DOMAIN e.inputs
       PROVE  p \in Paths /\ e.inputs[p] \in Nat /\ e.inputs[p] <= files'[p].time
  <2>1. p \in Paths /\ e.inputs[p] = files[p].time /\ files[p].time \in Nat
        /\ files' = files
    BY <1>4 DEF FilesInv
  <2> DEFINE t == files[p].time
  <2>2. t \in Nat /\ e.inputs[p] = t /\ files'[p].time = t
    BY <2>1
  <2> HIDE DEF t
  <2>3. t <= t
    BY <2>2
  <2> QED BY <2>1, <2>2, <2>3
<1>11. steps = EntrySteps(g, e)'
  BY <1>6 DEF EntrySteps, Callback
<1> QED BY <1>7, <1>9, <1>10, <1>11 DEF EntryGood

(* The generator itself is at work. *)
LEMMA OwnEntry ==
  ASSUME ScriptInv, StageInv, TodoInv, FilesInv, DoneInv, EntryInv,
         NEW g \in Generators, Generate(g)
  PROVE  EntryOf(g)'
<1>0. OnlyOf(g) /\ StageOf(g) /\ EntryOf(g) /\ GeneratorGiven(g) /\ UNCHANGED script
      /\ DOMAIN should_run = Generators /\ DOMAIN dirty = Generators
      /\ DOMAIN stored = Generators
  BY GenerateFrame DEF OnlyOf, StageInv, EntryInv, EntryOf, ScriptInv
<1>1. CASE Begin(g) \/ BeginSkips(g)
  <2>1. UNCHANGED <<files, stored>> /\ stage[g] # "running"
    BY <1>1 DEF Begin, BeginSkips
  <2> QED BY <1>0, <2>1, NotMade, EntriesSame
<1>2. CASE Join(g)
  <2>1. /\ UNCHANGED <<files, run_success, should_run>>
        /\ dirty'[g] = (dirty[g] \/ should_run[g] # {})
        /\ stored'[g] = IF dirty'[g] THEN {[id \in run_success[g] |-> Entry(g, id)]}
                        ELSE stored[g]
    BY <1>0, <1>2 DEF Join
  <2>2. CASE dirty'[g]
    <3>1. PICK s : s = [id \in run_success[g] |-> Entry(g, id)]
      OBVIOUS
    <3>2. stored'[g] = {s} /\ DOMAIN s = run_success[g]
          /\ DOMAIN s \subseteq DOMAIN ids[g]
      BY <1>0, <2>1, <2>2, <3>1 DEF StageOf
    <3>3. Kind[g] = "file" => DOMAIN s \subseteq {"Generate"}
      BY <1>0, <3>2 DEF GeneratorGiven
    <3>4. ASSUME NEW id \in DOMAIN s PROVE EntryGood(g, id, s[id])'
      <4>1. id \in run_success[g] /\ s[id] = Entry(g, id)
        BY <3>1
      <4>2. PICK e : e = s[id]
        OBVIOUS
      <4>3. EntryGood(g, id, e)'
        BY <2>1, <4>1, <4>2, JoinEntry
      <4> QED BY <4>2, <4>3
    <3> QED BY <3>2, <3>3, <3>4 DEF EntryOf
  <2>3. CASE ~dirty'[g]
    <3>1. should_run[g] = {} /\ stored'[g] = stored[g]
      BY <2>1, <2>3
    <3>2. \A id, path : ~MadeNow(g, id, path)
      BY <3>1 DEF MadeNow, WritesOf
    <3> QED BY <1>0, <2>1, <3>1, <3>2, EntriesSame
  <2> QED BY <2>2, <2>3
<1>3. ASSUME NEW i \in DOMAIN ids[g],
             Check(g, i) \/ CheckFails(g, i) \/ CheckSkips(g, i) \/ Return(g, i)
      PROVE  EntryOf(g)'
  <2>1. UNCHANGED <<files, stored, stage>>
    BY <1>3 DEF Check, CheckFails, CheckSkips, Return
  <2>2. should_run[g] \subseteq should_run'[g]
    BY <1>0, <1>3 DEF Check, CheckFails, CheckSkips, Return
  <2>3. \A id, path : MadeNow(g, id, path) => MadeNow(g, id, path)'
    BY <1>0, <2>1, <2>2, MadeStays
  <2> QED BY <1>0, <2>1, <2>3, EntriesSame
<1>4. ASSUME NEW i \in DOMAIN ids[g], Execute(g, i) \/ ExecuteFails(g, i)
      PROVE  EntryOf(g)'
  <2>1. UNCHANGED <<stored, stage, should_run>> /\ Under(g, i)
        /\ (UNCHANGED files \/ \E content : Write(Head(todo[g][i]).writes, content))
    BY <1>4 DEF Execute, ExecuteFails
  <2>2. CASE UNCHANGED files
    <3>1. \A id, path : MadeNow(g, id, path) => MadeNow(g, id, path)'
      BY <1>0, <2>1, MadeStays
    <3> QED BY <1>0, <2>1, <2>2, <3>1, EntriesSame
  <2>3. ASSUME NEW content, Write(Head(todo[g][i]).writes, content) PROVE EntryOf(g)'
    BY <1>0, <2>1, <2>3, OwnWrites
  <2> QED BY <2>1, <2>2, <2>3
<1> QED BY <1>1, <1>2, <1>3, <1>4 DEF Generate

(* One step per action: a user saves what nobody makes. *)
LEMMA EntryInvNext ==
  /\ OneMaker /\ ScriptInv /\ StageInv /\ TodoInv /\ FilesInv
  /\ DoneInv /\ EntryInv /\ [Next]_vars
  => EntryInv'
<1> SUFFICES ASSUME OneMaker, ScriptInv, StageInv, TodoInv, FilesInv, DoneInv, EntryInv,
                    [Next]_vars, NEW g \in Generators
             PROVE  EntryOf(g)'
  BY DEF EntryInv, EntryOf
<1>0. EntryOf(g)
  BY DEF EntryInv, EntryOf
<1>1. CASE Script
  <2>1. UNCHANGED <<files, stored, stage>> /\ phase = "script"
    BY <1>1, ScriptSteps DEF tasks
  <2>2. stage[g] # "running"
    BY <2>1 DEF StageInv
  <2> QED BY <1>0, <2>1, <2>2, NotMade, EntriesSame
<1>2. CASE Run
  <2>1. UNCHANGED <<files, stored>> /\ phase = "script"
    BY <1>2 DEF Run
  <2>2. stage[g] # "running"
    BY <2>1 DEF StageInv
  <2> QED BY <1>0, <2>1, <2>2, NotMade, EntriesSame
<1>3. CASE NextProcess
  <2>1. stored' = stored /\ phase \in {"ok", "failed"}
    BY <1>3 DEF NextProcess
  <2>2. stage[g] # "running"
    BY <2>1 DEF StageInv
  <2>3. \A id, path : MadeNow(g, id, path) => MadeNow(g, id, path)'
    BY <2>2, NotMade
  <2>4. CASE UNCHANGED files
    BY <1>0, <2>1, <2>3, <2>4, EntriesSame
  <2>5. ASSUME NEW w \in Saved, NEW content, Write(w, content) PROVE EntryOf(g)'
    <3>1. w \in Paths /\ w \notin Makes(g)
      BY SavedAssumption DEF OneMaker
    <3> QED BY <1>0, <2>1, <2>3, <2>5, <3>1, EntriesApart
  <2> QED BY <1>3, <2>4, <2>5, OthersWrite
<1>4. CASE RunBuildEnds \/ UNCHANGED vars
  <2>1. UNCHANGED <<script, files, stored, stage, should_run>>
    BY <1>4 DEF RunBuildEnds, vars, tasks
  <2>2. \A id, path : MadeNow(g, id, path) => MadeNow(g, id, path)'
    BY <2>1, MadeStays
  <2> QED BY <1>0, <2>1, <2>2, EntriesSame
<1>5. ASSUME NEW h \in Generators, Generate(h) PROVE EntryOf(g)'
  BY <1>5, OwnEntry, OthersEntry
<1> QED BY <1>1, <1>2, <1>3, <1>4, <1>5, Steps4

-----------------------------------------------------------------------------
(* The files. *)

(* What the files hold, when every file has one maker. *)
Contents == MakesInv /\ DoneInv /\ UnderInv /\ EntryInv

(* The invariant of the files. *)
LEMMA ContentsHold == Spec => [](OneMaker => Contents)
<1>1. Init => (OneMaker => Contents)
  BY MakesInvInit, DoneInit DEF Contents
<1>2. TaskInv /\ (OneMaker => Contents) /\ [Next]_vars => (OneMaker => Contents)'
  <2> SUFFICES ASSUME TaskInv, OneMaker, Contents, [Next]_vars PROVE Contents'
    BY DEF OneMaker, Makes
  <2> QED BY MakesInvNext, DoneInvNext, EntryInvNext DEF TaskInv, Contents
<1> QED BY <1>1, <1>2, TaskInvHolds, PTL DEF Spec

(* After a run that succeeds the output of every step that is followed   *)
(* was made of its input as it is now, with the values the script gives  *)
(* it now, whatever earlier processes did, as long as every file has one *)
(* maker.                                                                *)
THEOREM OutputsStayCurrent == Spec => []OutputsCurrent
<1>1. TaskInv /\ (OneMaker => Contents) => OutputsCurrent
  <2> SUFFICES ASSUME TaskInv, phase = "ok", OneMaker, Contents,
                      NEW g \in Generators, NEW id \in DOMAIN ids[g],
                      NEW i \in DOMAIN CallbackOf(g, id),
                      Followed(g, ids[g][id].inputs, CallbackOf(g, id), i)
               PROVE  /\ files[CallbackOf(g, id)[i].writes].content.from
                           = <<files[CallbackOf(g, id)[i].reads].content>>
                      /\ Kind[g] = "file" =>
                           files[CallbackOf(g, id)[i].writes].content.with
                             = CallbackOf(g, id)[i].with
    BY DEF OutputsCurrent
  <2>1. StageOf(g) /\ stage[g] = "done" /\ taskState = "SUCCESS"
    BY DEF TaskInv, StageInv
  <2>2. id \in run_success[g]
    BY <2>1 DEF StageOf
  <2>3. StepGood(g, id, i)
    BY <2>2 DEF Contents, DoneInv
  <2> QED BY <2>3 DEF StepGood, Good
<1> QED BY <1>1, ContentsHold, TaskInvHolds, PTL
=============================================================================
