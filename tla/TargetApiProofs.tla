---------------------------- MODULE TargetApiProofs ----------------------------
(***************************************************************************)
(* What Copy, Insert and the commands of a target do, for any options,     *)
(* targets and toolchains: the lemmas behind TargetInputsProofs.           *)
(***************************************************************************)
EXTENDS TargetApi, WellFoundedInduction, TLAPS

(* A set of numbers has a least one. *)
LEMMA LeastNumber ==
  ASSUME NEW S \in SUBSET Nat, S # {}
  PROVE  \E n \in S : \A m \in S : n <= m
<1>1. PICK n \in S : \A m \in S : <<m, n>> \notin OpToRel(<, Nat)
  BY WFMin, NatLessThanWellFounded
<1>2. \A m \in S : ~(m < n)
  BY <1>1 DEF OpToRel
<1> QED BY <1>2

(* The last of the positions that a fold has left to take. *)
LEMMA MaxIs ==
  ASSUME NEW n \in Nat, NEW s \in SUBSET (1..n), n \in s
  PROVE  Max(s) = n
<1>1. n \in s /\ \A y \in s : n >= y
  OBVIOUS
<1>2. \A x \in s : (\A y \in s : x >= y) => x = n
  OBVIOUS
<1> QED BY <1>1, <1>2 DEF Max

(* One step of Copy, of Insert or of Kept, and all the steps of one, for    *)
(* every set of positions of the options.  Kept takes what is in the set it *)
(* is given.                                                                *)
TakeField(pair, f, moved, how) ==
  CASE how = "Insert" -> InsertField(pair, f, moved)
    [] how = "Copy" -> CopyField(pair, f, moved)
    [] OTHER -> IF f \in moved THEN Append(pair, f) ELSE pair

Takes(base, options, moved, how, D, it) ==
  it = [s \in SUBSET D |->
         IF s = {} THEN base
         ELSE TakeField(it[s \ {Max(s)}], options[Max(s)], moved, how)]

(* The fold of an operation over options is a function that exists: by *)
(* least counterexample.                                               *)
LEMMA TakesExists ==
  ASSUME NEW base, NEW options, NEW moved, NEW how
  PROVE  \A n \in Nat : \E it : Takes(base, options, moved, how, 1..n, it)
<1> DEFINE Bad == {n \in Nat : ~\E it : Takes(base, options, moved, how, 1..n, it)}
<1> SUFFICES ASSUME Bad # {} PROVE FALSE
  OBVIOUS
<1>1. PICK n \in Bad : \A m \in Bad : n <= m
  BY LeastNumber
<1>2. CASE n = 0
  <2> DEFINE it0 == [s \in SUBSET (1..0) |-> base]
  <2>1. SUBSET (1..0) = {{}}
    OBVIOUS
  <2>2. Takes(base, options, moved, how, 1..0, it0)
    BY <2>1 DEF Takes
  <2> QED BY <1>2, <2>2
<1>3. CASE n # 0
  <2>1. n - 1 \in Nat /\ n - 1 \notin Bad
    BY <1>1, <1>3
  <2>2. PICK it : Takes(base, options, moved, how, 1..(n-1), it)
    BY <2>1
  <2> DEFINE
        jt == [s \in SUBSET (1..n) |->
                 IF n \in s THEN TakeField(it[s \ {n}], options[n], moved, how)
                 ELSE it[s]]
        kt == [s \in SUBSET (1..n) |->
                 IF s = {} THEN base
                 ELSE TakeField(jt[s \ {Max(s)}], options[Max(s)], moved, how)]
  <2>3. ASSUME NEW s \in SUBSET (1..n), n \in s PROVE jt[s] = kt[s]
    <3>1. Max(s) = n
      BY <2>1, <2>3, MaxIs
    <3>2. s \ {n} \in SUBSET (1..n) /\ n \notin s \ {n} /\ s # {}
      BY <2>3
    <3>3. jt[s] = TakeField(it[s \ {n}], options[n], moved, how)
      BY <2>3
    <3>4. jt[s \ {n}] = it[s \ {n}]
      BY <3>2
    <3>5. kt[s] = TakeField(jt[s \ {Max(s)}], options[Max(s)], moved, how)
      BY <3>2
    <3> HIDE DEF jt, kt
    <3> QED BY <3>1, <3>3, <3>4, <3>5
  <2>4. ASSUME NEW s \in SUBSET (1..n), n \notin s PROVE jt[s] = kt[s]
    <3>1. s \in SUBSET (1..(n-1))
      BY <2>4
    <3>2. it[s] = IF s = {} THEN base
                  ELSE TakeField(it[s \ {Max(s)}], options[Max(s)], moved, how)
      BY <2>2, <3>1 DEF Takes
    <3>3. s \ {Max(s)} \in SUBSET (1..n) /\ n \notin s \ {Max(s)}
      BY <2>4
    <3>4. jt[s] = it[s] /\ jt[s \ {Max(s)}] = it[s \ {Max(s)}]
      BY <2>4, <3>3
    <3>5. kt[s] = IF s = {} THEN base
                  ELSE TakeField(jt[s \ {Max(s)}], options[Max(s)], moved, how)
      OBVIOUS
    <3> HIDE DEF jt, kt
    <3> QED BY <3>2, <3>4, <3>5
  <2>5. \A s \in SUBSET (1..n) : jt[s] = kt[s]
    BY <2>3, <2>4
  <2>6. jt = kt
    <3>1. jt = [s \in SUBSET (1..n) |-> jt[s]]
      OBVIOUS
    <3>2. kt = [s \in SUBSET (1..n) |-> kt[s]]
      OBVIOUS
    <3> HIDE DEF jt, kt
    <3> QED BY <2>5, <3>1, <3>2
  <2>7. Takes(base, options, moved, how, 1..n, jt)
    BY <2>6 DEF Takes
  <2> QED BY <2>7
<1> QED BY <1>2, <1>3

(* Copy is all the steps, whichever function the choice picks. *)
LEMMA CopyIs ==
  ASSUME NEW to, NEW from, NEW options, NEW moved, NEW n \in Nat, DOMAIN options = 1..n
  PROVE  \E it : /\ Takes(<<to, from>>, options, moved, "Copy", 1..n, it)
                 /\ Copy(to, from, options, moved) = it[1..n]
<1> DEFINE C(it) == it = [s \in SUBSET (1..n) |->
         IF s = {} THEN <<to, from>>
         ELSE CopyField(it[s \ {Max(s)}], options[Max(s)], moved)]
<1>1. \A it : C(it) <=> Takes(<<to, from>>, options, moved, "Copy", 1..n, it)
  BY DEF Takes, TakeField
<1>2. C(CHOOSE it : C(it))
  BY <1>1, TakesExists
<1>3. Copy(to, from, options, moved) = (CHOOSE it : C(it))[1..n]
  BY DEF Copy, FoldLeft, MapThenFoldSet
<1> HIDE DEF C
<1> QED BY <1>1, <1>2, <1>3

(* Insert likewise. *)
LEMMA InsertIs ==
  ASSUME NEW to, NEW from, NEW options, NEW moved, NEW n \in Nat, DOMAIN options = 1..n
  PROVE  \E it : /\ Takes(<<to, from>>, options, moved, "Insert", 1..n, it)
                 /\ Insert(to, from, options, moved) = it[1..n]
<1> DEFINE C(it) == it = [s \in SUBSET (1..n) |->
         IF s = {} THEN <<to, from>>
         ELSE InsertField(it[s \ {Max(s)}], options[Max(s)], moved)]
<1>1. \A it : C(it) <=> Takes(<<to, from>>, options, moved, "Insert", 1..n, it)
  BY DEF Takes, TakeField
<1>2. C(CHOOSE it : C(it))
  BY <1>1, TakesExists
<1>3. Insert(to, from, options, moved) = (CHOOSE it : C(it))[1..n]
  BY DEF Insert, FoldLeft, MapThenFoldSet
<1> HIDE DEF C
<1> QED BY <1>1, <1>2, <1>3

(* What the first n steps of a Copy or an Insert leave of the two targets:  *)
(* the same fields, those not taken as they were, files for sources, and,   *)
(* copied once, the field of the other one.                                 *)
SourcesAre(files, u) == u["sources"] \in Seq(files)

(* A target is a record of its fields. *)
IsUser(u) == u = [f \in Fields |-> u[f]]

(* What the first n options took: their fields, and no other. *)
Taken(pair, to, from, options, how, n) ==
  /\ pair = <<pair[1], pair[2]>>
  /\ \A k \in {1, 2} : IsUser(pair[k])
  /\ \A f \in Fields : (\A i \in 1..n : options[i] # f) =>
       pair[1][f] = to[f] /\ pair[2][f] = from[f]
  /\ \A files : SourcesAre(files, to) /\ SourcesAre(files, from) =>
       SourcesAre(files, pair[1]) /\ SourcesAre(files, pair[2])
  /\ how = "Copy" /\ (\A i, j \in DOMAIN options : options[i] = options[j] => i = j)
       => \A i \in 1..n : pair[1][options[i]] = from[options[i]]

(* One more option, taken from what the ones before left. *)
LEMMA TakenStep ==
  ASSUME NEW to, NEW from, NEW n \in Nat \ {0}, NEW options, NEW moved,
         NEW how \in {"Copy", "Insert"}, NEW pair,
         n \in DOMAIN options, \A i \in 1..n : i \in DOMAIN options
           /\ options[i] \in Fields,
         Taken(pair, to, from, options, how, n - 1)
  PROVE  Taken(TakeField(pair, options[n], moved, how), to, from, options, how, n)
<1> DEFINE f == options[n]
           new == TakeField(pair, f, moved, how)
<1>0. "sources" \notin FlagFields \cup {"external_libs"}
  BY DEF FlagFields
<1>f. f \in Fields
  OBVIOUS
<1>1. /\ new = <<new[1], new[2]>>
      /\ IsUser(new[1]) /\ IsUser(new[2])
      /\ \A g \in Fields \ {f} : new[1][g] = pair[1][g] /\ new[2][g] = pair[2][g]
      /\ new[1][f] = IF how = "Insert" THEN pair[1][f] \o pair[2][f] ELSE pair[2][f]
      /\ f \notin FlagFields \cup {"external_libs"} => new[2][f] \in {pair[2][f], <<>>}
  <2>1. IsUser(pair[1]) /\ IsUser(pair[2])
    BY DEF Taken
  <2> QED BY <1>f, <2>1 DEF TakeField, CopyField, InsertField, IsUser
<1> HIDE DEF new
<1>2. \A k \in {1, 2} : IsUser(new[k])
  BY <1>1
<1>3. ASSUME NEW g \in Fields, \A i \in 1..n : options[i] # g
      PROVE  new[1][g] = to[g] /\ new[2][g] = from[g]
  BY <1>1, <1>3 DEF Taken
<1>4. ASSUME NEW files, SourcesAre(files, to), SourcesAre(files, from)
      PROVE  SourcesAre(files, new[1]) /\ SourcesAre(files, new[2])
  <2>1. pair[1]["sources"] \in Seq(files) /\ pair[2]["sources"] \in Seq(files)
    BY <1>4 DEF Taken, SourcesAre
  <2>2. CASE f # "sources"
    BY <1>1, <2>1, <2>2 DEF SourcesAre, Fields, SourceApi
  <2>3. CASE f = "sources"
    <3>0. <<>> \in Seq(files)
      OBVIOUS
    <3>1. new[2][f] \in Seq(files)
      <4>1. new[2][f] = pair[2][f] \/ new[2][f] = <<>>
        BY <1>0, <1>1, <2>3
      <4> QED BY <2>1, <2>3, <3>0, <4>1
    <3>2. new[1][f] \in Seq(files)
      BY <1>1, <2>1, <2>3
    <3> QED BY <2>3, <3>1, <3>2 DEF SourcesAre
  <2> QED BY <2>2, <2>3
<1>5. ASSUME how = "Copy", \A i, j \in DOMAIN options : options[i] = options[j]
               => i = j,
             NEW i \in 1..n
      PROVE  new[1][options[i]] = from[options[i]]
  <2>1. CASE i = n
    <3>1. \A j \in 1..(n-1) : options[j] # f
      BY <1>5
    <3>2. pair[2][f] = from[f]
      BY <1>f, <3>1 DEF Taken
    <3> QED BY <1>1, <1>5, <2>1, <3>2
  <2>2. CASE i # n
    <3>1. i \in 1..(n-1) /\ options[i] # f
      BY <1>5, <2>2
    <3>2. pair[1][options[i]] = from[options[i]] /\ i \in DOMAIN options
      BY <1>5, <3>1 DEF Taken
    <3> QED BY <1>1, <3>1, <3>2
  <2> QED BY <2>1, <2>2
<1>6. Taken(new, to, from, options, how, n)
  BY <1>1, <1>2, <1>3, <1>4, <1>5 DEF Taken
<1> QED BY <1>6 DEF new

(* All the options, by least counterexample. *)
LEMMA TakesTaken ==
  ASSUME NEW to, NEW from, NEW L \in Nat, NEW options, NEW moved,
         NEW how \in {"Copy", "Insert"}, NEW it,
         IsUser(to), IsUser(from),
         options \in [1..L -> Fields],
         Takes(<<to, from>>, options, moved, how, 1..L, it)
  PROVE  Taken(it[1..L], to, from, options, how, L)
<1> DEFINE Bad == {n \in 0..L : ~Taken(it[1..n], to, from, options, how, n)}
<1> SUFFICES ASSUME Bad # {} PROVE FALSE
  OBVIOUS
<1>1. PICK n \in Bad : \A m \in Bad : n <= m
  <2>1. Bad \in SUBSET Nat
    OBVIOUS
  <2> HIDE DEF Bad
  <2> QED BY <2>1, LeastNumber
<1>2. CASE n = 0
  <2>1. 1..n = {} /\ {} \in SUBSET (1..L)
    BY <1>2
  <2>2. it[1..n] = <<to, from>>
    BY <2>1 DEF Takes
  <2>3. Taken(<<to, from>>, to, from, options, how, 0)
    BY DEF Taken
  <2> QED BY <1>2, <2>2, <2>3
<1>3. CASE n # 0
  <2>1. n - 1 \in Nat /\ n - 1 \notin Bad /\ n \in 1..L
    BY <1>1, <1>3
  <2>2. Taken(it[1..(n-1)], to, from, options, how, n - 1)
    BY <2>1
  <2>3. 1..n \in SUBSET (1..L) /\ n \in 1..n /\ (1..n) \ {n} = 1..(n-1)
    BY <2>1
  <2>4. Max(1..n) = n
    BY <2>1, <2>3, MaxIs
  <2>5. it[1..n] = TakeField(it[1..(n-1)], options[n], moved, how)
    BY <2>3, <2>4 DEF Takes
  <2>6. Taken(it[1..n], to, from, options, how, n)
    BY <2>1, <2>2, <2>5, TakenStep
  <2> QED BY <2>6
<1> QED BY <1>2, <1>3

(* What Copy promises for any sequence of fields. *)
LEMMA CopyTakes ==
  ASSUME NEW to, NEW from, NEW options \in Seq(Fields), NEW moved,
         IsUser(to), IsUser(from)
  PROVE  Taken(Copy(to, from, options, moved), to, from, options, "Copy", Len(options))
<1>1. PICK L \in Nat : L = Len(options) /\ options \in [1..L -> Fields]
  OBVIOUS
<1>2. DOMAIN options = 1..L
  BY <1>1
<1>3. PICK it : /\ Takes(<<to, from>>, options, moved, "Copy", 1..L, it)
                /\ Copy(to, from, options, moved) = it[1..L]
  BY <1>2, CopyIs
<1>4. Taken(it[1..L], to, from, options, "Copy", L)
  BY <1>1, <1>3, TakesTaken
<1> QED BY <1>1, <1>3, <1>4

(* What Insert promises for any sequence of fields. *)
LEMMA InsertTakes ==
  ASSUME NEW to, NEW from, NEW options \in Seq(Fields), NEW moved,
         IsUser(to), IsUser(from)
  PROVE  Taken(Insert(to, from, options, moved), to, from, options, "Insert",
           Len(options))
<1>1. PICK L \in Nat : L = Len(options) /\ options \in [1..L -> Fields]
  OBVIOUS
<1>2. DOMAIN options = 1..L
  BY <1>1
<1>3. PICK it : /\ Takes(<<to, from>>, options, moved, "Insert", 1..L, it)
                /\ Insert(to, from, options, moved) = it[1..L]
  BY <1>2, InsertIs
<1>4. Taken(it[1..L], to, from, options, "Insert", L)
  BY <1>1, <1>3, TakesTaken
<1> QED BY <1>1, <1>3, <1>4

(* A copy of all the fields in which two targets differ makes them the same. *)
GenericOptions == ToSet(kGenericCopyOptions)

LEMMA GenericCopy ==
  ASSUME NEW to, NEW from, IsUser(to), IsUser(from),
         \A f \in Fields \ GenericOptions : to[f] = from[f]
  PROVE  Copy(to, from, kGenericCopyOptions, TRUE)[1] = from
<1> DEFINE options == kGenericCopyOptions
           pair == Copy(to, from, options, TRUE)
<1>1. options \in Seq(Fields) /\ Len(options) = 7
  BY DEF kGenericCopyOptions, Fields, FlagFields
<1>2. \A i, j \in DOMAIN options : options[i] = options[j] => i = j
  BY DEF kGenericCopyOptions
<1>3. GenericOptions = {options[i] : i \in 1..7}
  BY DEF GenericOptions, ToSet, kGenericCopyOptions
<1>4. Taken(pair, to, from, options, "Copy", 7)
  BY <1>1, CopyTakes
<1> HIDE DEF pair, options
<1>5. \A f \in Fields : pair[1][f] = from[f]
  BY <1>2, <1>3, <1>4 DEF Taken
<1>6. IsUser(pair[1])
  BY <1>4 DEF Taken
<1>7. pair[1] = from
  BY <1>5, <1>6 DEF IsUser
<1> QED BY <1>7 DEF pair, options

(* A specialized target has no more than the toolchain gives. *)
LEMMA SpecializedAre ==
  ASSUME NEW ty, NEW t, NEW m \in SpecializedTarget(ty, t)
  PROVE  /\ IsUser(m)
         /\ \A f \in Fields \ GenericOptions : TargetInfo(t)[f] = m[f]
<1> DEFINE info0 == TargetInfo(t)
<1>1. IsUser(info0)
  BY DEF TargetInfo, IsUser
<1>2. {"pch_object_flags", "common_compile_flags", "c_compile_flags",
       "cpp_compile_flags", "link_flags"} \subseteq GenericOptions \cap Fields
  BY DEF GenericOptions, ToSet, kGenericCopyOptions, Fields, FlagFields
<1> HIDE DEF info0
<1>3. CASE m = DefaultMsvcOptions(info0)
  BY <1>1, <1>2, <1>3 DEF DefaultMsvcOptions, IsUser, info0
<1>4. ASSUME NEW u, IsUser(u), \A f \in Fields \ GenericOptions : u[f] = info0[f],
             m = DefaultGccOptions(u)
      PROVE  IsUser(m) /\ \A f \in Fields \ GenericOptions : TargetInfo(t)[f] = m[f]
  BY <1>2, <1>4 DEF DefaultGccOptions, AddAll, IsUser, info0
<1>5. CASE m = GccTarget(ty, t)
  <2> DEFINE u == IF ty = "DynamicLibrary" THEN Add(info0, "common_compile_flags",
               "-fpic") ELSE info0
  <2>1. IsUser(u) /\ \A f \in Fields \ GenericOptions : u[f] = info0[f]
    BY <1>1, <1>2 DEF Add, IsUser
  <2>2. m = DefaultGccOptions(u)
    BY <1>5 DEF GccTarget, info0
  <2> HIDE DEF u
  <2> QED BY <1>4, <2>1, <2>2
<1>6. m = GccTarget(ty, t) \/ m = DefaultMsvcOptions(info0)
  BY DEF SpecializedTarget, MingwTarget, MsvcTarget, info0
<1> QED BY <1>3, <1>5, <1>6

(* The targets of the generic classes are the specialized ones. *)
LEMMA GenericTypeIs ==
  ASSUME NEW ty, NEW t
  PROVE  GenericTypeTarget(ty, t) = SpecializedTarget(ty, t)
<1>1. IsUser(TargetInfo(t))
  BY DEF TargetInfo, IsUser
<1>2. \A m \in SpecializedTarget(ty, t) :
        Copy(TargetInfo(t), m, kGenericCopyOptions, TRUE)[1] = m
  BY <1>1, SpecializedAre, GenericCopy
<1> QED BY <1>2 DEF GenericTypeTarget

LEMMA GenericIs ==
  ASSUME NEW ty, NEW t
  PROVE  Target_generic(ty, t) = SpecializedTarget(ty, t)
<1>1. IsUser(TargetInfo(t))
  BY DEF TargetInfo, IsUser
<1>2. \A m \in SpecializedTarget(ty, t) :
        Copy(TargetInfo(t), m, kGenericCopyOptions, TRUE)[1] = m
  BY <1>1, SpecializedAre, GenericCopy
<1> QED BY <1>2, GenericTypeIs DEF Target_generic

-----------------------------------------------------------------------------
(* Toolchains *)

(* The toolchains that the script can hold. *)
IsToolchain(t) ==
  /\ t = [k \in {"id", "name", "executables", "config", "info_cb", "flags"} |-> t[k]]
  /\ t.config = GlobalToolchainMetadata(t.id).config

(* Configurations of one toolchain agree on what they decide. *)
LEMMA ConfigsAgree ==
  ASSUME NEW id, NEW ext
  PROVE  /\ GetFileExt(GlobalToolchainMetadata(id).config, ext)
              = GetFileExt(DefaultConfig, ext)
         /\ IsValidSource(GlobalToolchainMetadata(id).config, ext)
              = IsValidSource(DefaultConfig, ext)
<1> DEFINE c == GlobalToolchainMetadata(id).config
<1>1. /\ c.valid_c_ext = DefaultConfig.valid_c_ext
      /\ c.valid_cpp_ext = DefaultConfig.valid_cpp_ext
      /\ c.valid_asm_ext = DefaultConfig.valid_asm_ext
      /\ c.valid_header_ext = DefaultConfig.valid_header_ext
  BY DEF GlobalToolchainMetadata, GccToolchainConfig, MsvcConfig, DefaultConfig
<1> HIDE DEF c
<1>2. GetFileExt(c, ext) = GetFileExt(DefaultConfig, ext)
  BY <1>1 DEF GetFileExt
<1>3. IsValidSource(c, ext) = IsValidSource(DefaultConfig, ext)
  BY <1>1 DEF IsValidSource
<1> QED BY <1>2, <1>3 DEF c

(* A valid source is of one of the three languages. *)
LEMMA SourceTypes ==
  ASSUME NEW ext, IsValidSource(DefaultConfig, ext)
  PROVE  GetFileExt(DefaultConfig, ext) \in {"Asm", "C", "Cpp"}
<1>1. /\ DefaultConfig.valid_c_ext \cap DefaultConfig.valid_cpp_ext = {}
      /\ DefaultConfig.valid_c_ext \cap DefaultConfig.valid_asm_ext = {}
      /\ DefaultConfig.valid_cpp_ext \cap DefaultConfig.valid_asm_ext = {}
      /\ DefaultConfig.valid_header_ext \cap DefaultConfig.valid_asm_ext = {}
      /\ DefaultConfig.valid_header_ext \cap DefaultConfig.valid_c_ext = {}
      /\ DefaultConfig.valid_header_ext \cap DefaultConfig.valid_cpp_ext = {}
  BY DEF DefaultConfig
<1>2. \/ ext \in DefaultConfig.valid_c_ext
      \/ ext \in DefaultConfig.valid_cpp_ext
      \/ ext \in DefaultConfig.valid_asm_ext
  BY DEF IsValidSource
<1>3. CASE ext \in DefaultConfig.valid_c_ext
  BY <1>1, <1>3 DEF GetFileExt
<1>4. CASE ext \in DefaultConfig.valid_cpp_ext
  BY <1>1, <1>4 DEF GetFileExt
<1>5. CASE ext \in DefaultConfig.valid_asm_ext
  BY <1>1, <1>5 DEF GetFileExt
<1> QED BY <1>2, <1>3, <1>4, <1>5

-----------------------------------------------------------------------------
(* Commands *)

(* The placeholders the arguments of every command give a value. *)
UserKeys == {"include_dirs", "lib_dirs", "preprocessor_flags",
             "common_compile_flags", "link_flags"}
DefaultKeys ==
  UserKeys \cup {"asm_compiler", "c_compiler", "cpp_compiler", "archiver", "linker"}
PchKeys == {"pch_compile_flags", "pch_object_flags", "pch_object_output"}
ArgumentKeys == DefaultKeys \cup PchKeys

(* The arguments of every task, as the keys and values above. *)
LEMMA DefaultArgumentsAre ==
  ASSUME NEW u, NEW t
  PROVE  /\ DOMAIN DefaultArguments(u, t) = DefaultKeys
         /\ \A k \in UserKeys : DefaultArguments(u, t)[k] = u[k]
BY DEF DefaultArguments, AddDefaultArguments, DefaultKeys, UserKeys

(* The arguments of the precompiled header. *)
PchFlagsOf(a, u) ==
  /\ a["pch_compile_flags"] = IF ContainsPch(u) THEN u["pch_compile_flags"] ELSE <<>>
  /\ a["pch_object_flags"] = IF ContainsPch(u) THEN u["pch_object_flags"] ELSE <<>>
  /\ a["pch_object_output"] = IF ContainsPch(u) THEN <<"pch object">> ELSE <<>>

LEMMA PchArgumentsAre ==
  ASSUME NEW u, NEW t
  PROVE  /\ DOMAIN PchArguments(u, t) = ArgumentKeys
         /\ \A k \in UserKeys : PchArguments(u, t)[k] = u[k]
         /\ PchFlagsOf(PchArguments(u, t), u)
<1> DEFINE more ==
     IF ContainsPch(u)
     THEN [pch_compile_flags |-> u.pch_compile_flags,
           pch_object_flags |-> u.pch_object_flags,
           pch_object_output |-> <<"pch object">>]
     ELSE [pch_compile_flags |-> <<>>, pch_object_flags |-> <<>>,
           pch_object_output |-> <<>>]
<1>1. /\ DOMAIN more = PchKeys
      /\ more["pch_compile_flags"]
           = IF ContainsPch(u) THEN u["pch_compile_flags"] ELSE <<>>
      /\ more["pch_object_flags"]
           = IF ContainsPch(u) THEN u["pch_object_flags"] ELSE <<>>
      /\ more["pch_object_output"] = IF ContainsPch(u) THEN <<"pch object">> ELSE <<>>
  BY DEF PchKeys
<1>2. PchArguments(u, t) = AddDefaultArguments(DefaultArguments(u, t), more)
  BY DEF PchArguments
<1> HIDE DEF more
<1>3. /\ UserKeys \subseteq DefaultKeys
      /\ "pch_compile_flags" \in PchKeys \ DefaultKeys
      /\ "pch_object_flags" \in PchKeys \ DefaultKeys
      /\ "pch_object_output" \in PchKeys \ DefaultKeys
  BY DEF UserKeys, DefaultKeys, PchKeys
<1> DEFINE d == DefaultArguments(u, t)
           a == AddDefaultArguments(d, more)
<1>d. /\ DOMAIN d = DefaultKeys
      /\ \A k \in UserKeys : d[k] = u[k]
  BY DefaultArgumentsAre
<1>a. /\ DOMAIN a = DOMAIN d \cup DOMAIN more
      /\ \A k \in DOMAIN d : a[k] = d[k]
      /\ \A k \in DOMAIN more \ DOMAIN d : a[k] = more[k]
  BY DEF AddDefaultArguments
<1> HIDE DEF d, a
<1>4. DOMAIN a = ArgumentKeys
  BY <1>1, <1>d, <1>a DEF ArgumentKeys
<1>5. \A k \in UserKeys : a[k] = u[k]
  BY <1>3, <1>d, <1>a
<1>6. /\ a["pch_compile_flags"] = more["pch_compile_flags"]
      /\ a["pch_object_flags"] = more["pch_object_flags"]
      /\ a["pch_object_output"] = more["pch_object_output"]
  BY <1>1, <1>3, <1>d, <1>a
<1> QED BY <1>1, <1>2, <1>4, <1>5, <1>6 DEF a, d, PchFlagsOf

(* The arguments of a command: those and the ones it adds. *)
Arguments(a, u, t, more) ==
  /\ DOMAIN a = ArgumentKeys \cup DOMAIN more
  /\ \A k \in UserKeys : a[k] = u[k]
  /\ \A k \in PchKeys : a[k] = PchArguments(u, t)[k]
  /\ \A k \in DOMAIN more \ ArgumentKeys : a[k] = more[k]

(* The arguments of a command are as Arguments says. *)
LEMMA ArgumentsAre ==
  ASSUME NEW u, NEW t, NEW more
  PROVE  Arguments(AddDefaultArguments(PchArguments(u, t), more), u, t, more)
<1>1. UserKeys \subseteq ArgumentKeys /\ PchKeys \subseteq ArgumentKeys
  BY DEF ArgumentKeys, DefaultKeys
<1> DEFINE p == PchArguments(u, t)
           a == AddDefaultArguments(p, more)
<1>2. DOMAIN p = ArgumentKeys /\ \A k \in UserKeys : p[k] = u[k]
  BY PchArgumentsAre
<1>3. /\ DOMAIN a = DOMAIN p \cup DOMAIN more
      /\ \A k \in DOMAIN p : a[k] = p[k]
      /\ \A k \in DOMAIN more \ DOMAIN p : a[k] = more[k]
  BY DEF AddDefaultArguments
<1> HIDE DEF p, a
<1>4. DOMAIN a = ArgumentKeys \cup DOMAIN more
  BY <1>2, <1>3
<1>5. \A k \in UserKeys : a[k] = u[k]
  BY <1>1, <1>2, <1>3
<1>6. \A k \in PchKeys : a[k] = p[k]
  BY <1>1, <1>2, <1>3
<1>7. \A k \in DOMAIN more \ ArgumentKeys : a[k] = more[k]
  BY <1>2, <1>3
<1> QED BY <1>4, <1>5, <1>6, <1>7 DEF p, a, Arguments

(* The commands of every kind of target and toolchain, by what they name. *)
Patterns(c) ==
  /\ {"compiler", "output"} \subseteq c.compile_command
  /\ c.compile_command =
       {"compiler", "preprocessor_flags", "include_dirs", "common_compile_flags",
        "compile_flags", "output", "input", "pch_object_flags"}
  /\ c.pch_command \subseteq
       {"compiler", "preprocessor_flags", "include_dirs", "common_compile_flags",
        "compile_flags", "output", "input", "pch_compile_flags",
        "pch_object_output", "input_source"}
  /\ c.link_command \subseteq
       {"cpp_compiler", "linker", "archiver", "link_flags", "compiled_sources",
        "output", "lib_dirs", "lib_deps", "pch_object_output"}

(* Every configuration of a kind has these patterns. *)
LEMMA ConfigIs ==
  ASSUME NEW ty, NEW id, NEW c \in GenericConfig(ty, id)
  PROVE  Patterns(c)
<1>1. Patterns(GccConfig(ty))
  BY DEF Patterns, GccConfig
<1>2. Patterns(MsvcTargetConfig(ty))
  BY DEF Patterns, MsvcTargetConfig, GccConfig
<1>3. Patterns(MingwConfig(ty))
  BY DEF Patterns, MingwConfig, GccConfig
<1> QED BY <1>1, <1>2, <1>3 DEF GenericConfig

(* What each command adds to the arguments of every task. *)
ObjectArguments(u, t, file) ==
  [compiler |-> SelectCompiler(t, GetFileExt(t.config, file.ext)),
   compile_flags |-> SelectCompileFlags(u, GetFileExt(t.config, file.ext)),
   output |-> ConstructObjectPath(t, file), input |-> file]

PchOwnArguments(u, t, language) ==
  [compiler |-> SelectCompiler(t, language),
   compile_flags |-> SelectCompileFlags(u, language),
   output |-> t.config.pch_compile_ext,
   input |-> t.config.pch_header_ext, input_source |-> language]

LinkArguments(u, t, c) ==
  [output |-> c.target_ext,
   compiled_sources |->
     {ConstructObjectPath(t, file) : file \in ToSet(u.sources)},
   lib_deps |-> u.libs \o u.external_libs]

(* A command is constructed when every placeholder has a value. *)
LEMMA ConstructedIs ==
  ASSUME NEW p, NEW u, NEW t, NEW more, p \subseteq ArgumentKeys \cup DOMAIN more
  PROVE  Construct(p, AddDefaultArguments(PchArguments(u, t), more)) # {}
<1> DEFINE a == AddDefaultArguments(PchArguments(u, t), more)
<1>1. Arguments(a, u, t, more)
  BY ArgumentsAre
<1> HIDE DEF a
<1>2. p \subseteq DOMAIN a
  BY <1>1 DEF Arguments
<1>3. Construct(p, a) # {}
  BY <1>2 DEF Construct
<1> QED BY <1>3 DEF a

(* All the commands of a target are. *)
LEMMA CommandsAreConstructed ==
  ASSUME NEW u, NEW t, NEW c, Patterns(c)
  PROVE  Constructed(u, Commands(u, t, c))
<1>1. PchCommand(u, t, c) # {}
  <2> DEFINE more == PchOwnArguments(u, t, PchLanguage(u, t))
  <2>1. PchCommand(u, t, c)
          = Construct(c.pch_command, AddDefaultArguments(PchArguments(u, t), more))
    BY DEF PchCommand, PchOwnArguments
  <2>2. DOMAIN more = {"compiler", "compile_flags", "output", "input", "input_source"}
    BY DEF PchOwnArguments
  <2> HIDE DEF more
  <2>3. c.pch_command \subseteq ArgumentKeys \cup DOMAIN more
    BY <2>2 DEF Patterns, ArgumentKeys, DefaultKeys, UserKeys, PchKeys
  <2> QED BY <2>1, <2>3, ConstructedIs
<1>2. ASSUME NEW file PROVE CompileCommand(u, t, c, file) # {}
  <2> DEFINE more == ObjectArguments(u, t, file)
  <2>1. CompileCommand(u, t, c, file)
          = Construct(c.compile_command, AddDefaultArguments(PchArguments(u, t), more))
    BY DEF CompileCommand, ObjectArguments
  <2>2. DOMAIN more = {"compiler", "compile_flags", "output", "input"}
    BY DEF ObjectArguments
  <2> HIDE DEF more
  <2>3. c.compile_command \subseteq ArgumentKeys \cup DOMAIN more
    BY <2>2 DEF Patterns, ArgumentKeys, DefaultKeys, UserKeys, PchKeys
  <2> QED BY <2>1, <2>3, ConstructedIs
<1>3. LinkCommand(u, t, c) # {}
  <2> DEFINE more == LinkArguments(u, t, c)
  <2>1. LinkCommand(u, t, c)
          = Construct(c.link_command, AddDefaultArguments(PchArguments(u, t), more))
    BY DEF LinkCommand, LinkArguments
  <2>2. DOMAIN more = {"output", "compiled_sources", "lib_deps"}
    BY DEF LinkArguments
  <2> HIDE DEF more
  <2>3. c.link_command \subseteq ArgumentKeys \cup DOMAIN more
    BY <2>2 DEF Patterns, ArgumentKeys, DefaultKeys, UserKeys, PchKeys
  <2> QED BY <2>1, <2>3, ConstructedIs
<1> QED BY <1>1, <1>2, <1>3 DEF Commands, Constructed

=============================================================================
