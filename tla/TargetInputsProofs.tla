-------------------------- MODULE TargetInputsProofs --------------------------
(***************************************************************************)
(* What a target compiles and links is what its script asked for, but for  *)
(* the holes the model names: theorems for any kinds of target, calls,     *)
(* options and bounds.  IInv is the inductive invariant.                   *)
(***************************************************************************)
EXTENDS TargetInputs, TargetApiProofs

(* The source files the script names that are valid sources. *)
Files == {file \in SourceFiles : IsValidSource(DefaultConfig, file.ext)}

(* The shape of every value: one target, one set of commands, one schema *)
(* and one set of outputs at most, with sources that are valid.          *)
Shapes ==
  /\ IsToolchain(toolchain)
  /\ \A u \in user : u = User /\ IsUser(u) /\ SourcesAre(Files, u)
  /\ IsUser(info) /\ SourcesAre(Files, info)
  /\ \A c \in commands : c = Cached
  /\ \A s \in stored : s = Stored /\ SourcesAre(Files, s.user)
  /\ \A m \in made : m = Made

(* Unless a field was changed after Build, the commands are those of the *)
(* target as it is.                                                      *)
CachedIsCurrent ==
  commands # {} /\ LateHole = {} => Cached = Commands(User, toolchain, Config)

(* The command of the precompiled header in either language. *)
PchCommandIn(u, t, config, language) ==
  Construct(config.pch_command,
    AddDefaultArguments(PchArguments(u, t),
      [compiler |-> SelectCompiler(t, language),
       compile_flags |-> SelectCompileFlags(u, language),
       output |-> t.config.pch_compile_ext,
       input |-> t.config.pch_header_ext, input_source |-> language]))

(* Without holes, the outputs are those of the commands of the target as *)
(* it was stored.                                                        *)
MadeAsStored ==
  made # {} /\ Made.holes = {} =>
    /\ Stored.pch_compiled = ContainsPch(Stored.user)
    /\ Stored.pch_compiled =>
         /\ Made.language \in {"C", "Cpp"}
         /\ Plain(Made.pch) =
              Plain(PchCommandIn(Stored.user, toolchain, Config, Made.language))
    /\ \A file \in Stored.sources :
         Plain(Made.objects[file]) =
           Plain(CompileCommand(Stored.user, toolchain, Config, file))
    /\ Stored.target_linked =>
         /\ Stored.sources = ToSet(Stored.user.sources)
         /\ Plain(Made.link) = Plain(LinkCommand(Stored.user, toolchain, Config))

(* What the schema calls compiled is what has an object. *)
StoredSourcesMade ==
  stored # {} => Stored.sources = DOMAIN Made.objects /\ Stored.sources \subseteq Files

(* After a run that succeeds the schema is that of the target: the *)
(* fields each task compares, its sources, and a link.             *)
RanOn ==
  phase = "ok" =>
    /\ commands # {} /\ stored # {}
    /\ Stored.target_linked /\ Stored.sources = Sources
    /\ \A f \in ObjectFields \cup LinkFields : Stored.user[f] = User[f]
    /\ HasPchTask
         => Stored.pch_compiled /\ \A f \in PchFields : Stored.user[f] = User[f]

IInv ==
  /\ TypeOK /\ Shapes /\ CachedIsCurrent /\ StoredSourcesMade /\ MadeAsStored /\ RanOn

-----------------------------------------------------------------------------
(* Toolchains, and two commands that are the same. *)

(* Choosing the element of a set of one element. *)
LEMMA UniqueIs == ASSUME NEW x PROVE Unique({x}) = x
BY DEF Unique

LEMMA ConfigOf == TypeOK => Patterns(Config)
<1> SUFFICES ASSUME TypeOK PROVE Patterns(Config)
  OBVIOUS
<1>1. toolchain.id \in {"Gcc", "Msvc", "MinGW"}
  BY KindsAssumption DEF TypeOK
<1>2. \E c : GenericConfig(type, toolchain.id) = {c}
  BY <1>1 DEF GenericConfig
<1>3. Config \in GenericConfig(type, toolchain.id)
  BY <1>2, UniqueIs DEF Config
<1> QED BY <1>3, ConfigIs

(* A toolchain that was found has the default configuration. *)
LEMMA VerifiedIs ==
  ASSUME NEW id \in {"Gcc", "Msvc", "MinGW"}, NEW dir
  PROVE  Verified(id, dir).id = id /\ IsToolchain(Verified(id, dir))
<1> DEFINE e == IF id = "Msvc" THEN MsvcExecutables ELSE GnuExecutables
           t == Toolchain(id, "t", e, DefaultConfig)
<1>1. New(id, "t", {}, {}, {}) = {t}
  BY DEF New
<1>2. t.id = id /\ IsToolchain(t)
  BY DEF Toolchain, Initialize, IsToolchain
<1> HIDE DEF t
<1>3. Verified(id, dir) = [t EXCEPT !.executables = CreateToolchainExecutables(dir, @)]
  BY <1>1, UniqueIs DEF Verified
<1> QED BY <1>2, <1>3 DEF IsToolchain

(* A command without the executables is its pattern filled in. *)
LEMMA PlainIs ==
  ASSUME NEW p, NEW a, p \subseteq DOMAIN a
  PROVE  Plain(Construct(p, a)) = {[k \in p \ Executables |-> a[k]]}
BY DEF Plain, Construct

LEMMA PlainSame ==
  ASSUME NEW p, NEW a, NEW b, p \subseteq DOMAIN a, p \subseteq DOMAIN b,
         \A k \in p \ Executables : a[k] = b[k]
  PROVE  Plain(Construct(p, a)) = Plain(Construct(p, b))
<1>1. [k \in p \ Executables |-> a[k]] = [k \in p \ Executables |-> b[k]]
  OBVIOUS
<1> QED BY <1>1, PlainIs

(* Two commands of one pattern are the same but for the executables when *)
(* their inputs agree on the placeholders of the pattern.                *)
Agree(p, u, v, t, s, more, other) ==
  /\ DOMAIN more = DOMAIN other
  /\ p \subseteq ArgumentKeys \cup DOMAIN more
  /\ \A k \in p \ Executables :
       \/ k \in UserKeys /\ u[k] = v[k]
       \/ k \in PchKeys /\ PchArguments(u, t)[k] = PchArguments(v, s)[k]
       \/ k \in DOMAIN more \ ArgumentKeys /\ more[k] = other[k]

(* The same, of the arguments every task gives a command. *)
LEMMA ArgumentsSame ==
  ASSUME NEW p, NEW u, NEW v, NEW t, NEW s, NEW more, NEW other,
         Agree(p, u, v, t, s, more, other)
  PROVE  Plain(Construct(p, AddDefaultArguments(PchArguments(u, t), more)))
           = Plain(Construct(p, AddDefaultArguments(PchArguments(v, s), other)))
<1> DEFINE a == AddDefaultArguments(PchArguments(u, t), more)
           b == AddDefaultArguments(PchArguments(v, s), other)
<1>1. Arguments(a, u, t, more) /\ Arguments(b, v, s, other)
  BY ArgumentsAre
<1> HIDE DEF a, b
<1>2. p \subseteq DOMAIN a /\ p \subseteq DOMAIN b
  BY <1>1 DEF Arguments, Agree
<1>3. \A k \in UserKeys : a[k] = u[k] /\ b[k] = v[k]
  BY <1>1 DEF Arguments
<1>4. \A k \in PchKeys : a[k] = PchArguments(u, t)[k] /\ b[k] = PchArguments(v, s)[k]
  BY <1>1 DEF Arguments
<1>5. \A k \in DOMAIN more \ ArgumentKeys : a[k] = more[k] /\ b[k] = other[k]
  BY <1>1 DEF Arguments, Agree
<1>6. \A k \in p \ Executables : a[k] = b[k]
  BY <1>3, <1>4, <1>5 DEF Agree
<1>7. Plain(Construct(p, a)) = Plain(Construct(p, b))
  BY <1>2, <1>6, PlainSame
<1> QED BY <1>7 DEF a, b

(* The arguments for the precompiled header depend on whether there is *)
(* one, and on its two flags only.                                     *)
LEMMA PchArgumentsSame ==
  ASSUME NEW u, NEW v, NEW t, NEW s, ContainsPch(u) = ContainsPch(v)
  PROVE  /\ u["pch_compile_flags"] = v["pch_compile_flags"] =>
              PchArguments(u, t)["pch_compile_flags"]
                = PchArguments(v, s)["pch_compile_flags"]
         /\ u["pch_object_flags"] = v["pch_object_flags"] =>
              PchArguments(u, t)["pch_object_flags"]
                = PchArguments(v, s)["pch_object_flags"]
         /\ PchArguments(u, t)["pch_object_output"]
              = PchArguments(v, s)["pch_object_output"]
<1>1. PchFlagsOf(PchArguments(u, t), u) /\ PchFlagsOf(PchArguments(v, s), v)
  BY PchArgumentsAre
<1> QED BY <1>1 DEF PchFlagsOf

(* The command of an object is that of the inputs its task compares. *)
LEMMA ObjectSame ==
  ASSUME NEW u, NEW v, NEW t, NEW s, NEW c, Patterns(c), NEW file,
         t.config = s.config, GetFileExt(t.config, file.ext) \in {"Asm", "C", "Cpp"},
         ContainsPch(u) = ContainsPch(v),
         \A f \in ObjectFields : u[f] = v[f]
  PROVE  Plain(CompileCommand(u, t, c, file)) = Plain(CompileCommand(v, s, c, file))
<1> DEFINE more == ObjectArguments(u, t, file)
           other == ObjectArguments(v, s, file)
           p == c.compile_command
           asked == {"preprocessor_flags", "include_dirs", "common_compile_flags"}
           pch == {"pch_object_flags"}
           own == {"compile_flags", "output", "input"}
<1>1. /\ CompileCommand(u, t, c, file)
           = Construct(p, AddDefaultArguments(PchArguments(u, t), more))
      /\ CompileCommand(v, s, c, file)
           = Construct(p, AddDefaultArguments(PchArguments(v, s), other))
  BY DEF CompileCommand, ObjectArguments
<1>2. ConstructObjectPath(t, file) = ConstructObjectPath(s, file)
  BY DEF ConstructObjectPath
<1>3. SelectCompileFlags(u, GetFileExt(t.config, file.ext))
        = SelectCompileFlags(v, GetFileExt(s.config, file.ext))
  BY DEF SelectCompileFlags, ObjectFields
<1>4. \A k \in own : more[k] = other[k]
  BY <1>2, <1>3 DEF ObjectArguments
<1>5. \A k \in pch : PchArguments(u, t)[k] = PchArguments(v, s)[k]
  BY PchArgumentsSame DEF ObjectFields
<1>6. \A k \in asked : u[k] = v[k]
  BY DEF ObjectFields
<1>7. /\ DOMAIN more = {"compiler", "compile_flags", "output", "input"}
      /\ DOMAIN other = {"compiler", "compile_flags", "output", "input"}
  BY DEF ObjectArguments
<1>8. /\ p \subseteq ArgumentKeys \cup DOMAIN more
      /\ p \ Executables \subseteq asked \cup pch \cup own
      /\ asked \subseteq UserKeys /\ pch \subseteq PchKeys
      /\ own \subseteq DOMAIN more \ ArgumentKeys
  BY <1>7 DEF Patterns, ArgumentKeys, DefaultKeys, UserKeys, PchKeys, Executables
<1> HIDE DEF more, other, p, asked, pch, own
<1>d. DOMAIN more = DOMAIN other
  BY <1>7
<1>9. Plain(Construct(p, AddDefaultArguments(PchArguments(u, t), more)))
        = Plain(Construct(p, AddDefaultArguments(PchArguments(v, s), other)))
  <2>1. Agree(p, u, v, t, s, more, other)
    BY <1>4, <1>5, <1>6, <1>8, <1>d DEF Agree
  <2> QED BY <2>1, ArgumentsSame
<1> QED BY <1>1, <1>9

(* The command of the header is that of the inputs its task compares. *)
LEMMA PchSame ==
  ASSUME NEW u, NEW v, NEW t, NEW s, NEW c, Patterns(c),
         t.config = s.config, NEW language \in {"C", "Cpp"},
         ContainsPch(u) = ContainsPch(v),
         \A f \in PchFields : u[f] = v[f]
  PROVE  Plain(PchCommandIn(u, t, c, language)) = Plain(PchCommandIn(v, s, c, language))
<1> DEFINE more == PchOwnArguments(u, t, language)
           other == PchOwnArguments(v, s, language)
           p == c.pch_command
           asked == {"preprocessor_flags", "include_dirs", "common_compile_flags"}
           pch == {"pch_compile_flags", "pch_object_output"}
           own == {"compile_flags", "output", "input", "input_source"}
<1>1. /\ PchCommandIn(u, t, c, language)
           = Construct(p, AddDefaultArguments(PchArguments(u, t), more))
      /\ PchCommandIn(v, s, c, language)
           = Construct(p, AddDefaultArguments(PchArguments(v, s), other))
  BY DEF PchCommandIn, PchOwnArguments
<1>3. SelectCompileFlags(u, language) = SelectCompileFlags(v, language)
  BY DEF SelectCompileFlags, PchFields
<1>4. \A k \in own : more[k] = other[k]
  BY <1>3 DEF PchOwnArguments
<1>5. \A k \in pch : PchArguments(u, t)[k] = PchArguments(v, s)[k]
  BY PchArgumentsSame DEF PchFields
<1>6. \A k \in asked : u[k] = v[k]
  BY DEF PchFields
<1>7. /\ DOMAIN more = {"compiler", "compile_flags", "output", "input", "input_source"}
      /\ DOMAIN other = {"compiler", "compile_flags", "output", "input", "input_source"}
  BY DEF PchOwnArguments
<1>8. /\ p \subseteq ArgumentKeys \cup DOMAIN more
      /\ p \ Executables \subseteq asked \cup pch \cup own
      /\ asked \subseteq UserKeys /\ pch \subseteq PchKeys
      /\ own \subseteq DOMAIN more \ ArgumentKeys
  BY <1>7 DEF Patterns, ArgumentKeys, DefaultKeys, UserKeys, PchKeys, Executables
<1> HIDE DEF more, other, p, asked, pch, own
<1>d. DOMAIN more = DOMAIN other
  BY <1>7
<1>9. Plain(Construct(p, AddDefaultArguments(PchArguments(u, t), more)))
        = Plain(Construct(p, AddDefaultArguments(PchArguments(v, s), other)))
  <2>1. Agree(p, u, v, t, s, more, other)
    BY <1>4, <1>5, <1>6, <1>8, <1>d DEF Agree
  <2> QED BY <2>1, ArgumentsSame
<1> QED BY <1>1, <1>9

(* The link command is that of the inputs its task compares. *)
LEMMA LinkSame ==
  ASSUME NEW u, NEW v, NEW t, NEW s, NEW c, Patterns(c),
         t.config = s.config, ToSet(u.sources) = ToSet(v.sources),
         ContainsPch(u) = ContainsPch(v),
         \A f \in LinkFields : u[f] = v[f]
  PROVE  Plain(LinkCommand(u, t, c)) = Plain(LinkCommand(v, s, c))
<1> DEFINE more == LinkArguments(u, t, c)
           other == LinkArguments(v, s, c)
           p == c.link_command
           asked == {"link_flags", "lib_dirs"}
           pch == {"pch_object_output"}
           own == {"output", "compiled_sources", "lib_deps"}
<1>1. /\ LinkCommand(u, t, c)
           = Construct(p, AddDefaultArguments(PchArguments(u, t), more))
      /\ LinkCommand(v, s, c)
           = Construct(p, AddDefaultArguments(PchArguments(v, s), other))
  BY DEF LinkCommand, LinkArguments
<1>2. \A file : ConstructObjectPath(t, file) = ConstructObjectPath(s, file)
  BY DEF ConstructObjectPath
<1>3. {ConstructObjectPath(t, file) : file \in ToSet(u.sources)}
       = {ConstructObjectPath(s, file) : file \in ToSet(v.sources)}
  BY <1>2
<1>4. \A k \in own : more[k] = other[k]
  BY <1>3 DEF LinkArguments, LinkFields
<1>5. \A k \in pch : PchArguments(u, t)[k] = PchArguments(v, s)[k]
  BY PchArgumentsSame
<1>6. \A k \in asked : u[k] = v[k]
  BY DEF LinkFields
<1>7. /\ DOMAIN more = {"output", "compiled_sources", "lib_deps"}
      /\ DOMAIN other = {"output", "compiled_sources", "lib_deps"}
  BY DEF LinkArguments
<1>8. /\ p \subseteq ArgumentKeys \cup DOMAIN more
      /\ p \ Executables \subseteq asked \cup pch \cup own
      /\ asked \subseteq UserKeys /\ pch \subseteq PchKeys
      /\ own \subseteq DOMAIN more \ ArgumentKeys
  BY <1>7 DEF Patterns, ArgumentKeys, DefaultKeys, UserKeys, PchKeys, Executables
<1> HIDE DEF more, other, p, asked, pch, own
<1>d. DOMAIN more = DOMAIN other
  BY <1>7
<1>9. Plain(Construct(p, AddDefaultArguments(PchArguments(u, t), more)))
        = Plain(Construct(p, AddDefaultArguments(PchArguments(v, s), other)))
  <2>1. Agree(p, u, v, t, s, more, other)
    BY <1>4, <1>5, <1>6, <1>8, <1>d DEF Agree
  <2> QED BY <2>1, ArgumentsSame
<1> QED BY <1>1, <1>9

(* Toolchains of a script decide alike which sources are valid, and *)
(* their language.                                                  *)
LEMMA ConfigConstant ==
  ASSUME Shapes, NEW ext
  PROVE  /\ IsValidSource(toolchain.config, ext) = IsValidSource(DefaultConfig, ext)
         /\ GetFileExt(toolchain.config, ext) = GetFileExt(DefaultConfig, ext)
BY ConfigsAgree DEF Shapes, IsToolchain

LEMMA KindIs ==
  ASSUME TypeOK PROVE type \in Types /\ toolchain.id \in {"Gcc", "Msvc", "MinGW"}
BY KindsAssumption DEF TypeOK

-----------------------------------------------------------------------------
(* The shapes: what the script can give a target. *)

GivenIs(u) == IsUser(u) /\ SourcesAre(Files, u)

LEMMA InfoIs == GivenIs(InfoInputs)
<1>1. IsUser(InfoInputs)
  BY InfoAssumption, Zenon DEF IsUser
<1>2. SourcesAre(Files, InfoInputs)
  BY FilesAssumption DEF SourcesAre, Files
<1> QED BY <1>1, <1>2 DEF GivenIs

(* What the script makes, and what Add, Glob, Copy and Insert make of *)
(* it, is a target with valid sources.                                *)
LEMMA NewIs ==
  ASSUME TypeOK
  PROVE  \E m : Target_generic(type, toolchain) = {m} /\ GivenIs(m)
<1>1. \E m : SpecializedTarget(type, toolchain) = {m}
  BY KindIs DEF SpecializedTarget
<1>2. PICK m : SpecializedTarget(type, toolchain) = {m}
  BY <1>1
<1>3. IsUser(m) /\ \A f \in Fields \ GenericOptions : TargetInfo(toolchain)[f] = m[f]
  BY <1>2, SpecializedAre
<1>4. "sources" \in Fields \ GenericOptions
  BY DEF Fields, SourceApi, GenericOptions, ToSet, kGenericCopyOptions
<1>5. TargetInfo(toolchain)["sources"] = <<>>
  BY DEF TargetInfo, Fields, SourceApi, FlagFields
<1>6. <<>> \in Seq(Files)
  OBVIOUS
<1>7. SourcesAre(Files, m)
  BY <1>3, <1>4, <1>5, <1>6 DEF SourcesAre
<1> QED BY <1>2, <1>3, <1>7, GenericIs DEF GivenIs

LEMMA AddIs ==
  ASSUME NEW u, GivenIs(u), NEW f \in Fields, NEW value,
         f = "sources" => value \in Files
  PROVE  GivenIs(Add(u, f, value))
<1>1. IsUser(Add(u, f, value))
  BY DEF GivenIs, IsUser, Add
<1>2. CASE f = "sources"
  <2>1. u["sources"] \in Seq(Files) /\ value \in Files
    BY <1>2 DEF GivenIs, SourcesAre
  <2>2. Add(u, f, value)["sources"] = Append(u["sources"], value)
    BY <1>2 DEF GivenIs, IsUser, Add
  <2>3. Append(u["sources"], value) \in Seq(Files)
    BY <2>1
  <2> QED BY <1>1, <2>2, <2>3 DEF SourcesAre, GivenIs
<1>3. CASE f # "sources"
  <2>1. Add(u, f, value)["sources"] = u["sources"]
    BY <1>3 DEF GivenIs, IsUser, Add, Fields, SourceApi
  <2> QED BY <1>1, <2>1 DEF SourcesAre, GivenIs
<1> QED BY <1>2, <1>3

LEMMA GlobIs ==
  ASSUME NEW u, GivenIs(u), NEW t, NEW files
  PROVE  GivenIs(Glob(u, t, "headers", files))
<1> DEFINE more == SelectSeq(files, LAMBDA file : Accepts(t, "headers", file))
<1>1. Glob(u, t, "headers", files) = AddAll(u, "headers", more)
  BY DEF Glob
<1> HIDE DEF more
<1>2. IsUser(AddAll(u, "headers", more)) /\
      AddAll(u, "headers", more)["sources"] = u["sources"]
  BY DEF GivenIs, IsUser, AddAll, Fields, SourceApi
<1> QED BY <1>1, <1>2 DEF GivenIs, SourcesAre

LEMMA TakenIs ==
  ASSUME NEW to, NEW from, NEW options, NEW how, NEW pair, NEW n,
         Taken(pair, to, from, options, how, n), GivenIs(to), GivenIs(from)
  PROVE  pair = <<pair[1], pair[2]>> /\ GivenIs(pair[1]) /\ GivenIs(pair[2])
BY DEF Taken, GivenIs

LEMMA TakeIs ==
  ASSUME NEW to, NEW from, NEW options \in Options, NEW moved,
         GivenIs(to), GivenIs(from)
  PROVE  /\ GivenIs(Copy(to, from, options, moved)[1])
         /\ GivenIs(Copy(to, from, options, moved)[2])
         /\ GivenIs(Insert(to, from, options, moved)[1])
         /\ GivenIs(Insert(to, from, options, moved)[2])
<1>1. options \in Seq(Fields)
  BY OptionsAssumption
<1>2. Taken(Copy(to, from, options, moved), to, from, options, "Copy", Len(options))
  BY <1>1, CopyTakes DEF GivenIs
<1>3. Taken(Insert(to, from, options, moved), to, from, options, "Insert", Len(options))
  BY <1>1, InsertTakes DEF GivenIs
<1> QED BY <1>2, <1>3, TakenIs

(* A source that Add accepts is valid. *)
LEMMA AcceptedIs ==
  ASSUME Shapes, NEW c \in Calls, Accepts(toolchain, c[1], c[2]), c[1] = "sources"
  PROVE  c[2] \in Files
<1>1. c[2] \in SourceFiles
  BY DEF SourceFiles
<1>2. IsValidSource(toolchain.config, c[2].ext)
  BY DEF Accepts
<1> QED BY <1>1, <1>2, ConfigConstant DEF Files

LEMMA ShapesInit == Init => TypeOK /\ Shapes
<1> SUFFICES ASSUME Init PROVE TypeOK /\ Shapes
  OBVIOUS
<1>1. PICK kind \in Kinds : type = kind[1] /\ toolchain = Verified(kind[2], Dirs[1])
  BY DEF Init
<1>2. kind = <<kind[1], kind[2]>> /\ kind[2] \in {"Gcc", "Msvc", "MinGW"}
  BY KindsAssumption
<1>3. toolchain.id = kind[2] /\ IsToolchain(toolchain)
  BY <1>1, <1>2, VerifiedIs
<1>4. DOMAIN InfoInputs = Fields
  BY InfoIs DEF GivenIs, IsUser
<1>5. TypeOK
  BY <1>1, <1>2, <1>3, <1>4, BoundAssumption DEF Init, TypeOK, Phases
<1> QED BY <1>3, <1>5, InfoIs DEF Init, Shapes, GivenIs

(* A step of the script that leaves the disk as it is. *)
LEMMA ScriptShapes ==
  ASSUME TypeOK, Shapes,
         UNCHANGED <<type, disk, processes>>,
         toolchain'.id = toolchain.id, IsToolchain(toolchain'),
         late' \subseteq Fields,
         phase' \in Phases, calls' \in 0..MaxCalls,
         commands' # {} => user' # {},
         \A u \in user' : user' = {u} /\ GivenIs(u), GivenIs(info'),
         \A c \in commands' : commands' = {c}
  PROVE  TypeOK' /\ Shapes'
<1>1. /\ \A x \in user' : x = User' /\ GivenIs(x)
      /\ \A x \in commands' : x = Cached'
  BY UniqueIs DEF User, Cached
<1>2. Stored' = Stored /\ Made' = Made /\ stored' = stored /\ made' = made
  BY DEF disk, Stored, Made
<1>3. TypeOK'
  BY <1>1, <1>2 DEF TypeOK, GivenIs, IsUser
<1>4. Shapes'
  BY <1>1, <1>2 DEF Shapes, GivenIs
<1> QED BY <1>3, <1>4

(* What the shapes say of each single value. *)
LEMMA UserIs ==
  ASSUME Shapes
  PROVE  /\ GivenIs(info) /\ IsToolchain(toolchain)
         /\ \A u \in user : user = {u} /\ GivenIs(u)
         /\ \A c \in commands : commands = {c}
         /\ user # {} => user = {User} /\ GivenIs(User)
         /\ commands # {} => commands = {Cached}
BY DEF Shapes, GivenIs

(* What a task that stores leaves of the disk. *)
LEMMA TaskShapes ==
  ASSUME TypeOK, Shapes, commands # {}, phase' \in Phases,
         UNCHANGED <<type, toolchain, script, calls, processes>>,
         NEW linked, Store(linked), MadeNow(linked)
  PROVE  TypeOK' /\ Shapes'
<1>1. user # {} /\ user = {User} /\ GivenIs(User)
  BY UserIs DEF TypeOK
<1>2. User' = User /\ Cached' = Cached
  BY DEF script, User, Cached
<1>3. Stored' = NewStore(linked) /\ Made' = NewOutputs(linked)
      /\ stored' = {Stored'} /\ made' = {Made'}
  BY UniqueIs DEF Store, MadeNow, Stored, Made
<1>4. NewStore(linked).user["sources"] = User["sources"]
  BY DEF NewStore, JsonFields
<1>5. SourcesAre(Files, Stored'.user)
  BY <1>1, <1>3, <1>4 DEF SourcesAre, GivenIs
<1>6. TypeOK'
  BY <1>3 DEF TypeOK, script
<1>7. Shapes'
  BY <1>2, <1>3, <1>5 DEF Shapes, script
<1> QED BY <1>6, <1>7

(* One step per action. *)
LEMMA ShapesNext == TypeOK /\ Shapes /\ [Next]_vars => TypeOK' /\ Shapes'
<1> SUFFICES ASSUME TypeOK, Shapes, [Next]_vars PROVE TypeOK' /\ Shapes'
  OBVIOUS
<1> USE UserIs
<1>0. TypeOK /\ Call => calls' \in 0..MaxCalls
  BY BoundAssumption DEF TypeOK, Call
<1>1. ASSUME NEW value, ToolchainFlag("link_flags", value) PROVE TypeOK' /\ Shapes'
  <2>1. toolchain'.id = toolchain.id /\ IsToolchain(toolchain')
    BY <1>1 DEF ToolchainFlag, IsToolchain
  <2> QED BY <1>0, <1>1, <2>1, ScriptShapes
          DEF ToolchainFlag, Call, Scripting, script, disk, TypeOK, Phases
<1>2. CASE NewTarget
  <2>1. PICK m : Target_generic(type, toolchain) = {m} /\ GivenIs(m)
    BY NewIs
  <2> QED BY <1>2, <2>1, ScriptShapes DEF NewTarget, Scripting, disk, TypeOK, Phases
<1>3. ASSUME NEW c \in Calls, AddCall(c[1], c[2]) PROVE TypeOK' /\ Shapes'
  <2>1. GivenIs(Add(User, c[1], c[2]))
    BY <1>3, CallsAssumption, AcceptedIs, AddIs DEF AddCall
  <2>2. late' \subseteq Fields
    BY <1>3, CallsAssumption DEF AddCall, Changed, TypeOK
  <2> QED BY <1>0, <1>3, <2>1, <2>2, ScriptShapes
          DEF AddCall, Call, Scripting, disk, TypeOK, Phases
<1>4. ASSUME NEW c \in Calls, AddRefused(c[1], c[2]) PROVE TypeOK' /\ Shapes'
  BY <1>0, <1>4, ScriptShapes
  DEF AddRefused, Call, Exit, Scripting, script, disk, TypeOK, Phases
<1>5. CASE GlobCall
  <2>1. GivenIs(Glob(User, toolchain, "headers", DirHeaders))
    BY <1>5, GlobIs DEF GlobCall
  <2>2. late' \subseteq Fields
    BY <1>5 DEF GlobCall, Changed, TypeOK, Fields, IncludeApi
  <2> QED BY <1>0, <1>5, <2>1, <2>2, ScriptShapes
          DEF GlobCall, Call, Scripting, disk, TypeOK, Phases
<1>6. ASSUME NEW o \in Options, NEW moved \in BOOLEAN,
             CopyCall(o, moved) \/ InsertCall(o, moved)
      PROVE  TypeOK' /\ Shapes'
  <2>1. PICK pair : user # {} /\ Call /\ Took(pair, o) /\ GivenIs(pair[1])
               /\ GivenIs(pair[2])
    <3>1. CASE CopyCall(o, moved)
      BY <3>1, TakeIs DEF CopyCall
    <3>2. CASE InsertCall(o, moved)
      BY <3>2, TakeIs DEF InsertCall
    <3> QED BY <1>6, <3>1, <3>2
  <2>2. ToSet(o) \subseteq Fields
    BY OptionsAssumption DEF ToSet
  <2>3. late' \subseteq Fields
    BY <2>1, <2>2 DEF Took, TypeOK
  <2> QED BY <1>0, <2>1, <2>3, ScriptShapes
          DEF Took, Call, Scripting, disk, TypeOK, Phases
<1>7. CASE BuildCall
  BY <1>7, ScriptShapes DEF BuildCall, Scripting, disk, TypeOK, Phases
<1>8. CASE RunDirty
  BY <1>8, TaskShapes DEF RunDirty, Run, Phases
<1>9. CASE RunClean
  BY <1>9, ScriptShapes DEF RunClean, Run, script, TypeOK, Phases
<1>10. CASE RunFails
  BY <1>10, TaskShapes DEF RunFails, Run, Phases
<1>11. CASE NextProcess
  <2>1. toolchain'.id = toolchain.id /\ IsToolchain(toolchain')
    BY <1>11, KindIs, VerifiedIs DEF NextProcess
  <2>2. DOMAIN InfoInputs = Fields
    BY InfoIs DEF GivenIs, IsUser
  <2>3. TypeOK'
    BY <1>11, <2>1, <2>2, BoundAssumption DEF NextProcess, disk, TypeOK, Phases
  <2>4. Shapes'
    BY <1>11, <2>1, InfoIs DEF NextProcess, disk, Shapes, GivenIs, Stored, Made
  <2> QED BY <2>3, <2>4
<1>12. CASE UNCHANGED vars
  BY <1>12, ScriptShapes DEF vars, script, TypeOK
<1> QED BY <1>1, <1>2, <1>3, <1>4, <1>5, <1>6, <1>7, <1>8, <1>9, <1>10, <1>11,
           <1>12 DEF Next

-----------------------------------------------------------------------------
(* Commands are constructed, and objects have paths of their own. *)

(* Only Build, and a Build called again, changes the commands. *)
LEMMA ConstructedStep ==
  ASSUME TypeOK, [Next]_vars
  PROVE  commands' # commands /\ commands' # {} => Constructed(User, Unique(commands'))
<1> SUFFICES ASSUME commands' # commands, commands' # {}
             PROVE  Constructed(User, Unique(commands'))
  OBVIOUS
<1>1. commands' = {Commands(User, toolchain, Config)}
  BY DEF Next, ToolchainFlag, NewTarget, AddCall, AddRefused, Exit, GlobCall, CopyCall,
         InsertCall, Took, BuildCall, RunDirty, RunClean, RunFails, Run, NextProcess,
         vars, script
<1>2. Patterns(Config)
  BY ConfigOf
<1>3. Unique(commands') = Commands(User, toolchain, Config)
  BY <1>1, UniqueIs
<1> QED BY <1>2, <1>3, CommandsAreConstructed

(* The path of an object gives the source's name and extension back, how *)
(* deep it is, and its directories when the search finds no two dots.    *)
LEMMA SharedObject ==
  ASSUME NEW t, NEW f \in Files, NEW g \in Files, f # g,
         ConstructObjectPath(t, f) = ConstructObjectPath(t, g)
  PROVE  /\ HasDotDot(f) \/ HasDotDot(g)
         /\ f.name = g.name /\ f.ext = g.ext
         /\ Len(f.dirs) = Len(g.dirs)
<1>1. /\ f = [dirs |-> f.dirs, name |-> f.name, ext |-> f.ext]
      /\ g = [dirs |-> g.dirs, name |-> g.name, ext |-> g.ext]
      /\ f.dirs \in Seq(ToSet(f.dirs)) /\ g.dirs \in Seq(ToSet(g.dirs))
  BY FilesAssumption DEF Files
<1>2. PICK df, dg :
        /\ df = IF HasDotDot(f)
                THEN [i \in DOMAIN f.dirs |-> Sanitized(f.dirs[i])] ELSE f.dirs
        /\ dg = IF HasDotDot(g)
                THEN [i \in DOMAIN g.dirs |-> Sanitized(g.dirs[i])] ELSE g.dirs
  OBVIOUS
<1> DEFINE pf == <<f.name, f.ext, t.config.obj_ext>>
           pg == <<g.name, g.ext, t.config.obj_ext>>
<1>3. df = dg /\ pf = pg
  <2> DEFINE a == [dirs |-> df, file |-> pf]
             b == [dirs |-> dg, file |-> pg]
  <2>1. a.dirs = df /\ a.file = pf /\ b.dirs = dg /\ b.file = pg
    OBVIOUS
  <2>2. a = b
    BY <1>2 DEF ConstructObjectPath
  <2> QED BY <2>1, <2>2
<1>4. pf[1] = f.name /\ pf[2] = f.ext /\ pg[1] = g.name /\ pg[2] = g.ext
  OBVIOUS
<1>5. f.name = g.name /\ f.ext = g.ext
  BY <1>3, <1>4
<1>6. Len(f.dirs) = Len(g.dirs)
  <2>1. DOMAIN df = DOMAIN f.dirs /\ DOMAIN dg = DOMAIN g.dirs
    BY <1>2
  <2>2. DOMAIN f.dirs = 1..Len(f.dirs) /\ DOMAIN g.dirs = 1..Len(g.dirs)
        /\ Len(f.dirs) \in Nat /\ Len(g.dirs) \in Nat
    BY <1>1
  <2>3. 1..Len(f.dirs) = 1..Len(g.dirs)
    BY <1>3, <2>1, <2>2
  <2> QED BY <2>2, <2>3
<1>7. ASSUME ~HasDotDot(f), ~HasDotDot(g) PROVE FALSE
  <2>1. f.dirs = g.dirs
    BY <1>2, <1>3, <1>7
  <2> QED BY <1>1, <1>5, <2>1, Zenon
<1> QED BY <1>5, <1>6, <1>7

LEMMA ShapesDistinct == Shapes => ObjectsDistinct
<1> SUFFICES ASSUME Shapes, NEW u \in user, NEW f \in ToSet(u.sources),
                      NEW g \in ToSet(u.sources), f # g,
                    ConstructObjectPath(toolchain, f) =
                      ConstructObjectPath(toolchain, g)
             PROVE  /\ HasDotDot(f) \/ HasDotDot(g)
                    /\ f.name = g.name /\ f.ext = g.ext
                    /\ Len(f.dirs) = Len(g.dirs)
  BY DEF ObjectsDistinct
<1>1. u.sources \in Seq(Files)
  BY DEF Shapes, SourcesAre
<1>2. f \in Files /\ g \in Files
  BY <1>1 DEF ToSet
<1> QED BY <1>2, SharedObject

-----------------------------------------------------------------------------
(* The commands are current until a field they name is changed. *)

(* The commands are those of the fields that late calls are noted for. *)
LEMMA CommandsSame ==
  ASSUME NEW u, NEW v, NEW t, NEW s, NEW c, \A f \in CommandFields : u[f] = v[f],
         t.config = s.config, t.executables = s.executables,
         \A file \in ToSet(u.sources) : GetFileExt(t.config, file.ext) \in
           {"Asm", "C", "Cpp"}
  PROVE  Commands(u, t, c) = Commands(v, s, c)
<1>1. /\ u.sources = v.sources /\ u.libs = v.libs /\ u.external_libs = v.external_libs
      /\ u.pchs = v.pchs
      /\ u.pch_compile_flags = v.pch_compile_flags
      /\ u.pch_object_flags = v.pch_object_flags
      /\ u.asm_compile_flags = v.asm_compile_flags /\ u.c_compile_flags
           = v.c_compile_flags
      /\ u.cpp_compile_flags = v.cpp_compile_flags
      /\ \A f \in UserKeys : u[f] = v[f]
  BY DEF CommandFields, Fields, SourceApi, IncludeApi, LibApi, PchApi, DepsApi,
      FlagFields, UserKeys
<1>2. ContainsPch(u) = ContainsPch(v)
  BY <1>1 DEF ContainsPch
<1>3. PchLanguage(u, t) = PchLanguage(v, s)
  BY <1>1 DEF PchLanguage, ContainsSource
<1>4. DefaultArguments(u, t) = DefaultArguments(v, s)
  <2>1. [f \in UserKeys |-> u[f]] = [f \in UserKeys |-> v[f]]
    BY <1>1
  <2> QED BY <2>1 DEF DefaultArguments, UserKeys
<1>5. PchArguments(u, t) = PchArguments(v, s)
  BY <1>1, <1>2, <1>4 DEF PchArguments
<1>6. \A ty : SelectCompiler(t, ty) = SelectCompiler(s, ty)
  BY DEF SelectCompiler
<1>7. \A ty \in {"Asm", "C", "Cpp"} :
        SelectCompileFlags(u, ty) = SelectCompileFlags(v, ty)
  BY <1>1 DEF SelectCompileFlags
<1>8. \A file : ConstructObjectPath(t, file) = ConstructObjectPath(s, file)
  BY DEF ConstructObjectPath
<1>9. PchCommand(u, t, c) = PchCommand(v, s, c)
  <2>1. PchLanguage(u, t) \in {"C", "Cpp"}
    BY DEF PchLanguage
  <2> QED BY <2>1, <1>3, <1>5, <1>6, <1>7 DEF PchCommand
<1>10. LinkCommand(u, t, c) = LinkCommand(v, s, c)
  <2>1. {ConstructObjectPath(t, file) : file \in ToSet(u.sources)} =
          {ConstructObjectPath(s, file) : file \in ToSet(v.sources)}
    BY <1>1, <1>8
  <2> QED BY <2>1, <1>1, <1>5 DEF LinkCommand
<1>11. \A file \in ToSet(u.sources) :
         CompileCommand(u, t, c, file) = CompileCommand(v, s, c, file)
  <2> SUFFICES ASSUME NEW file \in ToSet(u.sources)
               PROVE  CompileCommand(u, t, c, file) = CompileCommand(v, s, c, file)
    OBVIOUS
  <2>1. GetFileExt(t.config, file.ext) \in {"Asm", "C", "Cpp"} /\ t.config = s.config
    OBVIOUS
  <2>2. SelectCompileFlags(u, GetFileExt(t.config, file.ext))
          = SelectCompileFlags(v, GetFileExt(t.config, file.ext))
    BY <1>7, <2>1
  <2> QED BY <1>5, <1>6, <1>8, <2>1, <2>2 DEF CompileCommand
<1> QED BY <1>1, <1>2, <1>9, <1>10, <1>11 DEF Commands

LEMMA SourceFilesAre ==
  ASSUME Shapes, NEW file \in Files
  PROVE  GetFileExt(toolchain.config, file.ext) \in {"Asm", "C", "Cpp"}
BY ConfigConstant, SourceTypes DEF Files

LEMMA SourcesAreFiles ==
  ASSUME NEW u, GivenIs(u)
  PROVE  ToSet(u.sources) \subseteq Files
<1>1. u.sources \in Seq(Files)
  BY DEF GivenIs, SourcesAre
<1> QED BY <1>1 DEF ToSet

(* Calls that take no field late keep the commands those of the target. *)
LEMMA LateKeeps ==
  ASSUME Shapes, CachedIsCurrent, commands # {} => user # {},
         UNCHANGED <<type, commands>>, toolchain'.id = toolchain.id,
         toolchain'.config = toolchain.config,
         toolchain'.executables = toolchain.executables,
         late \subseteq late',
         commands # {} => \A f \in Fields \ late' : User'[f] = User[f]
  PROVE  CachedIsCurrent'
<1> SUFFICES ASSUME commands' # {}, LateHole' = {}
             PROVE  Cached' = Commands(User', toolchain', Config')
  BY DEF CachedIsCurrent
<1>1. commands # {} /\ Cached' = Cached /\ Config' = Config
  BY DEF Cached, Config
<1>2. late' \cap CommandFields = {}
  BY DEF LateHole
<1>3. LateHole = {}
  BY <1>2 DEF LateHole
<1>4. Cached = Commands(User, toolchain, Config)
  BY <1>1, <1>3 DEF CachedIsCurrent
<1>5. \A f \in CommandFields : User[f] = User'[f]
  BY <1>1, <1>2 DEF CommandFields
<1>6. \A file \in ToSet(User.sources) :
        GetFileExt(toolchain.config, file.ext) \in {"Asm", "C", "Cpp"}
  BY <1>1, UserIs, SourcesAreFiles, SourceFilesAre
<1>7. Commands(User, toolchain, Config) = Commands(User', toolchain', Config)
  BY <1>5, <1>6, CommandsSame
<1> QED BY <1>1, <1>4, <1>7

(* Every step keeps the commands current, or notes the field. *)
LEMMA CachedNext ==
  ASSUME TypeOK, Shapes, CachedIsCurrent, [Next]_vars PROVE CachedIsCurrent'
<1> USE UserIs DEF TypeOK
<1>1. ASSUME NEW value, ToolchainFlag("link_flags", value) PROVE CachedIsCurrent'
  BY <1>1, LateKeeps DEF ToolchainFlag, script, User, Shapes, IsToolchain
<1>2. CASE NewTarget
  BY <1>2 DEF NewTarget, CachedIsCurrent
<1>3. ASSUME NEW c \in Calls, AddCall(c[1], c[2]) PROVE CachedIsCurrent'
  <2>1. User' = Add(User, c[1], c[2])
    BY <1>3, UniqueIs DEF AddCall, User
  <2>2. \A f \in Fields \ {c[1]} : User'[f] = User[f]
    BY <1>3, <2>1 DEF AddCall, Add, GivenIs, IsUser
  <2> QED BY <1>3, <2>2, LateKeeps, CallsAssumption DEF AddCall, Changed
<1>4. ASSUME NEW c \in Calls, AddRefused(c[1], c[2]) PROVE CachedIsCurrent'
  BY <1>4, LateKeeps DEF AddRefused, Exit, script, User
<1>5. CASE GlobCall
  <2>1. User' = Glob(User, toolchain, "headers", DirHeaders)
    BY <1>5, UniqueIs DEF GlobCall, User
  <2>2. \A f \in Fields \ {"headers"} : User'[f] = User[f]
    BY <1>5, <2>1 DEF GlobCall, Glob, AddAll, GivenIs, IsUser
  <2> QED BY <1>5, <2>2, LateKeeps DEF GlobCall, Changed
<1>6. ASSUME NEW o \in Options, NEW moved \in BOOLEAN,
             CopyCall(o, moved) \/ InsertCall(o, moved)
      PROVE  CachedIsCurrent'
  <2>1. \E how : \E pair : /\ user # {} /\ Took(pair, o)
                           /\ Taken(pair, User, info, o, how, Len(o))
    BY <1>6, CopyTakes, InsertTakes, OptionsAssumption DEF CopyCall, InsertCall, GivenIs
  <2>2. PICK how, pair : user # {} /\ Took(pair, o)
               /\ Taken(pair, User, info, o, how, Len(o))
    BY <2>1
  <2>3. User' = pair[1]
    BY <2>2, UniqueIs DEF Took, User
  <2>4. \A f \in Fields \ ToSet(o) : User'[f] = User[f]
    BY <2>2, <2>3, OptionsAssumption DEF Taken, ToSet
  <2> QED BY <2>2, <2>4, LateKeeps DEF Took
<1>7. CASE BuildCall
  <2>1. Cached' = Commands(User, toolchain, Config)
    BY <1>7, UniqueIs DEF BuildCall, Cached
  <2> QED BY <1>7, <2>1 DEF BuildCall, CachedIsCurrent, User, Config
<1>8. CASE RunDirty \/ RunClean \/ RunFails
  BY <1>8, LateKeeps DEF RunDirty, RunClean, RunFails, Run, script, User
<1>9. CASE NextProcess
  BY <1>9 DEF NextProcess, CachedIsCurrent
<1>10. CASE UNCHANGED vars
  BY <1>10, LateKeeps DEF vars, script, User
<1> QED BY <1>1, <1>2, <1>3, <1>4, <1>5, <1>6, <1>7, <1>8, <1>9, <1>10 DEF Next

-----------------------------------------------------------------------------
(* What is on disk was made by the commands of what is stored. *)

(* What is said of the disk alone. *)
DiskInv == StoredSourcesMade /\ MadeAsStored

LEMMA StoredFiles == Shapes /\ stored # {} => ToSet(Stored.user.sources) \subseteq Files
<1> SUFFICES ASSUME Shapes, stored # {} PROVE ToSet(Stored.user.sources) \subseteq Files
  OBVIOUS
<1>1. Stored.user.sources \in Seq(Files)
  BY DEF Shapes, SourcesAre
<1> QED BY <1>1 DEF ToSet

(* Another process, or another flag of the toolchain, asks for the same. *)
LEMMA DiskKept ==
  ASSUME TypeOK, Shapes, DiskInv, UNCHANGED <<type, disk>>,
         toolchain'.id = toolchain.id, toolchain'.config = toolchain.config
  PROVE  DiskInv'
<1> DEFINE u == Stored.user
<1>1. /\ Stored' = Stored /\ Made' = Made /\ stored' = stored /\ made' = made
      /\ Config' = Config
  BY DEF disk, Stored, Made, Config
<1>2. StoredSourcesMade'
  BY <1>1 DEF DiskInv, StoredSourcesMade
<1>3. Patterns(Config)
  BY ConfigOf
<1>4. ASSUME made # {}, NEW file \in Stored.sources
      PROVE  Plain(CompileCommand(u, toolchain, Config, file))
               = Plain(CompileCommand(u, toolchain', Config, file))
  <2>1. GetFileExt(toolchain.config, file.ext) \in {"Asm", "C", "Cpp"}
    BY <1>4, SourceFilesAre DEF DiskInv, StoredSourcesMade, TypeOK
  <2> QED BY <1>3, <2>1, ObjectSame
<1>5. \A language \in {"C", "Cpp"} :
        Plain(PchCommandIn(u, toolchain, Config, language))
          = Plain(PchCommandIn(u, toolchain', Config, language))
  BY <1>3, PchSame
<1>6. Plain(LinkCommand(u, toolchain, Config))
        = Plain(LinkCommand(u, toolchain', Config))
  BY <1>3, LinkSame
<1>7. MadeAsStored'
  BY <1>1, <1>4, <1>5, <1>6 DEF DiskInv, MadeAsStored
<1> QED BY <1>2, <1>7 DEF DiskInv

(* Whether there is a task for the precompiled header is decided at Build. *)
LEMMA CachedIs ==
  ASSUME TypeOK, Shapes, CachedIsCurrent, commands # {}, LateHole = {}
  PROVE  /\ HasPchTask <=> ContainsPch(User)
         /\ HasPchTask => Cached.pch
              = PchCommandIn(User, toolchain, Config, PchLanguage(User, toolchain))
         /\ DOMAIN Cached.objects = Sources
         /\ \A file \in Sources :
              Cached.objects[file] = CompileCommand(User, toolchain, Config, file)
         /\ Cached.link = LinkCommand(User, toolchain, Config)
<1>1. Cached = Commands(User, toolchain, Config)
  BY DEF CachedIsCurrent
<1>2. Patterns(Config)
  BY ConfigOf
<1>3. Constructed(User, Cached)
  BY <1>1, <1>2, CommandsAreConstructed
<1>4. /\ Cached.pch
           = IF ContainsPch(User) THEN PchCommand(User, toolchain, Config) ELSE {}
      /\ Cached.objects
           = [file \in Sources |-> CompileCommand(User, toolchain, Config, file)]
      /\ Cached.link = LinkCommand(User, toolchain, Config)
  BY <1>1 DEF Commands, Sources
<1>5. HasPchTask <=> ContainsPch(User)
  BY <1>3, <1>4 DEF Constructed, HasPchTask
<1>6. PchCommand(User, toolchain, Config)
        = PchCommandIn(User, toolchain, Config, PchLanguage(User, toolchain))
  BY DEF PchCommand, PchCommandIn
<1> QED BY <1>4, <1>5, <1>6

(* What a task that stores writes is what the target has by then. *)
StoredNow(linked) ==
  /\ Stored' = NewStore(linked) /\ Made' = NewOutputs(linked)
  /\ stored' # {} /\ made' # {}

LEMMA TaskStores ==
  ASSUME NEW linked, Store(linked), MadeNow(linked) PROVE StoredNow(linked)
BY UniqueIs DEF Store, MadeNow, Stored, Made, StoredNow

(* The schema that a task stores, field by field. *)
LEMMA NewStoreIs ==
  ASSUME NEW linked
  PROVE  /\ \A f \in JsonFields \ {"pchs"} : NewStore(linked).user[f] = User[f]
         /\ HasPchTask => NewStore(linked).user["pchs"] = User["pchs"]
         /\ ~HasPchTask => NewStore(linked).user["pchs"] = <<>>
         /\ NewStore(linked).sources = CompiledNow
         /\ NewStore(linked).pch_compiled = HasPchTask
         /\ NewStore(linked).target_linked = linked
BY DEF NewStore, JsonFields

LEMMA CompiledFiles ==
  ASSUME TypeOK, Shapes, commands # {}
  PROVE  Sources \subseteq Files /\ CompiledNow \subseteq Sources
BY UserIs, SourcesAreFiles DEF TypeOK, Sources, CompiledNow, Compiled, SelectedSources

(* Every field a task compares is a field of the schema. *)
LEMMA ComparedFields ==
  /\ ObjectFields \subseteq JsonFields \ {"pchs"}
  /\ LinkFields \subseteq JsonFields \ {"pchs"}
  /\ PchFields \subseteq JsonFields /\ "pchs" \in PchFields
  /\ "sources" \in JsonFields \ {"pchs"}
BY DEF ObjectFields, LinkFields, PchFields, JsonFields

(* What was compiled before and is kept was compiled as it would be now. *)
LEMMA KeptIs ==
  ASSUME Shapes, MadeAsStored, (stored = {} <=> made = {}),
         ~MadeAgain, PchHoles = {}, PastHoles = {}
  PROVE  /\ stored # {} /\ made # {} /\ Made.holes = {}
         /\ ~CompilesPch /\ HasPchTask =>
              Stored.pch_compiled /\ \A f \in PchFields : Stored.user[f] = User[f]
         /\ Stored.pch_compiled = HasPchTask
         /\ ContainsPch(Stored.user) = HasPchTask
         /\ ~CompilesAll => \A f \in ObjectFields : Stored.user[f] = User[f]
<1>1. ~CompilesAll \/ (HasPchTask /\ ~CompilesPch)
  BY DEF MadeAgain
<1>2. stored # {}
  BY <1>1 DEF CompilesAll, CompilesPch, Differs
<1>3. \A s \in stored : s = Stored
  BY DEF Shapes
<1>4. made # {} /\ Made.holes = {}
  BY <1>2 DEF PastHoles
<1>5. ~CompilesPch /\ HasPchTask =>
        Stored.pch_compiled /\ \A f \in PchFields : Stored.user[f] = User[f]
  BY <1>2, <1>3 DEF CompilesPch, Differs
<1>6. ~CompilesAll => \A f \in ObjectFields : Stored.user[f] = User[f]
  BY <1>2, <1>3 DEF CompilesAll, Differs
<1>7. Stored.pch_compiled = ContainsPch(Stored.user)
  BY <1>4 DEF MadeAsStored
<1>8. Stored.pch_compiled = HasPchTask
  <2>1. CASE HasPchTask
    <3>1. ~CompilesPch
      BY <2>1, <1>1 DEF CompilesAll
    <3> QED BY <2>1, <3>1, <1>5, <1>7 DEF ContainsPch
  <2>2. CASE ~HasPchTask
    <3>1. ~Stored.pch_compiled
      BY <2>2, <1>2 DEF PchHoles
    <3> QED BY <2>2, <3>1, <1>7 DEF ContainsPch, HasPchTask
  <2> QED BY <2>1, <2>2
<1> QED BY <1>2, <1>4, <1>5, <1>6, <1>7, <1>8

(* The proof that matters: a task that stores, whether it links or stops *)
(* before, leaves outputs made by the commands of the stored target.     *)
(* What it made again is of the current commands; what it kept agrees on *)
(* every field its task compares, and a command names no other.          *)
LEMMA TaskMakes ==
  ASSUME TypeOK, Shapes, CachedIsCurrent, DiskInv, commands # {},
         UNCHANGED <<type, toolchain, script>>,
         NEW linked, linked => Compiled = SelectedSources,
         Store(linked), MadeNow(linked)
  PROVE  DiskInv'
<1> DEFINE u == NewStore(linked).user
<1>1. StoredNow(linked)
  BY TaskStores
<1>2. Config' = Config /\ toolchain' = toolchain
  BY DEF Config
<1>3. StoredSourcesMade'
  <2>1. NewStore(linked).sources = CompiledNow
        /\ DOMAIN NewOutputs(linked).objects = CompiledNow
    BY NewStoreIs DEF NewOutputs
  <2> QED BY <1>1, <2>1, CompiledFiles DEF StoredNow, StoredSourcesMade
<1>4. ASSUME NewOutputs(linked).holes = {}
      PROVE  /\ NewStore(linked).pch_compiled = ContainsPch(u)
             /\ NewStore(linked).pch_compiled =>
                  /\ NewOutputs(linked).language \in {"C", "Cpp"}
                  /\ Plain(NewOutputs(linked).pch) =
                       Plain(PchCommandIn(u, toolchain, Config,
                         NewOutputs(linked).language))
             /\ \A file \in CompiledNow :
                  Plain(NewOutputs(linked).objects[file]) =
                    Plain(CompileCommand(u, toolchain, Config, file))
             /\ linked =>
                  /\ CompiledNow = ToSet(u.sources)
                  /\ Plain(NewOutputs(linked).link)
                       = Plain(LinkCommand(u, toolchain, Config))
  <2>1. NewOutputs(linked).holes
          = LateHole \cup (IF MadeAgain THEN {} ELSE PastHoles \cup PchHoles)
    BY DEF NewOutputs
  <2>2. LateHole = {} /\ (MadeAgain \/ (PastHoles = {} /\ PchHoles = {}))
    BY <1>4, <2>1
  <2>3. Patterns(Config)
    BY ConfigOf
  <2>4. ContainsPch(User) = ContainsPch(u) /\ ContainsPch(u) = HasPchTask
    BY <2>2, CachedIs, NewStoreIs DEF ContainsPch, HasPchTask
  <2>5. \A f \in ObjectFields \cup LinkFields \cup {"sources"} : u[f] = User[f]
    BY NewStoreIs, ComparedFields
  <2>6. HasPchTask => \A f \in PchFields : User[f] = u[f]
    <3>1. /\ \A f \in JsonFields \ {"pchs"} : u[f] = User[f]
          /\ HasPchTask => u["pchs"] = User["pchs"]
      BY NewStoreIs
    <3> QED BY <3>1, ComparedFields
  <2>7. ~MadeAgain
          => PastHoles = {} /\ PchHoles = {} /\ stored # {} /\ made # {}
             /\ Made.holes = {}
    BY <2>2, KeptIs DEF TypeOK, DiskInv
  <2>8. HasPchTask =>
          /\ NewOutputs(linked).language \in {"C", "Cpp"}
          /\ Plain(NewOutputs(linked).pch) =
               Plain(PchCommandIn(u, toolchain, Config, NewOutputs(linked).language))
    <3> SUFFICES ASSUME HasPchTask
                 PROVE  /\ NewOutputs(linked).language \in {"C", "Cpp"}
                        /\ Plain(NewOutputs(linked).pch) =
                             Plain(PchCommandIn(u, toolchain, Config,
                               NewOutputs(linked).language))
      OBVIOUS
    <3>1. CASE CompilesPch
      <4>1. /\ NewOutputs(linked).language = PchLanguage(User, toolchain)
            /\ NewOutputs(linked).pch = Cached.pch
        BY <3>1 DEF NewOutputs
      <4>2. PchLanguage(User, toolchain) \in {"C", "Cpp"}
        BY DEF PchLanguage
      <4>3. Cached.pch
              = PchCommandIn(User, toolchain, Config, PchLanguage(User, toolchain))
        BY <2>2, CachedIs
      <4>4. Plain(PchCommandIn(User, toolchain, Config, PchLanguage(User, toolchain)))
              = Plain(PchCommandIn(u, toolchain, Config, PchLanguage(User, toolchain)))
        <5>1. \A f \in PchFields : User[f] = u[f]
          BY <2>6
        <5>2. ContainsPch(User) = ContainsPch(u)
          BY <2>4
        <5>3. toolchain.config = toolchain.config
          OBVIOUS
        <5> QED BY <2>3, <4>2, <5>1, <5>2, <5>3, PchSame
      <4> QED BY <4>1, <4>2, <4>3, <4>4
    <3>2. CASE ~CompilesPch
      <4>1. ~MadeAgain
        BY <3>2 DEF MadeAgain
      <4>2. /\ NewOutputs(linked).language = Made.language
            /\ NewOutputs(linked).pch = Made.pch
        BY <2>7, <3>2, <4>1 DEF NewOutputs
      <4>3. /\ Stored.pch_compiled /\ ContainsPch(Stored.user) = ContainsPch(u)
            /\ \A f \in PchFields : Stored.user[f] = u[f]
        BY <2>4, <2>6, <2>7, <3>2, <4>1, KeptIs DEF TypeOK, DiskInv
      <4>4. /\ Made.language \in {"C", "Cpp"}
            /\ Plain(Made.pch)
                 = Plain(PchCommandIn(Stored.user, toolchain, Config, Made.language))
        BY <2>7, <4>1, <4>3 DEF DiskInv, MadeAsStored
      <4> QED BY <2>3, <4>2, <4>3, <4>4, PchSame
    <3> QED BY <3>1, <3>2
  <2>9. ASSUME NEW file \in CompiledNow
        PROVE  Plain(NewOutputs(linked).objects[file])
                 = Plain(CompileCommand(u, toolchain, Config, file))
    <3>0. file \in Sources
            /\ GetFileExt(toolchain.config, file.ext) \in {"Asm", "C", "Cpp"}
      BY CompiledFiles, SourceFilesAre
    <3>1. CASE file \in Compiled
      <4>1. NewOutputs(linked).objects[file] = Cached.objects[file]
        BY <3>1 DEF NewOutputs
      <4>2. Cached.objects[file] = CompileCommand(User, toolchain, Config, file)
        BY <2>2, <3>0, CachedIs
      <4>3. \A f \in ObjectFields : User[f] = u[f]
        BY <2>5
      <4>4. Plain(CompileCommand(User, toolchain, Config, file))
              = Plain(CompileCommand(u, toolchain, Config, file))
        BY <2>3, <2>4, <3>0, <4>3, ObjectSame
      <4> QED BY <4>1, <4>2, <4>4
    <3>2. CASE file \notin Compiled
      <4>1. NewOutputs(linked).objects[file] = Made.objects[file]
        BY <3>2 DEF NewOutputs
      <4>2. ~CompilesAll /\ file \in Stored.sources
        BY <3>2 DEF CompiledNow, SelectedSources
      <4>3. ~MadeAgain
        BY <4>2 DEF MadeAgain
      <4>4. /\ ContainsPch(Stored.user) = ContainsPch(u)
            /\ \A f \in ObjectFields : Stored.user[f] = u[f]
        BY <2>4, <2>5, <2>7, <4>2, <4>3, KeptIs DEF TypeOK, DiskInv
      <4>5. Plain(Made.objects[file])
              = Plain(CompileCommand(Stored.user, toolchain, Config, file))
        BY <2>7, <4>2, <4>3 DEF DiskInv, MadeAsStored
      <4> QED BY <2>3, <3>0, <4>1, <4>4, <4>5, ObjectSame
    <3> QED BY <3>1, <3>2
  <2>10. ASSUME linked
         PROVE  /\ CompiledNow = ToSet(u.sources)
                /\ Plain(NewOutputs(linked).link)
                     = Plain(LinkCommand(u, toolchain, Config))
    <3>1. CompiledNow = Sources
      BY <2>10 DEF CompiledNow, SelectedSources, Compiled
    <3>2. ToSet(u.sources) = Sources
      BY <2>5 DEF Sources
    <3>3. NewOutputs(linked).link = LinkCommand(User, toolchain, Config)
      BY <2>2, <2>10, CachedIs DEF NewOutputs
    <3>4. ToSet(User.sources) = ToSet(u.sources) /\ \A f \in LinkFields : User[f] = u[f]
      BY <2>5
    <3>5. Plain(LinkCommand(User, toolchain, Config))
            = Plain(LinkCommand(u, toolchain, Config))
      BY <2>3, <2>4, <3>4, LinkSame
    <3> QED BY <3>1, <3>2, <3>3, <3>5
  <2> QED BY <2>4, <2>8, <2>9, <2>10, NewStoreIs
<1>5. MadeAsStored'
  BY <1>1, <1>2, <1>4, NewStoreIs DEF StoredNow, MadeAsStored
<1> QED BY <1>3, <1>5 DEF DiskInv

LEMMA DiskNext ==
  TypeOK /\ Shapes /\ CachedIsCurrent /\ DiskInv /\ [Next]_vars => DiskInv'
<1> SUFFICES ASSUME TypeOK, Shapes, CachedIsCurrent, DiskInv, [Next]_vars PROVE DiskInv'
  OBVIOUS
<1>1. ASSUME NEW value, ToolchainFlag("link_flags", value) PROVE DiskInv'
  BY <1>1, DiskKept DEF ToolchainFlag, Shapes, IsToolchain
<1>2. CASE RunDirty
  BY <1>2, TaskMakes DEF RunDirty, Run
<1>3. CASE RunFails
  BY <1>3, TaskMakes DEF RunFails, Run
<1>4. CASE NextProcess
  <2>1. toolchain'.id = toolchain.id /\ IsToolchain(toolchain')
    BY <1>4, KindIs, VerifiedIs DEF NextProcess
  <2>2. toolchain'.config = toolchain.config
    BY <2>1 DEF Shapes, IsToolchain
  <2> QED BY <1>4, <2>1, <2>2, DiskKept DEF NextProcess
<1>5. CASE UNCHANGED <<type, toolchain, disk>>
  BY <1>5, DiskKept
<1>6. \/ UNCHANGED <<type, toolchain, disk>>
      \/ \E value : ToolchainFlag("link_flags", value)
      \/ RunDirty \/ RunFails \/ NextProcess
  BY DEF Next, NewTarget, AddCall, AddRefused, Exit, GlobCall, CopyCall,
         InsertCall, Took, BuildCall, RunClean, Run, vars
<1> QED BY <1>1, <1>2, <1>3, <1>4, <1>5, <1>6

-----------------------------------------------------------------------------
(* What a run leaves, and the theorems. *)

LEMMA RanOnNext ==
  TypeOK /\ Shapes /\ CachedIsCurrent /\ DiskInv /\ RanOn /\ [Next]_vars => RanOn'
<1> SUFFICES ASSUME TypeOK, Shapes, CachedIsCurrent, DiskInv, RanOn, [Next]_vars
             PROVE  RanOn'
  OBVIOUS
<1>1. CASE phase' # "ok"
  BY <1>1 DEF RanOn
<1>2. CASE UNCHANGED vars
  BY <1>2 DEF RanOn, vars, script, disk, Stored, Sources, User, HasPchTask, Cached
<1>3. CASE RunDirty
  <2>1. StoredNow(TRUE) /\ commands' # {}
    BY <1>3, TaskStores DEF RunDirty, Run, script
  <2>2. Sources' = Sources /\ User' = User /\ HasPchTask' = HasPchTask
    BY <1>3 DEF RunDirty, Run, script, Sources, User, HasPchTask, Cached
  <2>3. CompiledNow = Sources
    BY <1>3 DEF RunDirty, CompiledNow, SelectedSources, Compiled
  <2>4. \A f \in ObjectFields \cup LinkFields : Stored'.user[f] = User[f]
    BY <2>1, NewStoreIs, ComparedFields DEF StoredNow
  <2>5. HasPchTask => \A f \in PchFields : Stored'.user[f] = User[f]
    <3>1. /\ \A f \in JsonFields \ {"pchs"} : NewStore(TRUE).user[f] = User[f]
          /\ HasPchTask => NewStore(TRUE).user["pchs"] = User["pchs"]
      BY NewStoreIs
    <3> QED BY <2>1, <3>1, ComparedFields DEF StoredNow
  <2> QED BY <2>1, <2>2, <2>3, <2>4, <2>5, NewStoreIs DEF StoredNow, RanOn
<1>4. CASE RunClean
  <2>1. ~CompilesPch /\ ~CompilesAll /\ ~Links
    BY <1>4 DEF RunClean, Links, SourcesChanged, CompilesAll
  <2>2. \A s \in stored : s = Stored
    BY DEF Shapes
  <2>3. stored # {} /\ \A f \in LinkFields : Stored.user[f] = User[f]
    BY <2>1, <2>2 DEF Links, Differs
  <2>4. Stored.target_linked /\ Stored.sources = Sources
    BY <2>1, <2>2 DEF Links, SourcesChanged
  <2>5. \A f \in ObjectFields : Stored.user[f] = User[f]
    BY <2>1, <2>2 DEF CompilesAll, Differs
  <2>6. HasPchTask
          => Stored.pch_compiled /\ \A f \in PchFields : Stored.user[f] = User[f]
    BY <2>1, <2>2 DEF CompilesPch, Differs
  <2>7. /\ Stored' = Stored /\ Sources' = Sources /\ User' = User /\
           HasPchTask' = HasPchTask
        /\ stored' = stored /\ commands' = commands /\ commands # {}
    BY <1>4 DEF RunClean, Run, script, disk, Stored, Sources, User, HasPchTask, Cached
  <2> QED BY <2>3, <2>4, <2>5, <2>6, <2>7 DEF RanOn
<1>5. phase' # "ok" \/ UNCHANGED vars \/ RunDirty \/ RunClean
  BY DEF Next, ToolchainFlag, NewTarget, AddCall, AddRefused, Exit, GlobCall, CopyCall,
         InsertCall, Took, BuildCall, RunFails, Run, NextProcess, Call, Scripting
<1> QED BY <1>1, <1>2, <1>3, <1>4, <1>5

LEMMA IInvInit == Init => IInv
BY ShapesInit DEF Init, IInv, CachedIsCurrent, StoredSourcesMade, MadeAsStored, RanOn

LEMMA IInvNext == IInv /\ [Next]_vars => IInv'
BY ShapesNext, CachedNext, DiskNext, RanOnNext DEF IInv, DiskInv

(* What the invariant is for. *)
LEMMA IInvCurrent == IInv => CommandsCurrent
<1> SUFFICES ASSUME IInv, phase = "ok", LateHole = {}, PchHoles = {}, PastHoles = {}
             PROVE  /\ HasPchTask => Plain(Made.pch) = Plain(Cached.pch)
                    /\ \A file \in Sources :
                         Plain(Made.objects[file]) = Plain(Cached.objects[file])
                    /\ Plain(Made.link) = Plain(Cached.link)
  BY DEF CommandsCurrent
<1> DEFINE u == Stored.user
<1>0. TypeOK /\ Shapes /\ CachedIsCurrent /\ RanOn /\ StoredSourcesMade /\ MadeAsStored
  BY DEF IInv
<1>1. /\ commands # {} /\ stored # {} /\ made # {} /\ Stored.target_linked
      /\ Stored.sources = Sources
      /\ Made.holes = {}
  BY <1>0 DEF RanOn, PastHoles, TypeOK
<1>2. Patterns(Config)
  BY <1>0, ConfigOf
<1>3. Stored.pch_compiled = ContainsPch(u)
  BY <1>0, <1>1 DEF MadeAsStored
<1>4. HasPchTask => Stored.pch_compiled
  BY <1>0 DEF RanOn
<1>5. ~HasPchTask => ~Stored.pch_compiled
  BY <1>1 DEF PchHoles
<1>6. ContainsPch(u) = ContainsPch(User)
  <2>1. HasPchTask <=> ContainsPch(User)
    BY <1>0, <1>1, CachedIs
  <2> QED BY <1>3, <1>4, <1>5, <2>1 DEF ContainsPch
<1>7. \A f \in ObjectFields : u[f] = User[f]
  BY <1>0 DEF RanOn
<1>8. \A f \in LinkFields : u[f] = User[f]
  BY <1>0 DEF RanOn
<1>9. ASSUME HasPchTask PROVE Plain(Made.pch) = Plain(Cached.pch)
  <2>1. \A f \in PchFields : u[f] = User[f]
    BY <1>0, <1>9 DEF RanOn
  <2>2. Made.language = PchLanguage(User, toolchain)
    BY <1>1, <1>9 DEF PchHoles
  <2>3. PchLanguage(User, toolchain) \in {"C", "Cpp"}
    BY DEF PchLanguage
  <2>4. Plain(PchCommandIn(u, toolchain, Config, PchLanguage(User, toolchain)))
          = Plain(PchCommandIn(User, toolchain, Config, PchLanguage(User, toolchain)))
    BY <1>2, <1>6, <2>1, <2>3, PchSame
  <2>5. Cached.pch = PchCommandIn(User, toolchain, Config, PchLanguage(User, toolchain))
    BY <1>0, <1>1, <1>9, CachedIs
  <2>6. Plain(Made.pch) = Plain(PchCommandIn(u, toolchain, Config, Made.language))
    BY <1>0, <1>1, <1>4, <1>9 DEF MadeAsStored
  <2> QED BY <2>2, <2>4, <2>5, <2>6
<1>10. ASSUME NEW file \in Sources
       PROVE  Plain(Made.objects[file]) = Plain(Cached.objects[file])
  <2>1. GetFileExt(toolchain.config, file.ext) \in {"Asm", "C", "Cpp"}
    BY <1>0, <1>1, CompiledFiles, SourceFilesAre
  <2>2. Plain(CompileCommand(u, toolchain, Config, file))
          = Plain(CompileCommand(User, toolchain, Config, file))
    BY <1>2, <1>6, <1>7, <2>1, ObjectSame
  <2>3. Cached.objects[file] = CompileCommand(User, toolchain, Config, file)
    BY <1>0, <1>1, CachedIs
  <2>4. Plain(Made.objects[file]) = Plain(CompileCommand(u, toolchain, Config, file))
    BY <1>0, <1>1 DEF MadeAsStored
  <2> QED BY <2>2, <2>3, <2>4
<1>11. Plain(Made.link) = Plain(Cached.link)
  <2>1. ToSet(u.sources) = ToSet(User.sources)
    BY <1>0, <1>1 DEF MadeAsStored, Sources
  <2>2. Plain(LinkCommand(u, toolchain, Config))
          = Plain(LinkCommand(User, toolchain, Config))
    BY <1>2, <1>6, <1>8, <2>1, LinkSame
  <2>3. Cached.link = LinkCommand(User, toolchain, Config)
    BY <1>0, <1>1, CachedIs
  <2>4. Plain(Made.link) = Plain(LinkCommand(u, toolchain, Config))
    BY <1>0, <1>1 DEF MadeAsStored
  <2> QED BY <2>2, <2>3, <2>4
<1> QED BY <1>9, <1>10, <1>11

(* The invariant above, of every behaviour. *)
LEMMA IInvHolds == Spec => []IInv
BY IInvInit, IInvNext, PTL DEF Spec

(* The variables keep their types: a target of the kind the script chose,   *)
(* its commands only once there is a target, an output for what is stored.  *)
THEOREM InputsTypeCorrect == Spec => []TypeOK
<1>1. IInv => TypeOK
  BY DEF IInv
<1> QED BY <1>1, IInvHolds, PTL

(* Two sources of a target share an object file only when the path to one of *)
(* them has two dots in a row; their names and extensions are the same, and  *)
(* they are equally deep.                                                    *)
THEOREM ObjectsAreDistinct == Spec => []ObjectsDistinct
<1>1. IInv => ObjectsDistinct
  BY ShapesDistinct DEF IInv
<1> QED BY <1>1, IInvHolds, PTL

(* A run that succeeds has an object for every source of the target. *)
THEOREM NoSourceIsLeftOut == Spec => []EverySourceCompiled
<1>1. IInv => EverySourceCompiled
  BY DEF IInv, RanOn, StoredSourcesMade, EverySourceCompiled
<1> QED BY <1>1, IInvHolds, PTL

(* After a run that succeeds every output on disk was made by the command   *)
(* the target has now, whichever earlier process made it, but for the holes *)
(* the model names.                                                         *)
THEOREM CommandsAreCurrent == Spec => []CommandsCurrent
<1> QED BY IInvCurrent, IInvHolds, PTL

(* The commands Build writes have a value for every placeholder.  *)
THEOREM CommandsAreMade == Spec => CommandsConstructed
<1>1. IInv /\ [Next]_vars =>
        [commands' # commands /\ commands' # {}
          => Constructed(User, Unique(commands'))]_vars
  BY ConstructedStep DEF IInv
<1> QED BY <1>1, IInvHolds, PTL DEF Spec, CommandsConstructed

(* A generic target is the specialized target of its kind and toolchain: *)
(* the copy of all the fields loses none.                                *)
THEOREM GenericAreSpecialized == Spec => []GenericIsSpecialized
<1>1. GenericIsSpecialized
  BY GenericIs DEF GenericIsSpecialized
<1> QED BY <1>1, PTL
=============================================================================
