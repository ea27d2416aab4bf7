------------------------------ MODULE TargetApi ------------------------------
(***************************************************************************)
(* What a build script gives a target, field by field, how one target      *)
(* takes over the fields of another, what the ready-made targets start     *)
(* with, and the commands Target::Build makes of it all.  Definitions      *)
(* only.  A field is a sequence, a placeholder of a command its value, and *)
(* a call that ends in assert_fatal returns {}.                            *)
(***************************************************************************)
EXTENDS Toolchain, Command, SequencesExt

(* The fields each API class adds to, FlagApi being FlagFields. *)
SourceApi == {"sources"}
IncludeApi == {"headers", "include_dirs"}
LibApi == {"libs", "external_libs", "lib_dirs"}
PchApi == {"pchs"}
DepsApi == {"compile_dependencies", "link_dependencies"}

Fields ==
  SourceApi \cup IncludeApi \cup LibApi \cup PchApi \cup DepsApi \cup FlagFields

(* What the target's .bin file holds of them. *)
JsonFields ==
  {"sources", "headers", "pchs", "libs", "external_libs",
   "include_dirs", "lib_dirs", "preprocessor_flags", "common_compile_flags",
   "pch_compile_flags", "pch_object_flags", "asm_compile_flags",
   "c_compile_flags", "cpp_compile_flags", "link_flags",
   "compile_dependencies", "link_dependencies"}

Types == {"Executable", "StaticLibrary", "DynamicLibrary"}

-----------------------------------------------------------------------------
(* Inputs *)

(* Only the flags set up. *)
TargetInfoFlags(t) == [f \in FlagFields |-> t.flags[f]]

(* A new TargetInfo, and so a new Target, has the toolchain's flags. *)
TargetInfo(t) ==
  [f \in Fields |-> IF f \in FlagFields THEN t.flags[f] ELSE <<>>]

Add(user, f, value) == [user EXCEPT ![f] = Append(@, value)]

AddAll(user, f, values) == [user EXCEPT ![f] = @ \o values]

(* Whether AddSource, AddHeader or AddPch takes the file. *)
Accepts(t, f, file) ==
  CASE f = "sources" -> IsValidSource(t.config, file.ext)
    [] f \in {"headers", "pchs"} -> IsValidHeader(t.config, file.ext)
    [] OTHER -> TRUE

(* GlobSources and GlobHeaders add what AddSource and AddHeader would take, *)
(* in the order the directory lists its files.                              *)
Glob(user, t, f, files) ==
  AddAll(user, f, SelectSeq(files, LAMBDA file : Accepts(t, f, file)))

-----------------------------------------------------------------------------
(* Copy and Insert: <<the target, the one it takes from>> before and after. *)

(* std::move of a const reference copies. *)
CopyField(pair, f, moved) ==
  <<[pair[1] EXCEPT ![f] = pair[2][f]],
    IF moved THEN [pair[2] EXCEPT ![f] = <<>>] ELSE pair[2]>>

(* Moving strings one by one leaves empty strings; PathList and PathInfoList *)
(* have no Insert that moves.                                                *)
InsertField(pair, f, moved) ==
  <<[pair[1] EXCEPT ![f] = @ \o pair[2][f]],
    IF moved /\ f \in FlagFields \cup {"external_libs"}
    THEN [pair[2] EXCEPT ![f] = [i \in DOMAIN @ |-> ""]]
    ELSE pair[2]>>

Copy(to, from, options, moved) ==
  FoldLeft(LAMBDA pair, f : CopyField(pair, f, moved), <<to, from>>, options)

Insert(to, from, options, moved) ==
  FoldLeft(LAMBDA pair, f : InsertField(pair, f, moved), <<to, from>>, options)

-----------------------------------------------------------------------------
(* Ready-made targets *)

DefaultGccOptions(user) ==
  AddAll(user, "pch_object_flags", <<"-include pch", "-H">>)

DefaultMsvcOptions(user) ==
  [user EXCEPT
     !.c_compile_flags = Append(@, "/nologo"),
     !.cpp_compile_flags = @ \o <<"/nologo", "/EHsc">>,
     !.link_flags = Append(@, "/nologo"),
     !.pch_object_flags = @ \o <<"/Yu header", "/FI header", "/Fp pch">>]

(* A dynamic library is position independent. *)
GccTarget(type, t) ==
  DefaultGccOptions(
    IF type = "DynamicLibrary" THEN Add(TargetInfo(t), "common_compile_flags", "-fpic")
    ELSE TargetInfo(t))

MsvcTarget(type, t) == DefaultMsvcOptions(TargetInfo(t))

(* The classes of gcc, with other configurations. *)
MingwTarget(type, t) == GccTarget(type, t)

(* ExecutableTarget_gcc and the others, for the toolchains that have them. *)
SpecializedTarget(type, t) ==
  CASE t.id = "Gcc" -> {GccTarget(type, t)}
    [] t.id = "Msvc" -> {MsvcTarget(type, t)}
    [] t.id = "MinGW" -> {MingwTarget(type, t)}
    [] OTHER -> {}

kGenericCopyOptions ==
  <<"common_compile_flags", "pch_compile_flags", "pch_object_flags",
    "asm_compile_flags", "c_compile_flags", "cpp_compile_flags", "link_flags">>

(* With the options inserted after those the constructor put there. *)
InsertedTarget(type, t) ==
  {Insert(TargetInfo(t), made, kGenericCopyOptions, TRUE)[1] :
     made \in SpecializedTarget(type, t)}

(* ExecutableTarget_generic and the others: the flags of a temporary. *)
GenericTypeTarget(type, t) ==
  {Copy(TargetInfo(t), made, kGenericCopyOptions, TRUE)[1] :
     made \in SpecializedTarget(type, t)}

(* Target_generic: those of a temporary that took them from a temporary. *)
Target_generic(type, t) ==
  {Copy(TargetInfo(t), made, kGenericCopyOptions, TRUE)[1] :
     made \in GenericTypeTarget(type, t)}

(* The placeholders of the commands and the extension of the output. *)
GccConfig(type) ==
  LET common == {"compiler", "preprocessor_flags", "include_dirs",
                 "common_compile_flags", "compile_flags", "output", "input"}
  IN [pch_command |-> common \cup {"pch_compile_flags"},
      compile_command |-> common \cup {"pch_object_flags"},
      link_command |->
        CASE type = "Executable" ->
               {"cpp_compiler", "link_flags", "compiled_sources", "output",
                "lib_dirs", "lib_deps"}
          [] type = "StaticLibrary" ->
               {"archiver", "output", "compiled_sources"}
          [] OTHER ->
               {"cpp_compiler", "link_flags", "compiled_sources", "output"},
      target_ext |-> CASE type = "Executable" -> ""
                       [] type = "StaticLibrary" -> ".a"
                       [] OTHER -> ".so"]

MsvcTargetConfig(type) ==
  LET gcc == GccConfig(type)
      linked == {"link_flags", "output", "compiled_sources", "pch_object_output"}
  IN [pch_command |-> gcc.pch_command \cup {"pch_object_output", "input_source"},
      compile_command |-> gcc.compile_command,
      link_command |->
        CASE type = "Executable" ->
               linked \cup {"linker", "lib_dirs", "lib_deps"}
          [] type = "StaticLibrary" -> linked \cup {"archiver"}
          [] OTHER -> linked \cup {"linker"},
      target_ext |-> IF type = "Executable" THEN ".exe" ELSE ".lib"]

MingwConfig(type) ==
  [GccConfig(type) EXCEPT
     !.target_ext = CASE type = "Executable" -> ".exe"
                      [] type = "StaticLibrary" -> ".a"
                      [] OTHER -> ".dll"]

(* GenericConfig::Generic *)
GenericConfig(type, id) ==
  CASE id = "Gcc" -> {GccConfig(type)}
    [] id = "Msvc" -> {MsvcTargetConfig(type)}
    [] id = "MinGW" -> {MingwConfig(type)}
    [] OTHER -> {}

-----------------------------------------------------------------------------
(* Target::Build *)

DefaultArguments(user, t) ==
  AddDefaultArguments(
    [f \in {"include_dirs", "lib_dirs", "preprocessor_flags",
            "common_compile_flags", "link_flags"} |-> user[f]],
    [asm_compiler |-> t.executables.assembler,
     c_compiler |-> t.executables.c_compiler,
     cpp_compiler |-> t.executables.cpp_compiler,
     archiver |-> t.executables.archiver, linker |-> t.executables.linker])

ContainsPch(user) == user.pchs # <<>>

ContainsSource(user, t, type) ==
  \E file \in ToSet(user.sources) : GetFileExt(t.config, file.ext) = type

(* The precompiled header is C++ when some source is. *)
PchLanguage(user, t) == IF ContainsSource(user, t, "Cpp") THEN "Cpp" ELSE "C"

(* Only a target with a precompiled header passes its flags on. *)
NoPchArguments(user, t) == DefaultArguments(user, t)

PchArguments(user, t) ==
  AddDefaultArguments(
    DefaultArguments(user, t),
    IF ContainsPch(user)
    THEN [pch_compile_flags |-> user.pch_compile_flags,
          pch_object_flags |-> user.pch_object_flags,
          pch_object_output |-> <<"pch object">>]
    ELSE [pch_compile_flags |-> <<>>, pch_object_flags |-> <<>>,
          pch_object_output |-> <<>>])

SelectCompiler(t, type) ==
  t.executables[CASE type = "Asm" -> "assembler"
                  [] type = "C" -> "c_compiler"
                  [] type = "Cpp" -> "cpp_compiler"]

SelectCompileFlags(user, type) ==
  user[CASE type = "Asm" -> "asm_compile_flags"
         [] type = "C" -> "c_compile_flags"
         [] type = "Cpp" -> "cpp_compile_flags"]

(* The path from the target's root to a source is searched for "..", which   *)
(* out of the root it begins with. The search is for two dots anywhere: in   *)
(* the name of a directory, or of the file where its extension begins. Of    *)
(* the names that models give, these have them.                              *)
DotDot == {"..", "v1."}

HasDotDot(file) == (ToSet(file.dirs) \cup {file.name}) \cap DotDot # {}

(* Where the search succeeds every dot of the path turns into an underscore, *)
(* but the file's own name is put back.                                      *)
Sanitized(dir) ==
  CASE dir = ".." -> "__" [] dir = "lib.d" -> "lib_d" [] OTHER -> dir

(* The file name without its extension. *)
ShortObjectPath(t, file) ==
  [dirs |-> file.dirs, file |-> <<file.name, t.config.obj_ext>>]

ConstructObjectPath(t, file) ==
  [dirs |-> IF HasDotDot(file)
            THEN [i \in DOMAIN file.dirs |-> Sanitized(file.dirs[i])]
            ELSE file.dirs,
   file |-> <<file.name, file.ext, t.config.obj_ext>>]

CompileCommand(user, t, config, file) ==
  LET type == GetFileExt(t.config, file.ext)
  IN Construct(config.compile_command,
       AddDefaultArguments(PchArguments(user, t),
         [compiler |-> SelectCompiler(t, type),
          compile_flags |-> SelectCompileFlags(user, type),
          output |-> ConstructObjectPath(t, file), input |-> file]))

PchCommand(user, t, config) ==
  LET language == PchLanguage(user, t)
  IN Construct(config.pch_command,
       AddDefaultArguments(PchArguments(user, t),
         [compiler |-> SelectCompiler(t, language),
          compile_flags |-> SelectCompileFlags(user, language),
          output |-> t.config.pch_compile_ext,
          input |-> t.config.pch_header_ext, input_source |-> language]))

LinkCommand(user, t, config) ==
  Construct(config.link_command,
    AddDefaultArguments(PchArguments(user, t),
      [output |-> config.target_ext,
       compiled_sources |->
         {ConstructObjectPath(t, file) : file \in ToSet(user.sources)},
       lib_deps |-> user.libs \o user.external_libs]))

(* The commands Build caches; a command that cannot be made is {}. *)
Commands(user, t, config) ==
  [pch |-> IF ContainsPch(user) THEN PchCommand(user, t, config) ELSE {},
   objects |-> [file \in ToSet(user.sources) |->
                  CompileCommand(user, t, config, file)],
   link |-> LinkCommand(user, t, config)]

Constructed(user, commands) ==
  /\ ContainsPch(user) => commands.pch # {}
  /\ \A file \in DOMAIN commands.objects : commands.objects[file] # {}
  /\ commands.link # {}
=============================================================================
