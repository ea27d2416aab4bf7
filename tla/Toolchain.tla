------------------------------ MODULE Toolchain ------------------------------
(***************************************************************************)
(* Toolchains: the executables and the file types each kind stands for,    *)
(* how a host directory that holds them is found, and how the toolchain is *)
(* verified and pointed at that directory.  Definitions only: the state is *)
(* that of the modules that use them.  What may be absent is a set of at   *)
(* most one element.                                                       *)
(***************************************************************************)
EXTENDS Integers, Sequences, SequencesExt

Tools == {"assembler", "c_compiler", "cpp_compiler", "archiver", "linker"}

FlagFields ==
  {"preprocessor_flags", "common_compile_flags", "pch_compile_flags",
   "pch_object_flags", "asm_compile_flags", "c_compile_flags",
   "cpp_compile_flags", "link_flags"}

-----------------------------------------------------------------------------
(* Executables and configurations *)

(* An executable is a bare name until a directory is put before it. *)
Bare(name) == [dir |-> "", name |-> name]

ToolchainExecutables(as, c, cpp, ar, link) ==
  [assembler |-> Bare(as), c_compiler |-> Bare(c), cpp_compiler |-> Bare(cpp),
   archiver |-> Bare(ar), linker |-> Bare(link)]

GnuExecutables == ToolchainExecutables("as", "gcc", "g++", "ar", "ld")
MsvcExecutables == ToolchainExecutables("cl", "cl", "cl", "lib", "link")

DefaultConfig ==
  [obj_ext |-> ".o", pch_header_ext |-> ".h", pch_compile_ext |-> ".gch",
   valid_c_ext |-> {".c"}, valid_cpp_ext |-> {".cpp", ".cxx", ".cc"},
   valid_asm_ext |-> {".s", ".S", ".asm"}, valid_header_ext |-> {".h", ".hpp"}]

GccToolchainConfig ==
  [DefaultConfig EXCEPT !.obj_ext = ".o", !.pch_header_ext = ".h",
                        !.pch_compile_ext = ".gch"]

MsvcConfig ==
  [DefaultConfig EXCEPT !.obj_ext = ".obj", !.pch_header_ext = ".h",
                        !.pch_compile_ext = ".pch"]

GlobalToolchainMetadata(id) ==
  [config |-> CASE id \in {"Gcc", "MinGW", "Clang"} -> GccToolchainConfig
                [] id = "Msvc" -> MsvcConfig
                [] OTHER -> DefaultConfig,
   info_cb |-> CASE id \in {"Gcc", "MinGW", "Clang"} -> "GetGccToolchainInfo"
                 [] id = "Msvc" -> "GetMsvcToolchainInfo"
                 [] OTHER -> "GetErrorToolchainInfo"]

GetFileExt(config, ext) ==
  CASE ext \in config.valid_c_ext -> "C"
    [] ext \in config.valid_cpp_ext -> "Cpp"
    [] ext \in config.valid_asm_ext -> "Asm"
    [] ext \in config.valid_header_ext -> "Header"
    [] OTHER -> "Invalid"

IsValidSource(config, ext) ==
  ext \in config.valid_c_ext \cup config.valid_cpp_ext \cup config.valid_asm_ext

IsValidHeader(config, ext) == ext \in config.valid_header_ext

-----------------------------------------------------------------------------
(* Construction *)

(* The constructor's Initialize puts the metadata of the id in place of the *)
(* configuration it was given.                                              *)
Initialize(t) ==
  [t EXCEPT !.config = GlobalToolchainMetadata(t.id).config,
            !.info_cb = GlobalToolchainMetadata(t.id).info_cb]

Toolchain(id, name, executables, config) ==
  Initialize([id |-> id, name |-> name, executables |-> executables,
              config |-> config, info_cb |-> "none",
              flags |-> [f \in FlagFields |-> <<>>]])

(* Toolchain_generic::New, {} for a fatal one: stored are the identifiers *)
(* Storage contains.                                                      *)
New(id, identifier, executables, config, stored) ==
  LET Or(given, default) == IF given = {} THEN {default} ELSE given
      Make(default) ==
        {Toolchain(id, identifier, e, c) :
           e \in Or(executables, default), c \in Or(config, DefaultConfig)}
  IN IF identifier \in stored THEN {}
     ELSE CASE id \in {"Gcc", "MinGW"} -> Make(GnuExecutables)
            [] id = "Msvc" -> Make(MsvcExecutables)
            [] id \in {"Clang", "Custom"} /\ executables # {} ->
                 Make(GnuExecutables)
            [] OTHER -> {}

-----------------------------------------------------------------------------
(* Find and verify.  host maps the directories that can be read to their    *)
(* regular files, each [stem, ext]; exe_ext is the host's executable suffix. *)

FileOf(exe, exe_ext) == [stem |-> exe.name, ext |-> exe_ext]

Exists(exe, host, exe_ext) ==
  exe.dir \in DOMAIN host /\ FileOf(exe, exe_ext) \in host[exe.dir]

(* Only the stem of a file is compared: ld.gold passes for ld. *)
ContainsToolchainExecutables(files, executables) ==
  \A tool \in Tools : \E f \in files : Bare(f.stem) = executables[tool]

(* The elements of s that are in S, in their order. *)
Kept(s, S) ==
  FoldLeft(LAMBDA kept, x : IF x \in S THEN Append(kept, x) ELSE kept, <<>>, s)

Find(t, paths, host) ==
  Kept(paths, {d \in DOMAIN host :
                 ContainsToolchainExecutables(host[d], t.executables)})

CreateToolchainExecutables(dir, executables) ==
  [tool \in Tools |-> [executables[tool] EXCEPT !.dir = dir]]

(* Whether the info callback returns anything: gcc runs the C++ compiler, *)
(* msvc only looks at the environment of the developer prompt.            *)
InfoFound(info_cb, executables, host, exe_ext, prompt) ==
  CASE info_cb = "GetGccToolchainInfo" ->
         Exists(executables.cpp_compiler, host, exe_ext)
    [] info_cb = "GetMsvcToolchainInfo" -> prompt
    [] OTHER -> FALSE

(* Toolchain::Verify with the first directory found, {} for a fatal one. *)
Verify(t, paths, host, exe_ext, prompt) ==
  LET found == Find(t, paths, host)
      exes == CreateToolchainExecutables(found[1], t.executables)
  IN IF found # <<>> /\ InfoFound(t.info_cb, exes, host, exe_ext, prompt)
     THEN {[t EXCEPT !.executables = exes]}
     ELSE {}
=============================================================================
