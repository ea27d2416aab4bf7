------------------------------ MODULE MCBuildExe ------------------------------
EXTENDS BuildExe

Names(names, ext) == {[stem |-> name, ext |-> ext] : name \in names}

Gnu == {"as", "gcc", "g++", "ar", "ld"}

(* /stems holds the names only, with extensions. *)
MCHost ==
  ("/usr/bin" :> Names(Gnu, "") \cup Names({"ld"}, ".gold"))
  @@ ("/opt/bin" :> Names(Gnu, ""))
  @@ ("/stems" :> Names(Gnu, ".1"))
  @@ ("C:/mingw" :> Names(Gnu, ".exe"))
  @@ ("C:/msvc" :> Names({"cl", "lib", "link"}, ".exe"))

Good ==
  [mode |-> "script", os |-> "linux", id |-> "Gcc", named |-> TRUE,
   name |-> "script", type |-> "Executable", build |-> TRUE, clean |-> FALSE,
   options |-> RootArgs \cup TargetArgs \cup {"mode"},
   home |-> {"BUILDCC_HOME", "home", "buildcc", "libs", "extensions"},
   libs_listed |-> TRUE, paths |-> <<"/missing", "/usr/bin", "/opt/bin">>,
   prompt |-> FALSE, writable |-> {kVerifier, kLibDirs},
   given |-> [sources |-> <<[dirs |-> <<>>, name |-> "main", ext |-> ".cpp"]>>,
              link_flags |-> <<"-g">>],
   lib_files |-> <<[dirs |-> <<"lib">>, name |-> "lib", ext |-> ".cpp"],
                   [dirs |-> <<"lib">>, name |-> "lib", ext |-> ".h"],
                   [dirs |-> <<"lib">>, name |-> "notes", ext |-> ".txt"]>>]

Immediate == [Good EXCEPT !.mode = "immediate", !.name = "program"]
Boot == [Good EXCEPT !.mode = "bootstrap", !.name = "hybrid"]
Other == <<"/opt/bin", "/usr/bin">>

(* What goes well, in each mode and on each host. *)
Working ==
  {Good, [Good EXCEPT !.clean = TRUE], [Good EXCEPT !.paths = Other],
   Immediate, [Immediate EXCEPT !.paths = Other],
   Boot, [Boot EXCEPT !.paths = Other], [Boot EXCEPT !.build = FALSE],
   [Good EXCEPT !.paths = Other, !.writable = {}],
   [Good EXCEPT !.os = "win", !.id = "MinGW", !.paths = <<"C:/mingw">>],
   [Good EXCEPT !.os = "win", !.id = "Msvc", !.paths = <<"C:/msvc">>,
                !.prompt = TRUE]}

Broken ==
  {[Good EXCEPT !.home = @ \ {"libs"}], [Good EXCEPT !.libs_listed = FALSE],
   [Good EXCEPT !.options = @ \ {"type"}], [Boot EXCEPT !.options = {"root_dir"}],
   [Immediate EXCEPT !.id = "clang++"], [Good EXCEPT !.named = FALSE], [Good EXCEPT !.paths = <<"/stems">>],
   [Good EXCEPT !.name = "libtpl"], [Good EXCEPT !.id = "Undefined"],
   [Immediate EXCEPT !.id = "Clang"], [Boot EXCEPT !.id = "Clang"],
   [Immediate EXCEPT !.given.sources[1].ext = ".md"]}

MCSessions == Working \cup Broken
=============================================================================
