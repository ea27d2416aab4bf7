------------------------------ MODULE Bootstrap ------------------------------
(***************************************************************************)
(* The package BuildBuildCC: the library of buildcc, the library it links  *)
(* and the header-only libraries it includes, and what the callbacks of    *)
(* the package give each of them.  Definitions only.  A globbed directory  *)
(* stands for the files it holds, a path is <<root, path from the root>>.  *)
(***************************************************************************)
EXTENDS TargetApi

HeaderOnly ==
  {"nlohmann_json_ho", "fmtlib_ho", "spdlog_ho", "cli11_ho", "taskflow_ho"}

(* BuildBuildCC::Initialize: <<identifier, type>>, all in its storage. *)
PackageStorage ==
  {<<name, "TargetInfo">> : name \in HeaderOnly}
  \cup {<<name, "StaticTarget_generic">> : name \in {"libtpl", "libbuildcc"}}

Under(root, dirs) == [i \in DOMAIN dirs |-> <<root, dirs[i]>>]

GlobHeaders(user, root, dirs) == AddAll(user, "headers", Under(root, dirs))

GlobSources(user, root, dirs) ==
  AddAll(user, "sources",
         [i \in DOMAIN dirs |-> [dirs |-> <<root, dirs[i]>>, name |-> "*",
                                 ext |-> ".cpp"]])

AddIncludeDirs(user, root, dirs) ==
  AddAll(user, "include_dirs", Under(root, dirs))

-----------------------------------------------------------------------------
(* The header-only libraries *)

IncludeDir(name) == IF name = "taskflow_ho" THEN "" ELSE "include"

NlohmannDirs ==
  <<"include/nlohmann", "include/nlohmann/thirdparty/hedley",
    "include/nlohmann/detail", "include/nlohmann/detail/conversions",
    "include/nlohmann/detail/input", "include/nlohmann/detail/iterators",
    "include/nlohmann/detail/meta", "include/nlohmann/detail/meta/call_std",
    "include/nlohmann/detail/output">>

FmtDirs == <<"include/fmt">>

SpdlogDirs ==
  <<"include/spdlog", "include/spdlog/cfg", "include/spdlog/details",
    "include/spdlog/fmt", "include/spdlog/sinks">>

CliDirs == <<"include/CLI">>

TaskflowDirs ==
  <<"taskflow", "taskflow/algorithm", "taskflow/core", "taskflow/cuda",
    "taskflow/cuda/algorithm", "taskflow/dsl", "taskflow/sycl",
    "taskflow/sycl/algorithm", "taskflow/utility">>

GlobbedDirs ==
  [nlohmann_json_ho |-> NlohmannDirs, fmtlib_ho |-> FmtDirs,
   spdlog_ho |-> SpdlogDirs, cli11_ho |-> CliDirs, taskflow_ho |-> TaskflowDirs]

HeaderOnlyCb(info, name) ==
  GlobHeaders(AddIncludeDirs(info, name, <<IncludeDir(name)>>),
              name, GlobbedDirs[name])

-----------------------------------------------------------------------------
(* The libraries *)

GlobalFlags(user, t) ==
  CASE t.id \in {"Gcc", "MinGW"} ->
         AddAll(user, "cpp_compile_flags",
                <<"-std=c++17", "-Os", "-Wall", "-Wextra", "-Werror">>)
    [] t.id = "Msvc" ->
         AddAll(Add(user, "preprocessor_flags", "/D_CRT_SECURE_NO_WARNINGS"),
                "cpp_compile_flags", <<"/std:c++17", "/Ot", "/W4", "/WX">>)
    [] OTHER -> user

TplSource(name) == [dirs |-> <<"libtpl">>, name |-> name, ext |-> ".cpp"]

TplCb(user, os) ==
  Add(AddIncludeDirs(
        AddAll(user, "sources",
               <<TplSource("process"),
                 TplSource(IF os = "win" THEN "process_win" ELSE "process_unix")>>),
        "libtpl", <<"">>),
      "headers", <<"libtpl", "process.hpp">>)

kInsertOptions == <<"include_dirs", "headers">>

SourceDirs ==
  <<"lib/env/src", "schema/src", "lib/toolchain/src/api",
    "lib/toolchain/src/common", "lib/toolchain/src/toolchain",
    "lib/target/src/common", "lib/target/src/custom_generator",
    "lib/target/src/generator", "lib/target/src/api",
    "lib/target/src/target_info", "lib/target/src/target",
    "lib/target/src/target/friend", "lib/args/src", "toolchains/src",
    "plugins/src">>

IncludeDirs ==
  <<"", "lib/env/include", "schema/include", "lib/toolchain/include",
    "lib/target/include", "lib/args/include", "toolchains/include",
    "targets/include", "plugins/include">>

(* Neither lib/target/include/target/custom_generator nor *)
(* lib/args/include/args/register is there.               *)
HeaderDirs ==
  <<"", "lib/env/include/env", "schema/include/schema",
    "schema/include/schema/interface", "lib/toolchain/include/toolchain",
    "lib/toolchain/include/toolchain/api",
    "lib/toolchain/include/toolchain/common", "lib/target/include/target",
    "lib/target/include/target/api", "lib/target/include/target/common",
    "lib/target/include/target/friend", "lib/target/include/target/interface",
    "lib/args/include/args", "toolchains/include/toolchains",
    "targets/include/targets", "plugins/include/plugins">>

PlatformFlags(user, t, os) ==
  CASE os = "win" /\ t.id = "MinGW" ->
         Add(AddAll(user, "preprocessor_flags",
                    <<"-DFMT_HEADER_ONLY=1", "-DSPDLOG_FMT_EXTERNAL">>),
             "link_flags", "-Wl,--allow-multiple-definition")
    [] os = "win" /\ t.id = "Msvc" ->
         AddAll(user, "preprocessor_flags",
                <<"/DFMT_HEADER_ONLY=1", "/DSPDLOG_FMT_EXTERNAL">>)
    [] os = "linux" /\ t.id = "Gcc" ->
         Add(AddAll(user, "preprocessor_flags",
                    <<"-DFMT_HEADER_ONLY=1", "-DSPDLOG_FMT_EXTERNAL">>),
             "external_libs", "-lpthread")
    [] OTHER -> user

(* infos holds the header-only libraries and libtpl as they are by now. *)
BuildccCb(user, infos, t, os) ==
  LET Taken(to, name) == Insert(to, infos[name], kInsertOptions, FALSE)[1]
      own == GlobHeaders(
               AddIncludeDirs(GlobSources(user, "buildcc", SourceDirs),
                              "buildcc", IncludeDirs),
               "buildcc", HeaderDirs)
      parsers == Taken(Taken(own, "nlohmann_json_ho"), "fmtlib_ho")
      included == Taken(Taken(Taken(parsers, "spdlog_ho"), "cli11_ho"),
                        "taskflow_ho")
  IN PlatformFlags(Taken(Add(included, "libs", "libtpl"), "libtpl"), t, os)
=============================================================================
