---------------------------- MODULE MCTargetInputs ----------------------------
EXTENDS TargetInputs

MCKinds == {<<"Executable", "Gcc">>, <<"StaticLibrary", "Msvc">>,
           <<"DynamicLibrary", "MinGW">>}

MCDirs == <<"bin", "opt">>

File(dirs, name, ext) == [dirs |-> dirs, name |-> name, ext |-> ext]

MCInfo ==
  [f \in Fields |->
     CASE f = "c_compile_flags" -> <<"i">>
       [] f = "pchs" -> <<File(<<>>, "i", ".h")>>
       [] OTHER -> <<>>]

MCCalls ==
  {<<"sources", File(<<>>, "a", ".c")>>, <<"sources", File(<<>>, "a", ".cpp")>>,
   <<"sources", File(<<>>, "a", ".md")>>,
   <<"sources", File(<<"..", "lib.d">>, "a", ".c")>>,
   <<"sources", File(<<"lib.d">>, "v1.", ".c")>>,
   <<"sources", File(<<"lib_d">>, "v1.", ".c")>>,
   <<"libs", "lib">>, <<"include_dirs", "dir">>}

MCHeaders == <<File(<<>>, "h", ".h"), File(<<>>, "notes", ".txt")>>

MCOptions ==
  {<<"c_compile_flags">>, <<"pchs">>, <<"pchs", "c_compile_flags", "pchs">>}
=============================================================================
