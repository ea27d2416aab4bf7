----------------------------- MODULE MCGenerators -----------------------------
EXTENDS Generators

(* A file generator f, and a template generator t that reads what f makes. *)
MCGeneratorSet == {"f", "t"}
MCKind == [f |-> "file", t |-> "template"]
MCDeps == {<<"f", "t">>}

MCIdentifiers ==
  [in |-> {}, tmp |-> {}, gen |-> {"v"}, out |-> {"current_build_dir"},
   end |-> {}, other |-> {}]

Pattern(identifier, text, uses) ==
  [identifier |-> identifier, text |-> text, uses |-> uses]

Step(reads, writes) == [reads |-> reads, writes |-> writes]

Command(reads, writes, uses) ==
  [reads |-> reads, writes |-> writes, uses |-> uses]

By(of, call, arg) == [of |-> of, call |-> call, arg |-> arg]

Input == By("f", "AddInput", "in")
Output == By("f", "AddOutput", "gen")
First == By("f", "AddCommand", Command("in", "tmp", {}))
Second == By("f", "AddCommand", Command("tmp", "gen", {"v"}))
Value(g, text) == By(g, "AddPatterns", {Pattern("v", text, {})})
Values2 ==
  By("f", "AddPatterns", {Pattern("a", "x", {}), Pattern("v", "y", {"a"})})
Template == By("t", "AddTemplate", Step("gen", "out"))
Chained == By("t", "AddTemplate", Step("out", "end"))
Twice == By("t", "AddTemplate", Step("gen", "other"))
BuildOf(g) == By(g, "Build", {})

(* Two commands in a chain and a template of what they make; the same with *)
(* other values, with the calls in other orders, some of them after Build, *)
(* with fewer or more commands and templates; and some that fail.         *)
MCScripts ==
  {<<Value("f", "x"), Input, Output, First, Second, BuildOf("f"),
     Value("t", "x"), Template, BuildOf("t")>>,
   <<Value("f", "y"), Value("f", "x"), Input, Output, First, Second,
     BuildOf("f"), Template, Value("t", "y"), BuildOf("t")>>,
   <<Input, Output, First, BuildOf("f"), Value("f", "x"), Second,
     Template, BuildOf("t"), Value("t", "x")>>,
   <<Values2, First, Second, BuildOf("f"), Input>>,
   <<Value("t", "x"), Template, Chained, BuildOf("t")>>,
   <<Input, First, BuildOf("f"), BuildOf("t"), Template>>,
   <<Value("t", "x"), Template, Twice, BuildOf("t")>>,
   <<Input, Second, BuildOf("f")>>,
   <<Template, BuildOf("t")>>,
   <<Input, Output, First, BuildOf("f"), BuildOf("f")>>}

(* These scripts make every file once. *)
ASSUME MCOneMaker == OneMaker
=============================================================================
