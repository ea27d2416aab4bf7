--------------------------- MODULE BuildExeProofs ---------------------------
(***************************************************************************)
(* The programs of buildcc meet no assertion about the order of their own  *)
(* calls, run only what is fresh and what was made by the compilers they   *)
(* verified, make every command with these, link what the libraries they   *)
(* link need, and leave the commands of what they built: theorems for any  *)
(* sessions, hosts, edits and bounds.  IInv of BuildExeInvariant is the    *)
(* inductive invariant.                                                    *)
(***************************************************************************)
EXTENDS BuildExeInvariant, TargetApiProofs

-----------------------------------------------------------------------------
(* The main functions, as sequences of ranked steps. *)

(* Two parts of a main function, one after the other. *)
LEMMA PartsJoin ==
  ASSUME NEW mode, NEW s, NEW t, NEW lo \in Nat, NEW mid \in Nat,
         NEW next \in Nat, NEW hi \in Nat, NEW S, NEW T0,
         lo <= next, mid < next, mid <= hi,
         Part(mode, s, lo, mid, S), Part(mode, t, next, hi, T0)
  PROVE  Part(mode, s \o t, lo, hi, S \cup T0)
<1> DEFINE u == s \o t
<1>1. s \in Seq(S) /\ t \in Seq(T0)
  BY DEF Part
<1>2. u \in Seq(S \cup T0) /\ Len(u) = Len(s) + Len(t)
  BY <1>1
<1>3. \A i \in DOMAIN u : IF i \in DOMAIN s THEN u[i] = s[i]
                          ELSE i - Len(s) \in DOMAIN t /\ u[i] = t[i - Len(s)]
  BY <1>1, <1>2
<1>4. \A i \in DOMAIN s : i \in DOMAIN u /\ u[i] = s[i]
  BY <1>1, <1>2
<1>5. \A i \in DOMAIN t : i + Len(s) \in DOMAIN u /\ u[i + Len(s)] = t[i]
  BY <1>1, <1>2
<1>6. ToSet(u) = S \cup T0
  <2>1. ToSet(u) \subseteq S \cup T0
    BY <1>3 DEF ToSet, Part
  <2>2. S \subseteq ToSet(u)
    BY <1>4 DEF ToSet, Part
  <2>3. T0 \subseteq ToSet(u)
    BY <1>5 DEF ToSet, Part
  <2> QED BY <2>1, <2>2, <2>3
<1>7. \A i \in DOMAIN s : Rank(mode, s[i]) \in lo..mid
  BY DEF Part
<1>8. \A i \in DOMAIN t : Rank(mode, t[i]) \in next..hi
  BY DEF Part
<1>9. ASSUME NEW i \in DOMAIN u PROVE Rank(mode, u[i]) \in lo..hi
  BY <1>3, <1>7, <1>8
<1>10. ASSUME NEW i \in DOMAIN u, NEW j \in DOMAIN u, i < j
       PROVE  Rank(mode, u[i]) < Rank(mode, u[j])
  <2>1. CASE j \in DOMAIN s
    <3>1. i \in DOMAIN s
      BY <1>1, <1>2, <1>10, <2>1
    <3> QED BY <1>3, <1>10, <2>1, <3>1 DEF Part
  <2>2. CASE j \notin DOMAIN s /\ i \in DOMAIN s
    <3>1. Rank(mode, u[i]) \in lo..mid
      BY <1>3, <1>7, <2>2
    <3>2. Rank(mode, u[j]) \in next..hi
      BY <1>3, <1>8, <2>2
    <3> QED BY <3>1, <3>2
  <2>3. CASE j \notin DOMAIN s /\ i \notin DOMAIN s
    <3>1. i - Len(s) \in DOMAIN t /\ j - Len(s) \in DOMAIN t
      BY <1>3, <2>3
    <3>2. i - Len(s) < j - Len(s)
      BY <1>1, <1>2, <1>10
    <3>3. Rank(mode, t[i - Len(s)]) < Rank(mode, t[j - Len(s)])
      BY <3>1, <3>2 DEF Part
    <3> QED BY <1>3, <2>3, <3>3
  <2> QED BY <2>1, <2>2, <2>3
<1> HIDE DEF u
<1>11. Part(mode, u, lo, hi, S \cup T0)
  BY <1>2, <1>6, <1>9, <1>10 DEF Part
<1> QED BY <1>11 DEF u

(* A tuple of steps of consecutive ranks. *)
Ranked(mode, s, lo, hi, steps) ==
  /\ s \in Seq(steps) /\ \A x \in steps : \E i \in DOMAIN s : s[i] = x
  /\ Len(s) = hi - lo + 1
  /\ \A i \in DOMAIN s : Rank(mode, s[i]) = lo + i - 1

(* A part whose steps have the ranks from lo on. *)
LEMMA PartIs ==
  ASSUME NEW mode, NEW lo \in Nat, NEW hi \in Nat, NEW s, NEW steps,
         Ranked(mode, s, lo, hi, steps)
  PROVE  Part(mode, s, lo, hi, steps)
<1>1. s \in Seq(steps) /\ DOMAIN s = 1..(hi - lo + 1)
  BY DEF Ranked
<1>2. ToSet(s) = steps
  BY <1>1 DEF ToSet, Ranked
<1>3. \A i \in DOMAIN s : Rank(mode, s[i]) \in lo..hi
  BY <1>1 DEF Ranked
<1>4. \A i, j \in DOMAIN s : i < j => Rank(mode, s[i]) < Rank(mode, s[j])
  BY <1>1 DEF Ranked
<1> QED BY <1>1, <1>2, <1>3, <1>4 DEF Part

(* The ranks, one by one. *)
LEMMA BootRanks ==
  /\ BootRank("Args::Init") = 1 /\ BootRank("Parse") = 2 /\ BootRank("Reg::Init") = 3
  /\ BootRank("Clean") = 4 /\ BootRank("ConstructToolchain") = 5
  /\ BootRank("NewPackage") = 6 /\ BootRank("NewUser") = 7 /\ BootRank("Verify") = 8
  /\ BootRank("HeaderOnly") = 9 /\ BootRank("BuildTpl") = 10
  /\ BootRank("BuildBuildcc") = 11 /\ BootRank("DepBuildcc") = 12
  /\ BootRank("UserInsert") = 13 /\ BootRank("BuildUser") = 14
  /\ BootRank("DepUser") = 15 /\ BootRank("Run") = 16 /\ BootRank("Generate") = 17
  /\ BootRank("SaveGraph") = 18
BY DEF BootRank

(* The ranks, one by one. *)
LEMMA ExeRanks ==
  /\ ExeRank("BuildccHome::Init") = 0
  /\ ExeRank("Args::Init") = 1 /\ ExeRank("Parse") = 2 /\ ExeRank("Reg::Init") = 3
  /\ ExeRank("Clean") = 4 /\ ExeRank("ConstructToolchain") = 5
  /\ ExeRank("Verify") = 6 /\ ExeRank("WriteVerifier") = 7
  /\ ExeRank("BuildVerifier") = 8 /\ ExeRank("RunVerifier") = 9
  /\ ExeRank("NewPackage") = 10 /\ ExeRank("HeaderOnly") = 11
  /\ ExeRank("BuildTpl") = 12 /\ ExeRank("BuildBuildcc") = 13
  /\ ExeRank("DepBuildcc") = 14 /\ ExeRank("NewUser") = 15
  /\ ExeRank("UserInputs") = 16 /\ ExeRank("UserInsert") = 17
  /\ ExeRank("UserLibs") = 18 /\ ExeRank("BuildUser") = 19
  /\ ExeRank("DepUser") = 20 /\ ExeRank("Run") = 21
  /\ ExeRank("RunUserTarget") = 22 /\ ExeRank("Generate") = 23
BY DEF ExeRank

(* What every main function starts with. *)
LEMMA StartPart ==
  ASSUME NEW mode
  PROVE  Part(mode, Start, 1, 5, StartSteps)
<1>1. Start \in Seq(StartSteps) /\ Len(Start) = 5
  BY DEF Start, StartSteps
<1>2. \A i \in 1..5 : Rank(mode, Start[i]) = 1 + i - 1
  BY BootRanks, ExeRanks DEF Start, Rank
<1>3. \A x \in StartSteps : \E i \in 1..5 : Start[i] = x
  BY DEF Start, StartSteps
<1>4. Ranked(mode, Start, 1, 5, StartSteps)
  BY <1>1, <1>2, <1>3 DEF Ranked
<1> QED BY <1>4, PartIs

(* The setup of the package, in the two programs that have it. *)
LEMMA PackagePart ==
  /\ Part("bootstrap", Package, 9, 12, PackageSteps)
  /\ Part("script", Package, 11, 14, PackageSteps)
<1>1. Package \in Seq(PackageSteps) /\ Len(Package) = 4
  BY DEF Package, PackageSteps
<1>2. \A i \in 1..4 : Rank("bootstrap", Package[i]) = 9 + i - 1
  BY BootRanks DEF Package, Rank
<1>3. \A i \in 1..4 : Rank("script", Package[i]) = 11 + i - 1
  BY ExeRanks DEF Package, Rank
<1>4. \A x \in PackageSteps : \E i \in 1..4 : Package[i] = x
  BY DEF Package, PackageSteps
<1>5. Ranked("bootstrap", Package, 9, 12, PackageSteps)
  BY <1>1, <1>2, <1>4 DEF Ranked
<1>6. Ranked("script", Package, 11, 14, PackageSteps)
  BY <1>1, <1>3, <1>4 DEF Ranked
<1> QED BY <1>5, <1>6, PartIs

(* The other parts of the bootstrap and of script mode. *)
LEMMA SmallParts ==
  /\ Part("bootstrap", <<"NewPackage", "NewUser">>, 6, 7, {"NewPackage", "NewUser"})
  /\ Part("bootstrap", <<"Verify">>, 8, 8, {"Verify"})
  /\ Part("bootstrap", <<"UserInsert", "BuildUser", "DepUser">>, 13, 15,
          {"UserInsert", "BuildUser", "DepUser"})
  /\ Part("bootstrap", <<"Run", "Generate", "SaveGraph">>, 16, 18,
          {"Run", "Generate", "SaveGraph"})
  /\ \A mode \in {"script", "immediate"} :
       /\ Part(mode, <<"BuildccHome::Init">>, 0, 0, {"BuildccHome::Init"})
       /\ Part(mode, <<"Verify">>, 6, 6, {"Verify"})
       /\ Part(mode, <<"Generate">>, 23, 23, {"Generate"})
  /\ Part("script", HostToolchainVerify, 7, 9,
          {"WriteVerifier", "BuildVerifier", "RunVerifier"})
  /\ Part("script", <<"NewPackage">>, 10, 10, {"NewPackage"})
  /\ Part("script",
          <<"NewUser", "UserInputs", "UserInsert", "UserLibs", "BuildUser", "DepUser">>,
          15, 20,
          {"NewUser", "UserInputs", "UserInsert", "UserLibs", "BuildUser", "DepUser"})
  /\ Part("script", <<"Run", "RunUserTarget">>, 21, 22, {"Run", "RunUserTarget"})
<1>1. Ranked("bootstrap", <<"NewPackage", "NewUser">>, 6, 7, {"NewPackage", "NewUser"})
  BY BootRanks DEF Rank, Ranked
<1>2. Ranked("bootstrap", <<"Verify">>, 8, 8, {"Verify"})
  BY BootRanks DEF Rank, Ranked
<1>3. Ranked("bootstrap", <<"UserInsert", "BuildUser", "DepUser">>, 13, 15,
             {"UserInsert", "BuildUser", "DepUser"})
  BY BootRanks DEF Rank, Ranked
<1>4. Ranked("bootstrap", <<"Run", "Generate", "SaveGraph">>, 16, 18,
             {"Run", "Generate", "SaveGraph"})
  BY BootRanks DEF Rank, Ranked
<1>5. ASSUME NEW mode \in {"script", "immediate"}
      PROVE  /\ Ranked(mode, <<"BuildccHome::Init">>, 0, 0, {"BuildccHome::Init"})
             /\ Ranked(mode, <<"Verify">>, 6, 6, {"Verify"})
             /\ Ranked(mode, <<"Generate">>, 23, 23, {"Generate"})
  BY ExeRanks DEF Rank, Ranked
<1>6. Ranked("script", HostToolchainVerify, 7, 9,
             {"WriteVerifier", "BuildVerifier", "RunVerifier"})
  BY ExeRanks DEF Rank, Ranked, HostToolchainVerify
<1>7. Ranked("script", <<"NewPackage">>, 10, 10, {"NewPackage"})
  BY ExeRanks DEF Rank, Ranked
<1>8. Ranked("script",
             <<"NewUser", "UserInputs", "UserInsert", "UserLibs", "BuildUser",
                "DepUser">>,
             15, 20,
             {"NewUser", "UserInputs", "UserInsert", "UserLibs", "BuildUser",
               "DepUser"})
  BY ExeRanks DEF Rank, Ranked
<1>9. Ranked("script", <<"Run", "RunUserTarget">>, 21, 22, {"Run", "RunUserTarget"})
  BY ExeRanks DEF Rank, Ranked
<1> QED BY <1>1, <1>2, <1>3, <1>4, <1>5, <1>6, <1>7, <1>8, <1>9, PartIs

(* The empty part, and the one of immediate mode with gaps in it. *)
LEMMA OtherParts ==
  /\ Part("bootstrap", <<>>, 8, 15, {})
  /\ Part("immediate", ConstructUserTarget, 7, 20,
       {"NewUser", "UserInputs", "BuildUser"})
  /\ Part("immediate", <<"Run">>, 21, 22, {"Run"})
<1>1. Part("bootstrap", <<>>, 8, 15, {})
  BY DEF Part, ToSet
<1>2. Part("immediate", <<"Run">>, 21, 22, {"Run"})
  BY ExeRanks DEF Part, ToSet, Rank
<1>3. Part("immediate", ConstructUserTarget, 7, 20,
        {"NewUser", "UserInputs", "BuildUser"})
  <2> DEFINE s == <<"NewUser", "UserInputs", "BuildUser">>
             S == {"NewUser", "UserInputs", "BuildUser"}
  <2>1. s \in Seq(S) /\ DOMAIN s = 1..3
    OBVIOUS
  <2>2. s[1] = "NewUser" /\ s[2] = "UserInputs" /\ s[3] = "BuildUser"
    OBVIOUS
  <2> HIDE DEF s
  <2>3. ToSet(s) = S
    BY <2>1, <2>2 DEF ToSet
  <2>4. /\ Rank("immediate", s[1]) = 15 /\ Rank("immediate", s[2]) = 16
        /\ Rank("immediate", s[3]) = 19
    BY <2>2, ExeRanks DEF Rank
  <2>5. Part("immediate", s, 7, 20, S)
    BY <2>1, <2>3, <2>4 DEF Part
  <2> QED BY <2>5 DEF ConstructUserTarget, s
<1> QED BY <1>1, <1>2, <1>3

(* A part between ranks that are further apart. *)
LEMMA PartWider ==
  ASSUME NEW mode, NEW s, NEW lo \in Nat, NEW hi \in Nat, NEW low \in Nat,
         NEW high \in Nat,
         NEW S, Part(mode, s, lo, hi, S), low <= lo, hi <= high
  PROVE  Part(mode, s, low, high, S)
<1>1. \A i \in DOMAIN s : Rank(mode, s[i]) \in lo..hi
  BY DEF Part
<1>2. \A i \in DOMAIN s : Rank(mode, s[i]) \in low..high
  BY <1>1
<1> QED BY <1>2 DEF Part

(* The main functions are their steps, in order. *)
LEMMA MainIs ==
  ASSUME NEW s, IsSession(s)
  PROVE  Part(s.mode, Main(s), 0, 23, MainSteps(s))
<1>1. s.mode \in {"immediate", "script", "bootstrap"}
  BY DEF IsSession
<1>2. CASE s.mode = "bootstrap"
  <2> DEFINE m == "bootstrap"
             w == <<"NewPackage", "NewUser">>
             i1 == <<"Verify">> \o Package
             i2 == <<"UserInsert", "BuildUser", "DepUser">>
             r == <<"Run", "Generate", "SaveGraph">>
             i == IfBuild(s.build, i1 \o i2)
             I == IF s.build THEN
                     {"Verify", "UserInsert", "BuildUser", "DepUser"} \cup PackageSteps
                  ELSE {}
             Q == {"Run", "Generate", "SaveGraph"}
             W == {"NewPackage", "NewUser"}
             I2 == {"UserInsert", "BuildUser", "DepUser"}
  <2>w. Part(m, w, 6, 7, W)
    BY SmallParts
  <2>v. Part(m, <<"Verify">>, 8, 8, {"Verify"})
    BY SmallParts
  <2>i. Part(m, i2, 13, 15, I2)
    BY SmallParts
  <2>r. Part(m, r, 16, 18, Q)
    BY SmallParts
  <2>s. Part(m, Start, 1, 5, StartSteps)
    BY StartPart
  <2>p. Part(m, Package, 9, 12, PackageSteps)
    BY PackagePart
  <2> HIDE DEF w, i2, r, Q, W, I2
  <2>1. Part(m, Start \o w, 1, 7, StartSteps \cup W)
    BY <2>s, <2>w, PartsJoin
  <2>2. Part(m, i1, 8, 12, {"Verify"} \cup PackageSteps)
    BY <2>v, <2>p, PartsJoin
  <2> HIDE DEF i1
  <2>3. Part(m, i1 \o i2, 8, 15, ({"Verify"} \cup PackageSteps) \cup I2)
    BY <2>2, <2>i, PartsJoin
  <2>4. Part(m, i, 8, 15, I)
    <3>1. ({"Verify"} \cup PackageSteps) \cup I2
            = {"Verify", "UserInsert", "BuildUser", "DepUser"} \cup PackageSteps
      BY DEF I2
    <3>2. Part(m, <<>>, 8, 15, {})
      BY OtherParts
    <3> QED BY <2>3, <3>1, <3>2 DEF IfBuild
  <2>7. Main(s) = Start \o w \o i \o r
    BY <1>2 DEF Main, BootstrapMain, w, i1, i2, r
  <2>8. MainSteps(s) = ((StartSteps \cup W) \cup I) \cup Q
    BY <1>2 DEF MainSteps, W, Q
  <2> HIDE DEF i, I
  <2>5. Part(m, (Start \o w) \o i, 1, 15, (StartSteps \cup W) \cup I)
    BY <2>1, <2>4, PartsJoin
  <2>6. Part(m, ((Start \o w) \o i) \o r, 1, 18, ((StartSteps \cup W) \cup I) \cup Q)
    BY <2>5, <2>r, PartsJoin
  <2>9. Part(m, ((Start \o w) \o i) \o r, 0, 23, ((StartSteps \cup W) \cup I) \cup Q)
    BY <2>6, PartWider
  <2> QED BY <1>2, <2>9, <2>7, <2>8
<1>3. ASSUME s.mode # "bootstrap"
      PROVE  Part(s.mode, <<"BuildccHome::Init">> \o Start \o <<"Verify">>, 0, 6,
                  ({"BuildccHome::Init"} \cup StartSteps) \cup {"Verify"})
  <2>1. s.mode \in {"script", "immediate"}
    BY <1>1, <1>3
  <2>2. Part(s.mode, <<"BuildccHome::Init">>, 0, 0, {"BuildccHome::Init"})
    BY <2>1, SmallParts
  <2>3. Part(s.mode, <<"Verify">>, 6, 6, {"Verify"})
    BY <2>1, SmallParts
  <2>4. Part(s.mode, Start, 1, 5, StartSteps)
    BY StartPart
  <2>5. Part(s.mode, <<"BuildccHome::Init">> \o Start, 0, 5,
             {"BuildccHome::Init"} \cup StartSteps)
    BY <2>2, <2>4, PartsJoin
  <2>6. Part(s.mode, (<<"BuildccHome::Init">> \o Start) \o <<"Verify">>, 0, 6,
             ({"BuildccHome::Init"} \cup StartSteps) \cup {"Verify"})
    BY <2>3, <2>5, PartsJoin
  <2> QED BY <2>6
<1>4. CASE s.mode = "script"
  <2> DEFINE m == "script"
             b == <<"BuildccHome::Init">> \o Start \o <<"Verify">>
             B == ({"BuildccHome::Init"} \cup StartSteps) \cup {"Verify"}
             V == {"WriteVerifier", "BuildVerifier", "RunVerifier"}
             u == <<"NewUser", "UserInputs", "UserInsert", "UserLibs", "BuildUser",
                    "DepUser">>
             U == {"NewUser", "UserInputs", "UserInsert", "UserLibs", "BuildUser",
                   "DepUser"}
             n == <<"NewPackage">> \o Package
             r == <<"Run", "RunUserTarget">>
             P == {"Run", "RunUserTarget"}
             h == HostToolchainVerify
  <2>1. Part(m, b, 0, 6, B)
    BY <1>3, <1>4
  <2>h. Part(m, h, 7, 9, V)
    BY SmallParts
  <2>n. Part(m, <<"NewPackage">>, 10, 10, {"NewPackage"})
    BY SmallParts
  <2>u. Part(m, u, 15, 20, U)
    BY SmallParts
  <2>r. Part(m, r, 21, 22, P)
    BY SmallParts
  <2>g. Part(m, <<"Generate">>, 23, 23, {"Generate"})
    BY SmallParts
  <2>p. Part(m, Package, 11, 14, PackageSteps)
    BY PackagePart
  <2>2. Part(m, n, 10, 14, {"NewPackage"} \cup PackageSteps)
    BY <2>n, <2>p, PartsJoin
  <2>4. ConstructUserTargetWithBuildcc = n \o u
    BY DEF ConstructUserTargetWithBuildcc
  <2>9. Main(s) = b \o (h \o (n \o u) \o r) \o <<"Generate">>
    BY <1>4, <2>4 DEF Main, BuildExeMain
  <2>10. MainSteps(s) =
          (B \cup ((V \cup (({"NewPackage"} \cup PackageSteps) \cup U)) \cup P))
               \cup {"Generate"}
    BY <1>4 DEF MainSteps
  <2> HIDE DEF b, B, n, u, U, V, h, r, P
  <2>3. Part(m, n \o u, 10, 20, ({"NewPackage"} \cup PackageSteps) \cup U)
    BY <2>2, <2>u, PartsJoin
  <2>5. Part(m, h \o (n \o u), 7, 20,
          V \cup (({"NewPackage"} \cup PackageSteps) \cup U))
    BY <2>3, <2>h, PartsJoin
  <2>6. Part(m, (h \o (n \o u)) \o r, 7, 22,
             (V \cup (({"NewPackage"} \cup PackageSteps) \cup U)) \cup P)
    BY <2>5, <2>r, PartsJoin
  <2>7. Part(m, b \o ((h \o (n \o u)) \o r), 0, 22,
             B \cup ((V \cup (({"NewPackage"} \cup PackageSteps) \cup U)) \cup P))
    BY <2>1, <2>6, PartsJoin
  <2>8. Part(m, (b \o ((h \o (n \o u)) \o r)) \o <<"Generate">>, 0, 23,
             (B \cup ((V \cup (({"NewPackage"} \cup PackageSteps) \cup U)) \cup P))
               \cup {"Generate"})
    BY <2>7, <2>g, PartsJoin
  <2> QED BY <1>4, <2>8, <2>9, <2>10
<1>5. CASE s.mode = "immediate"
  <2> DEFINE m == "immediate"
             b == <<"BuildccHome::Init">> \o Start \o <<"Verify">>
             B == ({"BuildccHome::Init"} \cup StartSteps) \cup {"Verify"}
             U == {"NewUser", "UserInputs", "BuildUser"}
  <2>1. Part(m, b, 0, 6, B)
    BY <1>3, <1>5
  <2>u. Part(m, ConstructUserTarget, 7, 20, U)
    BY OtherParts
  <2>r. Part(m, <<"Run">>, 21, 22, {"Run"})
    BY OtherParts
  <2>g. Part(m, <<"Generate">>, 23, 23, {"Generate"})
    BY SmallParts
  <2>2. Part(m, ConstructUserTarget \o <<"Run">>, 7, 22, U \cup {"Run"})
    BY <2>u, <2>r, PartsJoin
  <2> HIDE DEF b, B, U
  <2>3. Part(m, b \o (ConstructUserTarget \o <<"Run">>), 0, 22, B \cup (U \cup {"Run"}))
    BY <2>1, <2>2, PartsJoin
  <2>4. Part(m, (b \o (ConstructUserTarget \o <<"Run">>)) \o <<"Generate">>, 0, 23,
             (B \cup (U \cup {"Run"})) \cup {"Generate"})
    BY <2>3, <2>g, PartsJoin
  <2>5. Main(s) = (b \o (ConstructUserTarget \o <<"Run">>)) \o <<"Generate">>
    BY <1>5 DEF Main, BuildExeMain, b
  <2>6. MainSteps(s) = (B \cup (U \cup {"Run"})) \cup {"Generate"}
    BY <1>5 DEF MainSteps, B, U
  <2> QED BY <1>5, <2>4, <2>5, <2>6
<1> QED BY <1>1, <1>2, <1>4, <1>5

-----------------------------------------------------------------------------
(* What a step does. *)

(* A step of main that has been taken: what it does to main's own state, to *)
(* the graph and to what is on disk.                                        *)
MovedMain(step) ==
  /\ Do(step) /\ Go
  /\ up' = up \cup Provides(step)
  /\ storage' = storage \cup Stores(step)
  /\ built' = built
  /\ step \notin {"ConstructToolchain", "Verify"} => toolchain' = toolchain

(* What is registered, and the tasks that Run makes of it. *)
MovedGraph(step) ==
  /\ build' = build \cup BuilderOf(step)
  /\ edges' = edges \cup EdgeOf(step)
  /\ tests' = tests /\ testing' = testing /\ taskState' = taskState
  /\ step # "Run" => phase' = phase /\ task' = task
  /\ step = "Run" =>
       /\ phase = "script" /\ phase' = "build"
       /\ task' = [b \in Builders |-> IF b \in build THEN "waiting" ELSE "none"]

(* What CleanCb leaves of the build directory. *)
Cleaned ==
  /\ ver' = ver
  /\ \E gone \in {{}, InBuildDir} :
       /\ out' = [b \in Builders |-> IF b \in gone THEN {} ELSE out[b]]
       /\ compile_commands' = IF gone = {} THEN compile_commands ELSE {}
       /\ missed' = (missed /\ gone = {})
       /\ madeBy' = [b \in Builders |-> IF b \in gone THEN "" ELSE madeBy[b]]
       /\ verifier' \in {verifier, NoVerifier}
       /\ lib_dirs' \subseteq lib_dirs

(* What is on disk. *)
MovedDisk(step) ==
  /\ step # "Clean" => out' = out /\ madeBy' = madeBy
  /\ step = "Clean" => Cleaned
  /\ step # "UserLibs" => ver' = ver
  /\ step = "UserLibs" =>
       IF kLibDirs \in session.writable THEN Saved(session.name) ELSE ver' = ver
  /\ step \notin {"Clean", "UserLibs"} => lib_dirs' = lib_dirs
  /\ step = "UserLibs" => lib_dirs' \subseteq lib_dirs \cup {session.name}
  /\ step \notin {"Clean", "WriteVerifier", "BuildVerifier"} => verifier' = verifier
  /\ step = "WriteVerifier" =>
       verifier' = IF kVerifier \in session.writable
                   THEN [verifier EXCEPT !.file = @ + 1] ELSE verifier
  /\ step = "BuildVerifier" =>
       verifier' = IF verifier.by # "" /\ verifier.made = verifier.file
                   THEN verifier
                   ELSE [verifier EXCEPT !.made = verifier.file, !.by = Dir]
  /\ step \notin {"Clean", "Generate"} =>
       compile_commands' = compile_commands /\ missed' = missed
  /\ step = "Generate" =>
       IF Described \in built
       THEN missed' = FALSE
            /\ compile_commands' = {[of |-> Described, from |-> out[Described]]}
       ELSE compile_commands' = compile_commands /\ missed' = missed

(* A step of main, taken. *)
Moved(step) == MovedMain(step) /\ MovedGraph(step) /\ MovedDisk(step)

(* The end of a process, and the executor at work. *)
Ended ==
  /\ outcome = "running"
  /\ outcome' \in {"failed", "fatal", "killed"}
  /\ outcome' = "fatal" => \E step : At(step) /\ ~Asserted(step)
  /\ Exit(outcome')
  /\ UNCHANGED <<ver, build, edges, tests, task, taskState, testing>>
  /\ \/ phase' = phase
     \/ phase = "build" /\ phase' = "failed" /\ outcome' = "failed"
  /\ \/ out' = out
     \/ \E lost \in SUBSET {b \in Builders : task[b] = "running"} :
          out' = [b \in Builders |-> IF b \in lost THEN {} ELSE out[b]]

(* A step of the executor. *)
Worked == Executor \/ \E b \in Builders : Finish(b)

(* Four steps initialise something. *)
LEMMA StepsDiffer ==
  ASSUME NEW step, step \notin {"BuildccHome::Init", "Args::Init", "Parse", "Reg::Init"}
  PROVE  Provides(step) = {}
BY DEF Provides

(* Two steps store something. *)
LEMMA StoresNothing ==
  ASSUME NEW step, step \notin {"NewPackage", "NewUser"}
  PROVE  Stores(step) = {}
BY DEF Stores

(* Three steps register a builder. *)
LEMMA BuildsNothing ==
  ASSUME NEW step, step \notin {"BuildTpl", "BuildBuildcc", "BuildUser"}
  PROVE  BuilderOf(step) = {}
BY DEF BuilderOf

(* Two steps register a dependency. *)
LEMMA DependsNot ==
  ASSUME NEW step, step \notin {"DepBuildcc", "DepUser"}
  PROVE  DepOf(step) = {} /\ EdgeOf(step) = {}
BY DEF DepOf, EdgeOf

(* A step that touches none of it. *)
LEMMA RanMoved ==
  ASSUME NEW step, step \notin {"BuildccHome::Init", "Args::Init", "Parse", "Reg::Init",
           "NewPackage", "NewUser", "BuildTpl", "BuildBuildcc", "BuildUser",
           "DepBuildcc", "DepUser", "Clean", "Run", "UserLibs", "WriteVerifier",
           "BuildVerifier", "Generate"},
         Do(step), Go, UNCHANGED <<up, storage, built, disk, lib_dirs, registered>>,
         step \notin {"ConstructToolchain", "Verify"} => toolchain' = toolchain
  PROVE  Moved(step)
<1>1. Provides(step) = {} /\ Stores(step) = {} /\ BuilderOf(step) = {}
      /\ EdgeOf(step) = {}
  BY StepsDiffer, StoresNothing, BuildsNothing, DependsNot
<1> QED BY <1>1 DEF Moved, MovedMain, MovedGraph, MovedDisk, disk, registered

(* The steps that initialise. *)
LEMMA SetupMoved ==
  ASSUME HomeInit \/ ArgsInit \/ Parse \/ RegInit
  PROVE  \E step : Moved(step)
<1>1. ASSUME NEW step \in {"BuildccHome::Init", "Args::Init", "Parse", "Reg::Init"},
             NEW what, what = Provides(step), Initialised(step, what)
      PROVE  Moved(step)
  <2>1. Stores(step) = {} /\ BuilderOf(step) = {} /\ EdgeOf(step) = {}
    BY StoresNothing, BuildsNothing, DependsNot
  <2> QED BY <1>1, <2>1
          DEF Initialised, Moved, MovedMain, MovedGraph, MovedDisk, disk, registered
<1>2. CASE HomeInit
  BY <1>1, <1>2 DEF HomeInit, Provides
<1>3. CASE ArgsInit
  BY <1>1, <1>3 DEF ArgsInit, Provides
<1>4. CASE Parse
  BY <1>1, <1>4 DEF Parse, Provides
<1>5. CASE RegInit
  <2>1. {"Reg"} \cup ProjectInit = Provides("Reg::Init")
    BY DEF Provides, ProjectInit
  <2> QED BY <1>1, <1>5, <2>1 DEF RegInit
<1> QED BY <1>2, <1>3, <1>4, <1>5

(* The steps on the toolchain and its verification. *)
LEMMA ToolsMoved ==
  ASSUME CleanCb \/ ConstructToolchain \/ VerifyToolchain \/ WriteVerifier
         \/ WriteVerifierUnsaved \/ BuildVerifier \/ RunVerifier
  PROVE  \E step : Moved(step)
<1>1. CASE ConstructToolchain \/ VerifyToolchain
  BY <1>1, RanMoved DEF ConstructToolchain, VerifyToolchain, ToolchainIs
<1>2. CASE RunVerifier
  BY <1>2, RanMoved DEF RunVerifier, Ran
<1>3. CASE CleanCb
  <2>1. Provides("Clean") = {} /\ Stores("Clean") = {} /\ BuilderOf("Clean") = {}
        /\ EdgeOf("Clean") = {}
    BY StepsDiffer, StoresNothing, BuildsNothing, DependsNot
  <2>2. Cleaned
    BY <1>3 DEF CleanCb, Cleaned
  <2>3. MovedMain("Clean")
    BY <1>3, <2>1 DEF CleanCb, MovedMain
  <2>4. MovedGraph("Clean")
    BY <1>3, <2>1 DEF CleanCb, MovedGraph
  <2>5. MovedDisk("Clean")
    BY <1>3, <2>2 DEF CleanCb, MovedDisk
  <2> QED BY <2>3, <2>4, <2>5 DEF Moved
<1>4. CASE WriteVerifier \/ WriteVerifierUnsaved
  <2>1. Provides("WriteVerifier") = {} /\ Stores("WriteVerifier") = {}
        /\ BuilderOf("WriteVerifier") = {} /\ EdgeOf("WriteVerifier") = {}
    BY StepsDiffer, StoresNothing, BuildsNothing, DependsNot
  <2>3. MovedMain("WriteVerifier")
    BY <1>4, <2>1 DEF WriteVerifier, WriteVerifierUnsaved, Ran, MovedMain
  <2>4. MovedGraph("WriteVerifier")
    BY <1>4, <2>1 DEF WriteVerifier, WriteVerifierUnsaved, Ran, MovedGraph, registered
  <2>5. MovedDisk("WriteVerifier")
    BY <1>4 DEF WriteVerifier, WriteVerifierUnsaved, Ran, MovedDisk, disk, registered
  <2> QED BY <2>3, <2>4, <2>5 DEF Moved
<1>5. CASE BuildVerifier
  <2>1. Provides("BuildVerifier") = {} /\ Stores("BuildVerifier") = {}
        /\ BuilderOf("BuildVerifier") = {} /\ EdgeOf("BuildVerifier") = {}
    BY StepsDiffer, StoresNothing, BuildsNothing, DependsNot
  <2>3. MovedMain("BuildVerifier")
    BY <1>5, <2>1 DEF BuildVerifier, MovedMain
  <2>4. MovedGraph("BuildVerifier")
    BY <1>5, <2>1 DEF BuildVerifier, MovedGraph, registered
  <2>5. MovedDisk("BuildVerifier")
    BY <1>5 DEF BuildVerifier, MovedDisk, registered
  <2> QED BY <2>3, <2>4, <2>5 DEF Moved
<1> QED BY <1>1, <1>2, <1>3, <1>4, <1>5

(* The steps on the targets. *)
LEMMA TargetsMoved ==
  ASSUME NewPackage \/ HeaderOnlyCbs \/ BuildTpl \/ BuildBuildcc
         \/ Dep("DepBuildcc") \/ Dep("DepUser")
         \/ NewUser \/ UserInputs \/ UserInsert \/ UserLibs \/ UserLibsUnsaved \/ BuildUser
  PROVE  \E step : Moved(step)
<1>1. CASE HeaderOnlyCbs \/ UserInputs \/ UserInsert
  BY <1>1, RanMoved DEF HeaderOnlyCbs, UserInputs, UserInsert, GaveUser, Gave
<1>2. CASE NewPackage \/ NewUser
  <2>1. ASSUME NEW step \in {"NewPackage", "NewUser"}, NEW targets,
               Do(step), Go, Gave(targets, Stores(step)),
               UNCHANGED <<commands, lib_dirs, registered>>
        PROVE  Moved(step)
    <3>1. Provides(step) = {} /\ BuilderOf(step) = {} /\ EdgeOf(step) = {}
      BY StepsDiffer, BuildsNothing, DependsNot
    <3> QED BY <2>1, <3>1
            DEF Gave, Moved, MovedMain, MovedGraph, MovedDisk, disk, registered
  <2>2. CASE NewPackage
    <3>1. Stores("NewPackage")
            = PackageStorage \cup {<<"BuildccPackage", "BuildBuildCC">>}
      BY DEF Stores
    <3> QED BY <2>1, <2>2, <3>1 DEF NewPackage
  <2>3. CASE NewUser
    <3>1. Stores("NewUser") = {<<"UserTarget", "Target_generic">>}
      BY DEF Stores
    <3> QED BY <2>1, <2>3, <3>1 DEF NewUser, GaveUser
  <2> QED BY <1>2, <2>2, <2>3
<1>3. CASE BuildTpl \/ BuildBuildcc \/ BuildUser
  <2>1. ASSUME NEW step \in {"BuildTpl", "BuildBuildcc", "BuildUser"}, NEW name,
               NEW role, NEW given, NEW type,
               BuilderOf(step) = {name}, Build(step, name, role, given, type)
        PROVE  Moved(step)
    <3>1. Provides(step) = {} /\ Stores(step) = {} /\ EdgeOf(step) = {}
      BY StepsDiffer, StoresNothing, DependsNot
    <3>2. UNCHANGED <<up, toolchain, built, disk, lib_dirs>> /\ storage' = storage
      BY <2>1 DEF Build, Gave
    <3>3. Do(step) /\ Go /\ R!BuildCall(name)
      BY <2>1 DEF Build
    <3> QED BY <2>1, <3>1, <3>2, <3>3
            DEF R!BuildCall, Moved, MovedMain, MovedGraph, MovedDisk, disk
  <2>2. CASE BuildTpl
    <3>1. BuilderOf("BuildTpl") = {"libtpl"}
      BY DEF BuilderOf
    <3> QED BY <2>1, <2>2, <3>1 DEF BuildTpl
  <2>3. CASE BuildBuildcc
    <3>1. BuilderOf("BuildBuildcc") = {"libbuildcc"}
      BY DEF BuilderOf
    <3> QED BY <2>1, <2>3, <3>1 DEF BuildBuildcc
  <2>4. CASE BuildUser
    <3>1. BuilderOf("BuildUser") = {session.name}
      BY DEF BuilderOf
    <3> QED BY <2>1, <2>4, <3>1 DEF BuildUser
  <2> QED BY <1>3, <2>2, <2>3, <2>4
<1>4. ASSUME NEW step \in {"DepBuildcc", "DepUser"}, Dep(step)
      PROVE  Moved(step)
  <2>1. Provides(step) = {} /\ Stores(step) = {} /\ BuilderOf(step) = {}
    BY StepsDiffer, StoresNothing, BuildsNothing
  <2>2. PICK d \in DepOf(step) : R!DepAdded(d[1], d[2])
    BY <1>4 DEF Dep
  <2>3. EdgeOf(step) = {<<d[2], d[1]>>}
    BY DEF EdgeOf, DepOf
  <2> QED BY <1>4, <2>1, <2>2, <2>3
          DEF Dep, R!DepAdded, Moved, MovedMain, MovedGraph, MovedDisk, disk
<1>5. CASE UserLibs \/ UserLibsUnsaved
  <2>1. Provides("UserLibs") = {} /\ Stores("UserLibs") = {}
        /\ BuilderOf("UserLibs") = {} /\ EdgeOf("UserLibs") = {}
    BY StepsDiffer, StoresNothing, BuildsNothing, DependsNot
  <2>3. MovedMain("UserLibs")
    BY <1>5, <2>1 DEF UserLibs, UserLibsUnsaved, GaveUser, Gave, MovedMain
  <2>4. MovedGraph("UserLibs")
    BY <1>5, <2>1 DEF UserLibs, UserLibsUnsaved, MovedGraph, registered
  <2>5. MovedDisk("UserLibs")
    BY <1>5 DEF UserLibs, UserLibsUnsaved, GaveUser, Gave, MovedDisk, disk, registered
  <2> QED BY <2>3, <2>4, <2>5 DEF Moved
<1> QED BY <1>1, <1>2, <1>3, <1>4, <1>5

(* Run, and what follows it. *)
LEMMA RunMoved ==
  ASSUME Run \/ RunUserTarget \/ Generate \/ GenerateNothing \/ SaveGraph
  PROVE  \E step : Moved(step)
<1>1. CASE RunUserTarget \/ SaveGraph
  BY <1>1, RanMoved DEF RunUserTarget, SaveGraph, Ran
<1>2. CASE Run
  <2>1. Provides("Run") = {} /\ Stores("Run") = {} /\ BuilderOf("Run") = {}
        /\ EdgeOf("Run") = {}
    BY StepsDiffer, StoresNothing, BuildsNothing, DependsNot
  <2>3. MovedMain("Run")
    BY <1>2, <2>1 DEF Run, MovedMain
  <2>4. MovedGraph("Run")
    BY <1>2, <2>1 DEF Run, R!RunBuild, R!script, MovedGraph
  <2>5. MovedDisk("Run")
    BY <1>2 DEF Run, R!RunBuild, R!script, MovedDisk, disk
  <2> QED BY <2>3, <2>4, <2>5 DEF Moved
<1>3. CASE Generate \/ GenerateNothing
  <2>1. Provides("Generate") = {} /\ Stores("Generate") = {}
        /\ BuilderOf("Generate") = {} /\ EdgeOf("Generate") = {}
    BY StepsDiffer, StoresNothing, BuildsNothing, DependsNot
  <2> QED BY <1>3, <2>1 DEF Generate, GenerateNothing, Ran, Moved, MovedMain,
                           MovedGraph, MovedDisk, disk, registered
<1> QED BY <1>1, <1>2, <1>3

(* A step that fails ends the process. *)
LEMMA FailsEnded ==
  ASSUME NEW step, Fails(step)
  PROVE  Ended
BY DEF Fails, Do, At, Ended, Exit, registered

(* So do the assertions, the failures of the executor and a kill. *)
LEMMA EndedCases ==
  ASSUME Kill \/ RunBuildFails
         \/ (\E step \in ToSet(Main(session)) : AssertionFails(step))
         \/ HomeMissing \/ LibsUnreadable \/ ParseFails \/ ToolchainRefused
         \/ VerifyFails \/ BuildVerifierFails \/ RunVerifierFails \/ PackageRefused
         \/ UserRefused \/ UserInputsRefused \/ GenerateFails \/ SaveGraphFails
  PROVE  Ended
<1>1. CASE Kill
  BY <1>1 DEF Kill, Ended, Exit
<1>2. CASE RunBuildFails
  BY <1>2 DEF RunBuildFails, R!RunBuildFails, R!script, Ended, Exit
<1>3. CASE \E step \in ToSet(Main(session)) : AssertionFails(step)
  <2>1. PICK step : AssertionFails(step)
    BY <1>3
  <2> QED BY <2>1 DEF AssertionFails, At, Ended, Exit, registered
<1>4. ASSUME HomeMissing \/ LibsUnreadable \/ ParseFails \/ ToolchainRefused
         \/ VerifyFails \/ BuildVerifierFails \/ RunVerifierFails \/ PackageRefused
         \/ UserRefused \/ UserInputsRefused \/ GenerateFails \/ SaveGraphFails
      PROVE Ended
  <2>1. \E step : Fails(step)
    BY <1>4 DEF HomeMissing, LibsUnreadable, ParseFails, ToolchainRefused,
      VerifyFails, BuildVerifierFails, RunVerifierFails, PackageRefused,
      UserRefused, UserInputsRefused, GenerateFails, SaveGraphFails
  <2> QED BY <2>1, FailsEnded
<1> QED BY <1>1, <1>2, <1>3, <1>4

(* A step of main, of the executor, the end of a process or a new one. *)
LEMMA NextCases ==
  ASSUME Next
  PROVE  (\E step : Moved(step)) \/ Ended \/ Worked \/ NextSession
<1>1. CASE Setup
  <2>1. \/ HomeInit \/ ArgsInit \/ Parse \/ RegInit
        \/ CleanCb \/ ConstructToolchain \/ VerifyToolchain \/ WriteVerifier
        \/ WriteVerifierUnsaved \/ BuildVerifier \/ RunVerifier
        \/ HomeMissing \/ LibsUnreadable \/ ParseFails \/ ToolchainRefused
        \/ VerifyFails \/ BuildVerifierFails \/ RunVerifierFails
    BY <1>1 DEF Setup
  <2> QED BY <2>1, SetupMoved, ToolsMoved, EndedCases
<1>2. CASE Targets
  <2>1. \/ NewPackage \/ HeaderOnlyCbs \/ BuildTpl \/ BuildBuildcc
        \/ Dep("DepBuildcc") \/ Dep("DepUser")
        \/ NewUser \/ UserInputs \/ UserInsert \/ UserLibs \/ UserLibsUnsaved \/ BuildUser
        \/ PackageRefused \/ UserRefused \/ UserInputsRefused
    BY <1>2 DEF Targets
  <2> QED BY <2>1, TargetsMoved, EndedCases
<1>3. CASE RunAll
  <2>1. \/ Run \/ RunUserTarget \/ Generate \/ GenerateNothing \/ SaveGraph
        \/ RunBuildFails \/ GenerateFails \/ SaveGraphFails \/ Worked
    BY <1>3 DEF RunAll, Worked
  <2> QED BY <2>1, RunMoved, EndedCases
<1>4. CASE (\E step \in ToSet(Main(session)) : AssertionFails(step)) \/ Kill
  BY <1>4, EndedCases
<1> QED BY <1>1, <1>2, <1>3, <1>4 DEF Next, Process

-----------------------------------------------------------------------------
(* How far main has come. *)

(* Ranks are numbers. *)
LEMMA RankNat ==
  ASSUME NEW mode, NEW step
  PROVE  Rank(mode, step) \in 0..23
<1>1. BootRank(step) \in 0..23
  BY DEF BootRank
<1>2. ExeRank(step) \in 0..23
  BY DEF ExeRank
<1> QED BY <1>1, <1>2 DEF Rank

(* The first step has the least rank; the others are a part too. *)
LEMMA TailPart ==
  ASSUME NEW mode, NEW s, NEW S, Part(mode, s, 0, 23, S), s # <<>>
  PROVE  /\ Head(s) \in S
         /\ \A y \in S \ {Head(s)} : Rank(mode, Head(s)) < Rank(mode, y)
         /\ Part(mode, Tail(s), 0, 23, S \ {Head(s)})
<1> DEFINE n == Len(s)
           t == Tail(s)
           x == Head(s)
<1>1. s \in Seq(S) /\ n \in Nat \ {0} /\ DOMAIN s = 1..n /\ x = s[1]
  BY DEF Part
<1>2. t \in Seq(S) /\ DOMAIN t = 1..(n - 1)
  BY <1>1
<1>3. \A i \in 1..(n-1) : t[i] = s[i + 1]
  BY <1>1
<1>4. S = {s[i] : i \in 1..n}
  BY <1>1 DEF Part, ToSet
<1>5. \A i, j \in 1..n : i < j => Rank(mode, s[i]) < Rank(mode, s[j])
  BY <1>1 DEF Part
<1>6. \A i \in 1..n : Rank(mode, s[i]) \in 0..23
  BY <1>1 DEF Part
<1> HIDE DEF n, t, x
<1>7. x \in S
  BY <1>1, <1>4
<1>8. \A i \in 2..n : Rank(mode, x) < Rank(mode, s[i]) /\ s[i] # x
  <2> SUFFICES ASSUME NEW i \in 2..n PROVE Rank(mode, x) < Rank(mode, s[i]) /\ s[i] # x
    OBVIOUS
  <2>1. Rank(mode, s[1]) < Rank(mode, s[i])
    BY <1>1, <1>5
  <2>2. Rank(mode, s[1]) \in 0..23
    BY <1>1, <1>6
  <2> QED BY <1>1, <2>1, <2>2
<1>9. \A y \in S \ {x} : \E i \in 2..n : y = s[i]
  BY <1>1, <1>4
<1>10. \A i \in 2..n : i - 1 \in 1..(n-1) /\ t[i - 1] = s[i]
  <2> SUFFICES ASSUME NEW i \in 2..n PROVE i - 1 \in 1..(n-1) /\ t[i - 1] = s[i]
    OBVIOUS
  <2>1. i - 1 \in 1..(n-1) /\ (i - 1) + 1 = i
    BY <1>1
  <2> QED BY <1>3, <2>1
<1>11. \A i \in 1..(n-1) : t[i] \in S \ {x}
  <2> SUFFICES ASSUME NEW i \in 1..(n-1) PROVE t[i] \in S \ {x}
    OBVIOUS
  <2>1. i + 1 \in 2..n
    BY <1>1
  <2>2. s[i + 1] \in S /\ s[i + 1] # x
    BY <1>4, <1>8, <2>1
  <2> QED BY <1>3, <2>2
<1>12. t \in Seq(S \ {x})
  <2>1. PICK m \in Nat : m = n - 1
    BY <1>1
  <2>2. t \in [1..m -> S \ {x}]
    <3>1. t = [i \in 1..m |-> t[i]]
      BY <1>2, <2>1
    <3> QED BY <1>11, <2>1, <3>1
  <2> QED BY <2>2
<1>13. ToSet(t) = S \ {x}
  <2>1. ToSet(t) = {t[i] : i \in 1..(n-1)}
    BY <1>2 DEF ToSet
  <2>2. S \ {x} \subseteq ToSet(t)
    BY <1>9, <1>10, <2>1
  <2>3. ToSet(t) \subseteq S \ {x}
    BY <1>11, <2>1
  <2> QED BY <2>2, <2>3
<1>14. \A i \in DOMAIN t : Rank(mode, t[i]) \in 0..23
  BY RankNat
<1>15. ASSUME NEW i \in DOMAIN t, NEW j \in DOMAIN t, i < j
       PROVE  Rank(mode, t[i]) < Rank(mode, t[j])
  <2>1. i + 1 \in 1..n /\ j + 1 \in 1..n /\ i + 1 < j + 1
    BY <1>1, <1>2, <1>15
  <2>2. t[i] = s[i + 1] /\ t[j] = s[j + 1]
    BY <1>2, <1>3
  <2> QED BY <1>5, <2>1, <2>2
<1>16. Part(mode, t, 0, 23, S \ {x})
  BY <1>12, <1>13, <1>14, <1>15 DEF Part
<1> QED BY <1>7, <1>8, <1>9, <1>16 DEF t, x

(* No step is before itself. *)
LEMMA LessIrreflexive ==
  ASSUME NEW mode, NEW x
  PROVE  ~(Rank(mode, x) < Rank(mode, x))
<1>1. Rank(mode, x) \in 0..23
  BY RankNat
<1> QED BY <1>1

(* No two steps are before each other. *)
LEMMA LessAsymmetric ==
  ASSUME NEW mode, NEW x, NEW y, Rank(mode, x) < Rank(mode, y)
  PROVE  ~(Rank(mode, y) < Rank(mode, x))
<1>1. Rank(mode, x) \in 0..23 /\ Rank(mode, y) \in 0..23
  BY RankNat
<1> QED BY <1>1

(* The step main is at, and what it leaves behind. *)
LEMMA AtIs ==
  ASSUME PlanInv, NEW step, At(step)
  PROVE  /\ step \in Left /\ step \in MainSteps(session) /\ step \notin Past
         /\ \A x \in MainSteps(session) : x \in Past <=> RankOf(x) < RankOf(step)
<1>1. todo # <<>> /\ step = Head(todo)
  BY DEF At
<1>2. Part(session.mode, todo, 0, 23, Left)
  BY DEF PlanInv
<1>3. step \in Left /\ \A y \in Left \ {step} : RankOf(step) < RankOf(y)
  BY <1>1, <1>2, TailPart DEF RankOf
<1>4. \A x \in Past : RankOf(x) < RankOf(step)
  BY <1>3 DEF PlanInv
<1>5. ASSUME NEW x \in MainSteps(session), RankOf(x) < RankOf(step)
      PROVE  x \in Past
  <2>1. CASE x = step
    BY <1>5, <2>1, LessIrreflexive DEF RankOf
  <2>2. CASE x \in Left \ {step}
    BY <1>3, <1>5, <2>2, LessAsymmetric DEF RankOf
  <2> QED BY <2>1, <2>2 DEF Past
<1> QED BY <1>3, <1>4, <1>5 DEF Past, PlanInv

(* A step that is taken is one of the past. *)
LEMMA GoIs ==
  ASSUME PlanInv, NEW step, At(step), Go
  PROVE  /\ Left' = Left \ {step} /\ Past' = Past \cup {step}
         /\ PlanInv'
<1>1. todo # <<>> /\ step = Head(todo) /\ todo' = Tail(todo)
  BY DEF At, Go
<1>2. Part(session.mode, todo, 0, 23, Left)
  BY DEF PlanInv
<1>3. \A y \in Left \ {step} : RankOf(step) < RankOf(y)
  BY <1>1, <1>2, TailPart DEF RankOf
<1>4. Part(session.mode, todo', 0, 23, Left \ {step})
  BY <1>1, <1>2, TailPart
<1>5. Left' = Left \ {step}
  BY <1>4 DEF Part, Left
<1>6. session' = session
  BY DEF Go
<1>7. step \in MainSteps(session)
  BY AtIs
<1>8. Past' = Past \cup {step}
  BY <1>5, <1>6, <1>7 DEF Past
<1>9. outcome' = "ok" => todo' = <<>>
  BY DEF Go
<1>10. outcome' \in {"ok", "running"}
  BY DEF Go
<1>11. Left' \subseteq MainSteps(session')
  BY <1>5, <1>6 DEF PlanInv
<1>12. \A x \in Past' : \A y \in Left' : Rank(session.mode, x) < Rank(session.mode, y)
  BY <1>3, <1>5, <1>8 DEF PlanInv, RankOf
<1>13. session' \in Sessions
  BY <1>6 DEF PlanInv
<1>14. Part(session'.mode, todo', 0, 23, Left')
  BY <1>4, <1>5, <1>6
<1>15. \A x \in Past' : \A y \in Left' : RankOf(x)' < RankOf(y)'
  BY <1>12, <1>6 DEF RankOf
<1>16. PlanInv'
  BY <1>9, <1>10, <1>11, <1>13, <1>14, <1>15 DEF PlanInv
<1> QED BY <1>5, <1>8, <1>16

(* Sessions are as assumed. *)
LEMMA SessionIs ==
  ASSUME session \in Sessions
  PROVE  IsSession(session)
BY SessionsAssumption

(* A process that starts has all of main left. *)
LEMMA StartIs ==
  ASSUME NEW s \in Sessions
  PROVE  /\ ToSet(Main(s)) = MainSteps(s)
         /\ Part(s.mode, Main(s), 0, 23, MainSteps(s))
<1>1. IsSession(s)
  BY SessionsAssumption
<1> QED BY <1>1, MainIs DEF Part

(* A process starts with all of main left. *)
LEMMA PlanInit ==
  ASSUME Init
  PROVE  PlanInv /\ Past = {}
<1>1. session \in Sessions /\ todo = Main(session) /\ outcome = "running"
  BY DEF Init
<1>2. Left = MainSteps(session) /\ Past = {}
  BY <1>1, StartIs DEF Left, Past
<1>3. Part(session.mode, todo, 0, 23, Left)
  BY <1>1, <1>2, StartIs
<1> QED BY <1>1, <1>2, <1>3 DEF PlanInv

(* So does the next one. *)
LEMMA PlanNextSession ==
  ASSUME NextSession
  PROVE  PlanInv' /\ Past' = {}
<1>1. PICK s \in Sessions : session' = s /\ todo' = Main(s) /\ outcome' = "running"
  BY DEF NextSession
<1>2. Left' = MainSteps(s) /\ Past' = {}
  BY <1>1, StartIs DEF Left, Past
<1>3. Part(session'.mode, todo', 0, 23, Left')
  BY <1>1, <1>2, StartIs
<1> QED BY <1>1, <1>2, <1>3 DEF PlanInv

(* Steps that leave main where it is. *)
Resting == session' = session /\ todo' = todo

(* Main does not move. *)
LEMMA RestIs ==
  ASSUME Resting
  PROVE  Left' = Left /\ Past' = Past
BY DEF Resting, Left, Past

(* Then neither does the plan, whatever ends the process. *)
LEMMA PlanRests ==
  ASSUME PlanInv, Resting,
         outcome' \in {"running", "failed", "fatal", "killed"} \/ outcome' = outcome
  PROVE  PlanInv'
<1>1. Left' = Left /\ Past' = Past /\ session' = session /\ todo' = todo
  BY RestIs DEF Resting
<1>2. \A x \in Past' : \A y \in Left' : RankOf(x)' < RankOf(y)'
  BY <1>1 DEF PlanInv, RankOf
<1> QED BY <1>1, <1>2 DEF PlanInv

(* The end of a process leaves main where it was. *)
LEMMA EndedRests == ASSUME Ended
                    PROVE  Resting /\ outcome' \in {"failed", "fatal", "killed"}
BY DEF Ended, Exit, Resting

(* So does a step of the executor. *)
LEMMA WorkedRests == ASSUME Worked
                     PROVE  Resting /\ outcome = "running" /\ outcome' = outcome
BY DEF Worked, Executor, Finish, Running, process, Resting

(* The plan is an invariant. *)
LEMMA PlanNext ==
  ASSUME PlanInv, [Next]_vars
  PROVE  PlanInv'
<1>1. CASE UNCHANGED vars
  <2>1. Resting /\ outcome' = outcome
    BY <1>1 DEF vars, process, Resting
  <2> QED BY <2>1, PlanRests
<1>2. CASE Next
  <2>1. ASSUME NEW step, Moved(step) PROVE PlanInv'
    <3>1. At(step) /\ Go
      BY <2>1 DEF Moved, MovedMain, Do
    <3> QED BY <3>1, GoIs
  <2>2. CASE Ended
    BY <2>2, EndedRests, PlanRests
  <2>3. CASE Worked
    BY <2>3, WorkedRests, PlanRests
  <2>4. CASE NextSession
    BY <2>4, PlanNextSession
  <2> QED BY <1>2, <2>1, <2>2, <2>3, <2>4, NextCases
<1> QED BY <1>1, <1>2

(* What is initialised, stored and registered is what the past steps *)
(* did.                                                              *)
LEMMA DoneNext ==
  ASSUME PlanInv, DoneInv, [Next]_vars
  PROVE  DoneInv'
<1>1. ASSUME NEW step, Moved(step) PROVE DoneInv'
  <2>1. At(step) /\ Go
    BY <1>1 DEF Moved, MovedMain, Do
  <2>2. Past' = Past \cup {step} /\ session' = session
    BY <2>1, GoIs DEF Go
  <2>3. \A x : BuilderOf(x)' = BuilderOf(x) /\ EdgeOf(x)' = EdgeOf(x)
    BY <2>2 DEF BuilderOf, EdgeOf, DepOf
  <2>4. up' = UNION {Provides(x) : x \in Past'}
    BY <1>1, <2>2 DEF Moved, MovedMain, DoneInv
  <2>5. storage' = UNION {Stores(x) : x \in Past'}
    BY <1>1, <2>2 DEF Moved, MovedMain, DoneInv
  <2>6. build' = UNION {BuilderOf(x) : x \in Past'}
    BY <1>1, <2>2 DEF Moved, MovedGraph, DoneInv
  <2>7. edges' = UNION {EdgeOf(x) : x \in Past'}
    BY <1>1, <2>2 DEF Moved, MovedGraph, DoneInv
  <2>8. tests' = {} /\ testing' = {}
    BY <1>1 DEF Moved, MovedGraph, DoneInv
  <2> QED BY <2>3, <2>4, <2>5, <2>6, <2>7, <2>8 DEF DoneInv
<1>2. ASSUME Resting, UNCHANGED <<up, storage, build, edges, tests>>,
             testing' \in {testing, tests}
      PROVE  DoneInv'
  <2>1. Past' = Past /\ session' = session
    BY <1>2, RestIs DEF Resting
  <2>2. \A x : BuilderOf(x)' = BuilderOf(x) /\ EdgeOf(x)' = EdgeOf(x)
    BY <2>1 DEF BuilderOf, EdgeOf, DepOf
  <2> QED BY <1>2, <2>1, <2>2 DEF DoneInv
<1>3. CASE UNCHANGED vars
  BY <1>2, <1>3 DEF vars, process, registered, Resting
<1>4. CASE Ended
  <2>1. UNCHANGED <<up, storage, build, edges, tests, testing>>
    BY <1>4 DEF Ended, Exit
  <2> QED BY <1>2, <1>4, <2>1, EndedRests
<1>5. CASE Worked
  <2>1. UNCHANGED <<up, storage, build, edges, tests>> /\ testing' \in {testing, tests}
    BY <1>5 DEF Worked, Executor, Finish, process, R!Start, R!FinishSkipped,
      R!FinishFails, R!RunBuildSucceeds, R!PostBuild, R!RunTestEnds, R!Finish, R!script
  <2> QED BY <1>2, <1>5, <2>1, WorkedRests
<1>6. CASE NextSession
  <2>1. Past' = {}
    BY <1>6, PlanNextSession
  <2> QED BY <1>6, <2>1 DEF NextSession, NothingRuns, DoneInv
<1> QED BY <1>1, <1>3, <1>4, <1>5, <1>6, NextCases

(* Nothing is done at first. *)
LEMMA DoneInit ==
  ASSUME Init
  PROVE  DoneInv
<1>1. Past = {}
  BY PlanInit
<1> QED BY <1>1 DEF Init, R!Init, DoneInv

(* Which steps come before which. *)
LEMMA Before ==
  ASSUME PlanInv, NEW step, At(step), NEW x \in MainSteps(session),
         RankOf(x) < RankOf(step)
  PROVE  x \in Past
BY AtIs

(* The target that has the name of a library is never registered: the *)
(* library is.                                                        *)
LEMMA NameNext ==
  ASSUME PlanInv, DoneInv, NameInv, [Next]_vars
  PROVE  NameInv'
<1>1. ASSUME NEW step, Moved(step), SameName', "BuildUser" \in Past'
      PROVE FALSE
  <2>1. At(step) /\ Go /\ Asserted(step)
    BY <1>1 DEF Moved, MovedMain, Do
  <2>2. Past' = Past \cup {step} /\ session' = session
    BY <2>1, GoIs DEF Go
  <2>3. SameName
    BY <1>1, <2>2 DEF SameName
  <2>4. step = "BuildUser"
    BY <1>1, <2>2, <2>3 DEF NameInv
  <2>5. {"BuildTpl", "BuildBuildcc"} \subseteq MainSteps(session)
    BY <2>3 DEF SameName, MainSteps, PackageSteps
  <2>6. /\ RankOf("BuildTpl") < RankOf("BuildUser")
        /\ RankOf("BuildBuildcc") < RankOf("BuildUser")
    BY <2>3, ExeRanks DEF SameName, RankOf, Rank
  <2>7. "BuildTpl" \in Past /\ "BuildBuildcc" \in Past
    BY <2>1, <2>4, <2>5, <2>6, Before
  <2>8. BuilderOf("BuildTpl") = {"libtpl"} /\ BuilderOf("BuildBuildcc") = {"libbuildcc"}
    BY DEF BuilderOf
  <2>9. {"libtpl", "libbuildcc"} \subseteq build
    BY <2>7, <2>8 DEF DoneInv
  <2>10. BuilderOf("BuildUser") = {session.name}
    BY DEF BuilderOf
  <2> QED BY <2>1, <2>3, <2>4, <2>9, <2>10 DEF Asserted, SameName
<1>2. ASSUME Resting PROVE NameInv'
  <2>1. Past' = Past /\ session' = session
    BY <1>2, RestIs DEF Resting
  <2> QED BY <2>1 DEF NameInv, SameName
<1>3. CASE UNCHANGED vars
  BY <1>2, <1>3 DEF vars, process, Resting
<1>4. CASE NextSession
  BY <1>4, PlanNextSession DEF NameInv
<1>5. CASE \E step : Moved(step)
  BY <1>1, <1>5 DEF NameInv
<1> QED BY <1>2, <1>3, <1>4, <1>5, NextCases, EndedRests, WorkedRests

(* Nothing is registered at first. *)
LEMMA NameInit ==
  ASSUME Init
  PROVE  NameInv
BY PlanInit DEF NameInv

(* Main takes Run, and what follows it comes after it. *)
LEMMA RunIs ==
  /\ "Run" \in MainSteps(session)
  /\ \A x \in {"RunUserTarget", "Generate", "SaveGraph"} :
       x \in MainSteps(session) => RankOf("Run") < RankOf(x)
<1>1. "Run" \in MainSteps(session)
  BY DEF MainSteps
<1>2. CASE session.mode = "bootstrap"
  <2>1. "RunUserTarget" \notin MainSteps(session)
    BY <1>2 DEF MainSteps, StartSteps, PackageSteps
  <2>2. RankOf("Run") = 16 /\ RankOf("Generate") = 17 /\ RankOf("SaveGraph") = 18
    BY <1>2, BootRanks DEF RankOf, Rank
  <2> QED BY <1>1, <2>1, <2>2
<1>3. CASE session.mode # "bootstrap"
  <2>1. "SaveGraph" \notin MainSteps(session)
    BY <1>3 DEF MainSteps, StartSteps, PackageSteps
  <2>2. RankOf("Run") = 21 /\ RankOf("Generate") = 23 /\ RankOf("RunUserTarget") = 22
    BY <1>3, ExeRanks DEF RankOf, Rank
  <2> QED BY <1>1, <2>1, <2>2
<1> QED BY <1>2, <1>3

(* The executor runs after Run, and main goes on when it is through. *)
LEMMA PhaseNext ==
  ASSUME PlanInv, PhaseInv, [Next]_vars
  PROVE  PhaseInv'
<1> DEFINE Late == {"RunUserTarget", "Generate", "SaveGraph"}
<1>1. ASSUME NEW step, Moved(step)
      PROVE  PhaseInv'
  <2>1. At(step) /\ Go
    BY <1>1 DEF Moved, MovedMain, Do
  <2>2. Past' = Past \cup {step} /\ session' = session
    BY <2>1, GoIs DEF Go
  <2>3. phase \in {"script", "ok"}
    BY <2>1 DEF At
  <2>4. CASE step = "Run"
    <3>1. phase = "script" /\ phase' = "build"
      BY <1>1, <2>4 DEF Moved, MovedGraph
    <3>2. Past' \cap Late = {}
      BY <2>2, <2>4, <3>1 DEF PhaseInv
    <3> QED BY <2>2, <2>4, <3>1, <3>2 DEF PhaseInv
  <2>5. CASE step # "Run"
    <3>1. phase' = phase
      BY <1>1, <2>5 DEF Moved, MovedGraph
    <3>2. "Run" \in Past' <=> "Run" \in Past
      BY <2>2, <2>5
    <3>3. ASSUME step \in Late PROVE phase = "ok"
      <4>1. step \in MainSteps(session)
        BY <2>1, AtIs
      <4>2. "Run" \in Past
        BY <2>1, <3>3, <4>1, RunIs, AtIs
      <4> QED BY <2>3, <4>2 DEF PhaseInv
    <3>4. Past' \cap Late # {} => phase' = "ok"
      BY <2>2, <3>1, <3>3 DEF PhaseInv
    <3>5. phase' # "failed"
      BY <2>3, <3>1
    <3>6. phase' = "script" <=> "Run" \notin Past'
      BY <3>1, <3>2 DEF PhaseInv
    <3> HIDE DEF Late
    <3> QED BY <2>3, <3>1, <3>4, <3>5, <3>6 DEF PhaseInv, Late
  <2> QED BY <2>4, <2>5
<1>2. ASSUME Resting, phase' = phase,
             outcome' = outcome \/ (phase # "failed" /\ phase' = phase)
      PROVE  PhaseInv'
  <2>1. Past' = Past
    BY <1>2, RestIs
  <2> QED BY <1>2, <2>1 DEF PhaseInv
<1>3. CASE UNCHANGED vars
  BY <1>2, <1>3 DEF vars, process, registered, Resting
<1>4. CASE Ended
  <2>1. outcome = "running" /\ Resting
    BY <1>4, EndedRests DEF Ended
  <2>2. phase # "failed"
    BY <2>1 DEF PhaseInv
  <2>3. CASE phase' = phase
    BY <1>2, <2>1, <2>2, <2>3
  <2>4. CASE phase = "build" /\ phase' = "failed" /\ outcome' = "failed"
    <3>1. Past' = Past
      BY <2>1, RestIs
    <3> QED BY <2>4, <3>1 DEF PhaseInv
  <2> QED BY <1>4, <2>3, <2>4 DEF Ended
<1>5. CASE Worked
  <2>1. \/ phase' = phase
        \/ phase = "build" /\ phase' = "post"
        \/ phase = "post" /\ phase' = "test"
        \/ phase = "test" /\ phase' = "ok"
    BY <1>5 DEF Worked, Executor, Finish, R!Start, R!FinishSkipped,
      R!FinishFails, R!RunBuildSucceeds, R!PostBuild, R!RunTestEnds, R!Finish
  <2>2. Resting /\ outcome' = outcome
    BY <1>5, WorkedRests
  <2>3. Past' = Past
    BY <2>2, RestIs
  <2>4. CASE phase' = phase
    BY <1>2, <2>2, <2>4
  <2> QED BY <2>1, <2>3, <2>4 DEF PhaseInv
<1>6. CASE NextSession
  <2>1. Past' = {} /\ phase' = "script"
    BY <1>6, PlanNextSession DEF NextSession, NothingRuns
  <2> QED BY <2>1 DEF PhaseInv
<1> QED BY <1>1, <1>3, <1>4, <1>5, <1>6, NextCases

(* No Run yet. *)
LEMMA PhaseInit ==
  ASSUME Init
  PROVE  PhaseInv
<1>1. Past = {} /\ phase = "script"
  BY PlanInit DEF Init, R!Init
<1> QED BY <1>1 DEF PhaseInv

-----------------------------------------------------------------------------
(* What a step asserts. *)

(* What is done before a step is there when main is at it. *)
LEMMA Provided ==
  ASSUME PlanInv, DoneInv, NEW step, At(step), NEW x \in MainSteps(session),
         RankOf(x) < RankOf(step)
  PROVE  x \in Past /\ Provides(x) \subseteq up /\ Stores(x) \subseteq storage
         /\ BuilderOf(x) \subseteq build
<1>1. x \in Past
  BY Before
<1> QED BY <1>1 DEF DoneInv

(* The steps that ask for the register or the project. *)
Registering == {"Clean", "BuildTpl", "BuildBuildcc", "BuildUser", "DepBuildcc", "DepUser",
                "Run", "NewPackage", "NewUser", "BuildVerifier"}

(* What initialises comes first. *)
LEMMA FirstRanks ==
  /\ RankOf("Args::Init") = 1 /\ RankOf("Parse") = 2 /\ RankOf("Reg::Init") = 3
  /\ \A x \in Registering : 3 < RankOf(x)
<1>1. CASE session.mode = "bootstrap"
  BY <1>1, BootRanks DEF RankOf, Rank, Registering, BootRank
<1>2. CASE session.mode # "bootstrap"
  BY <1>2, ExeRanks DEF RankOf, Rank, Registering, ExeRank
<1> QED BY <1>1, <1>2

(* What a step needs is initialised. *)
LEMMA NeedsAreMet ==
  ASSUME PlanInv, DoneInv, NEW step, At(step)
  PROVE  Needs(step) \subseteq up
<1>1. {"Args::Init", "Parse", "Reg::Init"} \subseteq MainSteps(session)
  BY DEF MainSteps, StartSteps
<1>2. /\ Provides("BuildccHome::Init") = {"BuildccHome"}
      /\ Provides("Args::Init") = {"Args"} /\ Provides("Parse") = {"Parsed"}
      /\ Provides("Reg::Init") = {"Reg", "Project"}
  BY DEF Provides
<1>3. CASE step = "Args::Init" /\ session.mode # "bootstrap"
  <2>1. "BuildccHome::Init" \in MainSteps(session)
    BY <1>3 DEF MainSteps
  <2>2. RankOf("BuildccHome::Init") < RankOf(step)
    BY <1>3, ExeRanks DEF RankOf, Rank
  <2>3. Provides("BuildccHome::Init") \subseteq up
    BY <2>1, <2>2, Provided
  <2> QED BY <1>2, <1>3, <2>3 DEF Needs
<1>4. CASE step = "Parse"
  <2>1. RankOf("Args::Init") < RankOf(step)
    BY <1>4, FirstRanks
  <2>2. Provides("Args::Init") \subseteq up
    BY <1>1, <2>1, Provided
  <2> QED BY <1>2, <1>4, <2>2 DEF Needs
<1>5. CASE step = "Reg::Init"
  <2>1. RankOf("Parse") < RankOf(step)
    BY <1>5, FirstRanks
  <2>2. Provides("Parse") \subseteq up
    BY <1>1, <2>1, Provided
  <2> QED BY <1>2, <1>5, <2>2 DEF Needs
<1>6. CASE step \in Registering
  <2>1. RankOf("Reg::Init") < RankOf(step)
    BY <1>6, FirstRanks
  <2>2. Provides("Reg::Init") \subseteq up
    BY <1>1, <2>1, Provided
  <2>3. Needs(step) \subseteq {"Reg", "Project"}
    BY <1>6 DEF Needs, Registering
  <2> QED BY <1>2, <2>2, <2>3
<1>7. CASE step \notin {"Parse", "Reg::Init"} \cup Registering
           /\ ~(step = "Args::Init" /\ session.mode # "bootstrap")
  BY <1>7 DEF Needs, Registering
<1> QED BY <1>3, <1>4, <1>5, <1>6, <1>7

(* What a step takes out of a storage was put there. *)
LEMMA RefsAreStored ==
  ASSUME PlanInv, DoneInv, NEW step, At(step)
  PROVE  Refs(step) \subseteq storage
<1>1. IsSession(session) /\ step \in MainSteps(session)
  BY SessionIs, AtIs DEF PlanInv
<1>2. session.mode \in {"immediate", "script", "bootstrap"}
  BY <1>1 DEF IsSession
<1>3. Stores("NewPackage") = PackageStorage \cup {<<"BuildccPackage", "BuildBuildCC">>}
  BY DEF Stores
<1>4. Stores("NewUser") = {<<"UserTarget", "Target_generic">>}
  BY DEF Stores
<1>5. CASE step \in PackageSteps
  <2>1. session.mode # "immediate" /\ "NewPackage" \in MainSteps(session)
    BY <1>1, <1>2, <1>5 DEF MainSteps, PackageSteps, StartSteps
  <2>2. RankOf("NewPackage") < RankOf(step)
    <3>1. CASE session.mode = "bootstrap"
      BY <1>5, <3>1, BootRanks DEF RankOf, Rank, PackageSteps
    <3>2. CASE session.mode # "bootstrap"
      BY <1>5, <3>2, ExeRanks DEF RankOf, Rank, PackageSteps
    <3> QED BY <3>1, <3>2
  <2>3. PackageStorage \subseteq storage
    BY <1>3, <2>1, <2>2, Provided
  <2>4. Refs(step) \subseteq PackageStorage
    BY <1>5 DEF Refs, PackageSteps, PackageStorage
  <2> QED BY <2>3, <2>4
<1>6. CASE step = "UserInsert" /\ session.mode = "script"
  <2>1. "NewPackage" \in MainSteps(session) /\ "NewUser" \in MainSteps(session)
    BY <1>6 DEF MainSteps
  <2>2. RankOf("NewPackage") < RankOf(step) /\ RankOf("NewUser") < RankOf(step)
    BY <1>6, ExeRanks DEF RankOf, Rank
  <2>3. Stores("NewPackage") \subseteq storage
    BY <2>1, <2>2, Provided
  <2>4. Stores("NewUser") \subseteq storage
    BY <2>1, <2>2, Provided
  <2>5. <<"libbuildcc", "StaticTarget_generic">> \in PackageStorage
    BY DEF PackageStorage
  <2> QED BY <1>3, <1>4, <1>6, <2>3, <2>4, <2>5 DEF Refs
<1>7. CASE step \in {"UserInputs", "UserLibs", "RunUserTarget"}
  <2>1. session.mode # "bootstrap"
    BY <1>1, <1>7 DEF MainSteps, StartSteps, PackageSteps
  <2>2. "NewUser" \in MainSteps(session)
    BY DEF MainSteps
  <2>3. RankOf("NewUser") < RankOf(step)
    BY <1>7, <2>1, ExeRanks DEF RankOf, Rank
  <2>4. Stores("NewUser") \subseteq storage
    BY <2>2, <2>3, Provided
  <2> QED BY <1>4, <1>7, <2>4 DEF Refs
<1>8. CASE step \notin PackageSteps \cup {"UserInputs", "UserLibs", "RunUserTarget"}
           /\ ~(step = "UserInsert" /\ session.mode = "script")
  BY <1>8 DEF Refs, PackageSteps
<1> QED BY <1>5, <1>6, <1>7, <1>8

(* A target of another name than those of the package. *)
LEMMA OwnName ==
  ASSUME PlanInv, ~SameName
  PROVE  session.name \in {"script", "program", "hybrid"}
<1>1. IsSession(session)
  BY SessionIs DEF PlanInv
<1> QED BY <1>1 DEF IsSession, UserNames, SameName

(* What each step registers. *)
LEMMA BuildersAre ==
  /\ BuilderOf("BuildTpl") = {"libtpl"} /\ BuilderOf("BuildBuildcc") = {"libbuildcc"}
  /\ BuilderOf("BuildUser") = {session.name}
  /\ EdgeOf("DepBuildcc") = {<<"libtpl", "libbuildcc">>}
  /\ EdgeOf("DepUser") = {<<"libbuildcc", session.name>>}
BY DEF BuilderOf, EdgeOf, DepOf

(* No builder is registered twice. *)
LEMMA BuilderIsNew ==
  ASSUME PlanInv, DoneInv, NEW step, At(step), ~SameName
  PROVE  BuilderOf(step) \cap build = {}
<1> SUFFICES ASSUME NEW b \in BuilderOf(step), NEW x \in Past, b \in BuilderOf(x)
             PROVE  FALSE
  BY DEF DoneInv
<1>1. x # step
  BY AtIs
<1>2. {x, step} \subseteq {"BuildTpl", "BuildBuildcc", "BuildUser"}
  BY BuildsNothing
<1>3. session.name \in {"script", "program", "hybrid"}
  BY OwnName
<1> QED BY <1>1, <1>2, <1>3, BuildersAre

(* The part of the main functions that registers. *)
LEMMA RegisterRanks ==
  /\ RankOf("BuildTpl") < RankOf("BuildBuildcc")
  /\ RankOf("BuildBuildcc") < RankOf("DepBuildcc")
  /\ RankOf("BuildTpl") < RankOf("DepBuildcc")
  /\ RankOf("DepBuildcc") < RankOf("BuildUser")
  /\ RankOf("BuildUser") < RankOf("DepUser")
  /\ RankOf("BuildBuildcc") < RankOf("DepUser")
  /\ RankOf("DepBuildcc") < RankOf("DepUser")
  /\ RankOf("DepUser") < RankOf("Run")
  /\ RankOf("BuildUser") < RankOf("Run")
  /\ RankOf("DepBuildcc") < RankOf("Run")
  /\ RankOf("BuildTpl") < RankOf("Run")
  /\ RankOf("BuildBuildcc") < RankOf("Run")
<1>1. CASE session.mode = "bootstrap"
  BY <1>1, BootRanks DEF RankOf, Rank
<1>2. CASE session.mode # "bootstrap"
  BY <1>2, ExeRanks DEF RankOf, Rank
<1> QED BY <1>1, <1>2

(* Nothing is reached without an edge. *)
LEMMA ReachesNothing ==
  ASSUME NEW b, NEW E, \A e \in E : e[1] # b
  PROVE  R!Reached(b, E) = {}
<1> SUFFICES ASSUME NEW v \in R!Reached(b, E) PROVE FALSE
  OBVIOUS
<1>1. R!Closed({}, E) \/ ~R!Closed({}, E)
  OBVIOUS
<1>2. R!Closed({}, E)
  BY DEF R!Closed
<1>3. {} \in SUBSET Builders
  OBVIOUS
<1> QED BY <1>2, <1>3 DEF R!Reached

(* The dependencies, by the steps that registered them. *)
LEMMA EdgesAre ==
  ASSUME PlanInv, DoneInv, NEW e \in edges
  PROVE  \/ "DepBuildcc" \in Past /\ e = <<"libtpl", "libbuildcc">>
         \/ "DepUser" \in Past /\ e = <<"libbuildcc", session.name>>
<1>1. PICK x \in Past : e \in EdgeOf(x)
  BY DEF DoneInv
<1>2. x \in {"DepBuildcc", "DepUser"}
  BY <1>1, DependsNot
<1> QED BY <1>1, <1>2, BuildersAre

(* A dependency is between registered builders, new, and makes no cycle. *)
LEMMA DependencyIsNew ==
  ASSUME PlanInv, DoneInv, NEW step, At(step), ~SameName, NEW d \in DepOf(step)
  PROVE  /\ {d[1], d[2]} \subseteq build
         /\ ~R!Duplicate(d[1], d[2]) /\ ~R!Cyclic(d[1], d[2])
<1>1. IsSession(session) /\ step \in MainSteps(session) /\ step \notin Past
  BY SessionIs, AtIs DEF PlanInv
<1>2. session.mode \in {"immediate", "script", "bootstrap"}
  BY <1>1 DEF IsSession
<1>3. step \in {"DepBuildcc", "DepUser"}
  BY DependsNot
<1>4. session.mode # "immediate"
      /\ {"BuildTpl", "BuildBuildcc", "DepBuildcc", "BuildUser", "DepUser"}
           \subseteq MainSteps(session)
  BY <1>1, <1>2, <1>3 DEF MainSteps, PackageSteps, StartSteps
<1>5. session.name \in {"script", "program", "hybrid"}
  BY OwnName
<1>6. CASE step = "DepBuildcc"
  <2>1. d[1] = "libbuildcc" /\ d[2] = "libtpl"
    BY <1>6 DEF DepOf
  <2>2. BuilderOf("BuildTpl") \subseteq build
    BY <1>4, <1>6, RegisterRanks, Provided
  <2>3. BuilderOf("BuildBuildcc") \subseteq build
    BY <1>4, <1>6, RegisterRanks, Provided
  <2>4. "DepUser" \notin Past
    BY <1>4, <1>6, RegisterRanks, AtIs, LessAsymmetric DEF RankOf
  <2>5. edges = {}
    BY <1>1, <1>6, <2>4, EdgesAre
  <2>6. R!Reached(d[1], edges) = {}
    BY <2>5, ReachesNothing
  <2> QED BY <2>1, <2>2, <2>3, <2>5, <2>6, BuildersAre DEF R!Duplicate, R!Cyclic
<1>7. CASE step = "DepUser"
  <2>1. d[1] = session.name /\ d[2] = "libbuildcc"
    BY <1>7 DEF DepOf
  <2>2. BuilderOf("BuildUser") \subseteq build
    BY <1>4, <1>7, RegisterRanks, Provided
  <2>3. BuilderOf("BuildBuildcc") \subseteq build
    BY <1>4, <1>7, RegisterRanks, Provided
  <2>4. \A e \in edges : e = <<"libtpl", "libbuildcc">>
    BY <1>1, <1>7, EdgesAre
  <2>5. \A e \in edges : e[1] # d[1] /\ e[1] # "libbuildcc"
    BY <1>5, <2>1, <2>4
  <2>6. R!Reached(d[1], edges) = {}
    BY <2>5, ReachesNothing
  <2> QED BY <2>1, <2>2, <2>3, <2>5, <2>6, BuildersAre DEF R!Duplicate, R!Cyclic
<1> QED BY <1>3, <1>6, <1>7

(* A step of a program that has a target of its own name asserts nothing *)
(* false.                                                                *)
LEMMA AssertedIs ==
  ASSUME PlanInv, DoneInv, NEW step, At(step), ~SameName
  PROVE  Asserted(step)
<1>1. Needs(step) \subseteq up /\ Refs(step) \subseteq storage
      /\ BuilderOf(step) \cap build = {}
  BY NeedsAreMet, RefsAreStored, BuilderIsNew
<1>2. \A d \in DepOf(step) :
         {d[1], d[2]} \subseteq build
         /\ ~R!Duplicate(d[1], d[2]) /\ ~R!Cyclic(d[1], d[2])
  BY DependencyIsNew
<1> QED BY <1>1, <1>2 DEF Asserted

(* The invariant of main. *)
MainInv == PlanInv /\ DoneInv /\ NameInv /\ PhaseInv /\ OrderIsRight

(* No step is taken at first. *)
LEMMA MainInit == Init => MainInv
<1> SUFFICES ASSUME Init PROVE MainInv
  OBVIOUS
<1>1. OrderIsRight
  BY DEF Init, OrderIsRight
<1> QED BY <1>1, PlanInit, DoneInit, NameInit, PhaseInit DEF MainInv

(* A process ends on an assertion only under the name of a library. *)
LEMMA OrderNext ==
  ASSUME PlanInv, DoneInv, OrderIsRight, [Next]_vars
  PROVE  OrderIsRight'
<1>1. CASE UNCHANGED vars
  BY <1>1 DEF vars, process, OrderIsRight
<1>2. CASE \E step : Moved(step)
  <2>1. outcome' # "fatal"
    BY <1>2 DEF Moved, MovedMain, Go
  <2> QED BY <2>1 DEF OrderIsRight
<1>3. CASE Ended
  <2>1. session' = session
    BY <1>3 DEF Ended, Exit
  <2>2. outcome' = "fatal" => SameName
    BY <1>3, AssertedIs DEF Ended
  <2> QED BY <2>1, <2>2 DEF OrderIsRight, SameName
<1>4. CASE Worked
  BY <1>4, WorkedRests DEF OrderIsRight
<1>5. CASE NextSession
  BY <1>5 DEF NextSession, OrderIsRight
<1> QED BY <1>1, <1>2, <1>3, <1>4, <1>5, NextCases

(* One step per part. *)
LEMMA MainNext == MainInv /\ [Next]_vars => MainInv'
BY PlanNext, DoneNext, NameNext, PhaseNext, OrderNext DEF MainInv

(* The invariant of main, of every behaviour. *)
LEMMA MainHolds == Spec => []MainInv
BY MainInit, MainNext, PTL DEF Spec

(* No program meets an assertion about the order of its own calls, *)
(* unless its target has the name of a library of the package.     *)
THEOREM AssertionsHold == Spec => []OrderIsRight
<1>1. MainInv => OrderIsRight
  BY DEF MainInv
<1> QED BY MainHolds, <1>1, PTL

-----------------------------------------------------------------------------
(* The graph, and the tasks. *)

(* What comes before a step of the past is of the past. *)
LEMMA PastClosed ==
  ASSUME PlanInv, NEW y \in Past, NEW x \in MainSteps(session), RankOf(x) < RankOf(y)
  PROVE  x \in Past
<1> SUFFICES ASSUME x \in Left PROVE FALSE
  BY DEF Past
<1>1. RankOf(y) < RankOf(x)
  BY DEF PlanInv
<1> QED BY <1>1, LessAsymmetric DEF RankOf

(* What can be registered. *)
LEMMA BuildIn ==
  ASSUME PlanInv, DoneInv
  PROVE  build \subseteq Builders /\ session.name \in Builders
         /\ build \subseteq {"libtpl", "libbuildcc", session.name}
<1>1. IsSession(session)
  BY SessionIs DEF PlanInv
<1>2. session.name \in Builders
  BY <1>1 DEF IsSession, UserNames, Builders
<1>3. \A x : BuilderOf(x) \subseteq {"libtpl", "libbuildcc", session.name}
  BY DEF BuilderOf
<1> QED BY <1>2, <1>3 DEF DoneInv, Builders

(* The graph the executor is given. *)
Graph ==
  /\ build \subseteq {"libtpl", "libbuildcc", session.name}
  /\ "libtpl" # session.name /\ "libbuildcc" # session.name
  /\ \A e \in edges : e = <<"libtpl", "libbuildcc">>
                        \/ e = <<"libbuildcc", session.name>>
  /\ edges \subseteq build \X build
  /\ \A b \in build : \A d \in R!Used(b) \cap build :
       \/ <<d, b>> \in edges
       \/ d = "libtpl" /\ b = session.name /\ <<"libbuildcc", b>> \in edges
          /\ <<d, "libbuildcc">> \in edges

(* A target that is registered has a name of its own. *)
LEMMA DistinctIs ==
  ASSUME PlanInv, NameInv, "BuildUser" \in Past
  PROVE  session.name \in {"script", "program", "hybrid"}
BY OwnName DEF NameInv

(* When Run is reached the package is registered as a whole or not at *)
(* all.                                                               *)
LEMMA LibrariesIs ==
  ASSUME PlanInv, "Run" \in Past,
         {"BuildTpl", "BuildBuildcc", "DepBuildcc", "DepUser"} \cap Past # {}
  PROVE  {"BuildTpl", "BuildBuildcc", "DepBuildcc", "BuildUser", "DepUser"}
           \subseteq Past
<1>1. IsSession(session)
  BY SessionIs DEF PlanInv
<1>2. session.mode \in {"immediate", "script", "bootstrap"}
  BY <1>1 DEF IsSession
<1>3. {"BuildTpl", "BuildBuildcc", "DepBuildcc", "BuildUser", "DepUser"}
        \subseteq MainSteps(session)
  BY <1>2 DEF MainSteps, PackageSteps, StartSteps, Past
<1> QED BY <1>3, PastClosed, RegisterRanks

(* Dependencies are between what is registered. *)
LEMMA EdgesIn ==
  ASSUME PlanInv, DoneInv
  PROVE  edges \subseteq build \X build
<1> SUFFICES ASSUME NEW e \in edges PROVE e \in build \X build
  OBVIOUS
<1>1. IsSession(session)
  BY SessionIs DEF PlanInv
<1>2. session.mode \in {"immediate", "script", "bootstrap"}
  BY <1>1 DEF IsSession
<1>3. CASE "DepBuildcc" \in Past /\ e = <<"libtpl", "libbuildcc">>
  <2>1. {"BuildTpl", "BuildBuildcc"} \subseteq MainSteps(session)
    BY <1>2, <1>3 DEF MainSteps, PackageSteps, StartSteps, Past
  <2>2. {"BuildTpl", "BuildBuildcc"} \subseteq Past
    BY <1>3, <2>1, PastClosed, RegisterRanks
  <2>3. "libtpl" \in build /\ "libbuildcc" \in build
    BY <2>2, BuildersAre DEF DoneInv
  <2> QED BY <1>3, <2>3
<1>4. CASE "DepUser" \in Past /\ e = <<"libbuildcc", session.name>>
  <2>1. {"BuildUser", "BuildBuildcc"} \subseteq MainSteps(session)
    BY <1>2, <1>4 DEF MainSteps, PackageSteps, StartSteps, Past
  <2>2. {"BuildUser", "BuildBuildcc"} \subseteq Past
    BY <1>4, <2>1, PastClosed, RegisterRanks
  <2>3. session.name \in build /\ "libbuildcc" \in build
    BY <2>2, BuildersAre DEF DoneInv
  <2> QED BY <1>4, <2>3
<1> QED BY <1>3, <1>4, EdgesAre

(* When Run is reached the graph is the package below the target, or the *)
(* target alone.                                                         *)
LEMMA GraphIs ==
  ASSUME PlanInv, DoneInv, NameInv, "Run" \in Past, build # {}
  PROVE  Graph
<1>1. PICK x \in Past : x \in {"BuildTpl", "BuildBuildcc", "BuildUser"}
  BY BuildsNothing DEF DoneInv
<1>2. "BuildUser" \in Past
  BY <1>1, LibrariesIs
<1>3. session.name \in {"script", "program", "hybrid"}
  BY <1>2, DistinctIs
<1>4. build \subseteq {"libtpl", "libbuildcc", session.name}
  BY BuildIn
<1>5. \A e \in edges : e = <<"libtpl", "libbuildcc">>
                         \/ e = <<"libbuildcc", session.name>>
  BY EdgesAre
<1>6. ASSUME NEW b \in build, NEW d \in R!Used(b) \cap build
      PROVE  \/ <<d, b>> \in edges
             \/ d = "libtpl" /\ b = session.name /\ <<"libbuildcc", b>> \in edges
                /\ <<d, "libbuildcc">> \in edges
  <2>1. d \in {"libtpl", "libbuildcc"} /\ b # "libtpl"
        /\ (b = "libbuildcc" => d = "libtpl")
    BY <1>6 DEF R!Used, Uses
  <2>2. PICK y \in Past : d \in BuilderOf(y)
    BY <1>6 DEF DoneInv
  <2>3. y \in {"BuildTpl", "BuildBuildcc"}
    BY <1>3, <2>1, <2>2, BuildersAre, BuildsNothing
  <2>4. {"DepBuildcc", "DepUser"} \subseteq Past
    BY <2>3, LibrariesIs
  <2>5. <<"libtpl", "libbuildcc">> \in edges /\ <<"libbuildcc", session.name>> \in edges
    BY <2>4, BuildersAre DEF DoneInv
  <2> QED BY <1>4, <1>6, <2>1, <2>5
<1>7. \A b \in build : \A d \in R!Used(b) \cap build :
             \/ <<d, b>> \in edges
             \/ d = "libtpl" /\ b = session.name /\ <<"libbuildcc", b>> \in edges
                /\ <<d, "libbuildcc">> \in edges
  BY <1>6
<1>8. edges \subseteq build \X build
  BY EdgesIn
<1> QED BY <1>3, <1>4, <1>5, <1>7, <1>8 DEF Graph

(* When the executor has nothing left to run, everything is done. *)
LEMMA AllDoneIs ==
  ASSUME PlanInv, DoneInv, NameInv, "Run" \in Past, TaskInv, phase # "script", R!AllDone
  PROVE  \A b \in build : task[b] = "done"
<1> SUFFICES ASSUME build # {} PROVE \A b \in build : task[b] = "done"
  OBVIOUS
<1>1. Graph
  BY GraphIs
<1>2. \A b \in build : task[b] \in {"waiting", "done"} /\ ~R!CanStart(b)
  BY BuildIn DEF TaskInv, R!AllDone
<1>3. ASSUME NEW b \in build, \A e \in edges : e[2] = b => task[e[1]] = "done"
      PROVE  task[b] = "done"
  BY <1>2, <1>3 DEF R!CanStart
<1>4. "libtpl" \in build => task["libtpl"] = "done"
  BY <1>1, <1>3 DEF Graph
<1>5. "libbuildcc" \in build => task["libbuildcc"] = "done"
  <2> SUFFICES ASSUME "libbuildcc" \in build PROVE task["libbuildcc"] = "done"
    OBVIOUS
  <2>1. \A e \in edges : e[2] = "libbuildcc" => e[1] = "libtpl" /\ e[1] \in build
    BY <1>1 DEF Graph
  <2> QED BY <1>3, <1>4, <2>1
<1>6. session.name \in build => task[session.name] = "done"
  <2> SUFFICES ASSUME session.name \in build PROVE task[session.name] = "done"
    OBVIOUS
  <2>1. \A e \in edges : e[2] = session.name => e[1] = "libbuildcc" /\ e[1] \in build
    BY <1>1 DEF Graph
  <2> QED BY <1>3, <1>5, <2>1
<1> QED BY <1>1, <1>4, <1>5, <1>6 DEF Graph

(* After Reg::Run nothing is registered any more, nor edited. *)
LEMMA AfterRun ==
  ASSUME PlanInv, PhaseInv, NEW step, At(step), phase # "script"
  PROVE  BuilderOf(step) = {} /\ EdgeOf(step) = {}
         /\ step \notin {"Run", "Clean", "UserLibs"}
<1>1. "Run" \in Past
  BY DEF PhaseInv
<1>2. RankOf("Run") < RankOf(step)
  BY <1>1, AtIs, RunIs
<1>3. step \notin {"BuildTpl", "BuildBuildcc", "DepBuildcc", "BuildUser", "DepUser",
                   "Run"}
  BY <1>2, RegisterRanks, LessAsymmetric, LessIrreflexive DEF RankOf
<1>4. RankOf("Clean") < RankOf("Run")
  BY FirstRanks, BootRanks, ExeRanks DEF RankOf, Rank
<1>5. step = "UserLibs" => session.mode # "bootstrap"
  BY AtIs DEF MainSteps, StartSteps, PackageSteps
<1>6. session.mode # "bootstrap" => RankOf("UserLibs") < RankOf("Run")
  BY ExeRanks DEF RankOf, Rank
<1>7. step \notin {"Clean", "UserLibs"}
  BY <1>2, <1>4, <1>5, <1>6, LessAsymmetric DEF RankOf
<1> QED BY <1>3, <1>7, BuildsNothing, DependsNot

(* A save makes a new version. *)
LEMMA VersionsAre ==
  ASSUME ver \in [Builders -> 0..MaxSaved], NEW b \in Builders, Saved(b)
  PROVE  ver' \in [Builders -> 0..MaxSaved]
BY VersionsAssumption DEF Saved

(* A step of main: Run makes the tasks. *)
LEMMA TaskMoved ==
  ASSUME PlanInv, DoneInv, PhaseInv, TaskInv, NEW step, Moved(step)
  PROVE  TaskInv'
<1>1. At(step)
  BY DEF Moved, MovedMain, Do
<1>2. ver' \in [Builders -> 0..MaxSaved]
  <2>1. CASE step = "UserLibs"
    <3>1. Saved(session.name) \/ ver' = ver
      BY <2>1 DEF Moved, MovedDisk
    <3> QED BY <3>1, BuildIn, VersionsAre DEF TaskInv
  <2>2. CASE step # "UserLibs"
    BY <2>2 DEF Moved, MovedDisk, TaskInv
  <2> QED BY <2>1, <2>2
<1>3. DOMAIN out' = Builders
  BY DEF Moved, MovedDisk, Cleaned, TaskInv
<1>4. taskState' = taskState
  BY DEF Moved, MovedGraph
<1>5. CASE step = "Run"
  <2>1. phase = "script" /\ phase' = "build" /\ build' = build
        /\ task' = [b \in Builders |-> IF b \in build THEN "waiting" ELSE "none"]
    BY <1>5, BuildsNothing DEF Moved, MovedGraph
  <2>2. task' \in [Builders -> {"none", "waiting", "running", "done"}]
    BY <2>1
  <2>3. \A b \in Builders : task'[b] # "none" <=> phase' # "script" /\ b \in build'
    BY <2>1
  <2> QED BY <1>2, <1>3, <1>4, <2>1, <2>2, <2>3 DEF TaskInv
<1>6. CASE step # "Run"
  <2>1. phase' = phase /\ task' = task
    BY <1>6 DEF Moved, MovedGraph
  <2>2. phase # "script" => build' = build
    BY <1>1, AfterRun DEF Moved, MovedGraph
  <2>3. \A b \in Builders : task'[b] # "none" <=> phase' # "script" /\ b \in build'
    BY <2>1, <2>2 DEF TaskInv
  <2> QED BY <1>2, <1>3, <1>4, <2>1, <2>2, <2>3 DEF TaskInv
<1> QED BY <1>5, <1>6

(* The cases of the executor, by what they do. *)
Begins(b) ==
  /\ R!CanStart(b) /\ task' = [task EXCEPT ![b] = "running"]
  /\ UNCHANGED <<out, phase, taskState>>

(* A task that ends with its output fresh. *)
Made(b) ==
  /\ task[b] = "running" /\ taskState = "SUCCESS"
  /\ out' = [out EXCEPT ![b] = R!MadeNow(b)]
  /\ task' = [task EXCEPT ![b] = "done"]
  /\ UNCHANGED <<phase, taskState>>

(* A task that fails, with its old output or none. *)
GoesWrong(b) ==
  /\ task[b] = "running" /\ task' = [task EXCEPT ![b] = "done"]
  /\ taskState' = "FAILURE"
  /\ out' = out \/ \E left \in {out[b], {}} : out' = [out EXCEPT ![b] = left]
  /\ phase' = phase

(* The executor goes on to its next phase. *)
Passes ==
  /\ UNCHANGED <<task, taskState, out>>
  /\ \/ phase = "build" /\ phase' = "post" /\ R!AllDone /\ taskState = "SUCCESS"
     \/ phase = "post" /\ phase' = "test"
     \/ phase = "test" /\ phase' = "ok"

(* The steps of the executor. *)
LEMMA WorkedCases ==
  ASSUME Worked, DOMAIN out = Builders
  PROVE  /\ UNCHANGED <<ver, build, edges, tests>>
         /\ Passes \/ \E b \in Builders : Begins(b) \/ Made(b) \/ GoesWrong(b)
<1>1. CASE \E b \in Builders : R!Start(b)
  BY <1>1 DEF R!Start, R!script, Begins
<1>2. CASE \E b \in Builders : R!Finish(b)
  BY <1>2 DEF R!Finish, R!script, Made
<1>3. CASE \E b \in Builders : R!FinishFails(b)
  BY <1>3 DEF R!FinishFails, R!script, GoesWrong
<1>4. CASE \E b \in Builders : R!FinishSkipped(b)
  <2>1. PICK b \in Builders : R!FinishSkipped(b)
    BY <1>4
  <2>2. GoesWrong(b)
    BY <2>1 DEF R!FinishSkipped, GoesWrong
  <2> QED BY <2>1, <2>2 DEF R!FinishSkipped, R!script
<1>5. CASE R!RunBuildSucceeds \/ R!PostBuild \/ R!RunTestEnds
  BY <1>5 DEF R!RunBuildSucceeds, R!PostBuild, R!RunTestEnds, R!script, Passes
<1> QED BY <1>1, <1>2, <1>3, <1>4, <1>5 DEF Worked, Executor, Finish

(* The executor moves tasks on, and ends a phase when all of them are *)
(* done.                                                              *)
LEMMA TaskWorked ==
  ASSUME PlanInv, DoneInv, NameInv, PhaseInv, TaskInv, Worked
  PROVE  TaskInv'
<1>1. UNCHANGED <<ver, build, edges, tests>>
      /\ (Passes \/ \E b \in Builders : Begins(b) \/ Made(b) \/ GoesWrong(b))
  BY WorkedCases DEF TaskInv
<1>2. CASE Passes
  <2>1. phase = "build" /\ phase' = "post" => \A b \in build : task[b] = "done"
    BY <1>2, AllDoneIs DEF Passes, PhaseInv
  <2> QED BY <1>1, <1>2, <2>1 DEF Passes, TaskInv
<1>3. ASSUME NEW b \in Builders, Begins(b) \/ Made(b) \/ GoesWrong(b)
      PROVE  TaskInv'
  <2>1. task[b] \in {"waiting", "running"} /\ phase' = phase
        /\ \E v \in {"running", "done"} : task' = [task EXCEPT ![b] = v]
    BY <1>3 DEF Begins, Made, GoesWrong, R!CanStart
  <2>2. b \in build /\ phase # "script"
    BY <2>1 DEF TaskInv
  <2>3. phase \notin {"script", "post", "test", "ok"}
    BY <2>1, <2>2 DEF TaskInv
  <2>4. task' \in [Builders -> {"none", "waiting", "running", "done"}]
    BY <2>1 DEF TaskInv
  <2>5. \A c \in Builders : task'[c] # "none" <=> phase' # "script" /\ c \in build'
    BY <1>1, <2>1, <2>2 DEF TaskInv
  <2>6. DOMAIN out' = Builders
    BY <1>3 DEF Begins, Made, GoesWrong, TaskInv
  <2>7. taskState' \in {"SUCCESS", "FAILURE"}
    BY <1>3 DEF Begins, Made, GoesWrong, TaskInv
  <2> QED BY <1>1, <2>1, <2>3, <2>4, <2>5, <2>6, <2>7 DEF TaskInv
<1> QED BY <1>1, <1>2, <1>3

(* One step per part. *)
LEMMA TaskNext ==
  ASSUME PlanInv, DoneInv, NameInv, PhaseInv, TaskInv, [Next]_vars
  PROVE  TaskInv'
<1>1. CASE UNCHANGED vars
  BY <1>1 DEF vars, registered, TaskInv
<1>2. CASE \E step : Moved(step)
  BY <1>2, TaskMoved
<1>3. CASE Ended
  <2>1. UNCHANGED <<ver, build, task, taskState>>
    BY <1>3 DEF Ended
  <2>2. DOMAIN out' = Builders
    BY <1>3 DEF Ended, TaskInv
  <2>3. phase' = phase \/ (phase = "build" /\ phase' = "failed")
    BY <1>3 DEF Ended
  <2> QED BY <2>1, <2>2, <2>3 DEF TaskInv
<1>4. CASE Worked
  BY <1>4, TaskWorked
<1>5. CASE NextSession
  <2>1. out' = out /\ NothingRuns
    BY <1>5 DEF NextSession
  <2>2. ver' \in [Builders -> 0..MaxSaved]
    <3>1. CASE UNCHANGED ver
      BY <3>1 DEF TaskInv
    <3>2. CASE \E b \in Edited : Saved(b)
      BY <3>2, VersionsAre, VersionsAssumption DEF TaskInv
    <3> QED BY <1>5, <3>1, <3>2 DEF NextSession
  <2> QED BY <2>1, <2>2 DEF NothingRuns, TaskInv
<1> QED BY <1>1, <1>2, <1>3, <1>4, <1>5, NextCases

(* No tasks at first. *)
LEMMA TaskInit ==
  ASSUME Init
  PROVE  TaskInv
<1>1. ver = [b \in Builders |-> 0] /\ out = [b \in Builders |-> {}] /\ build = {}
      /\ phase = "script" /\ task = [b \in Builders |-> "none"] /\ taskState = "SUCCESS"
  BY DEF Init, R!Init
<1>2. 0 \in 0..MaxSaved
  BY VersionsAssumption
<1> QED BY <1>1, <1>2 DEF TaskInv

-----------------------------------------------------------------------------
(* What is read stands still. *)

(* No builder has a task. *)
NoTasks == \A b \in Builders : task[b] = "none"

(* While main still registers, the executor has nothing. *)
LEMMA NothingYet ==
  ASSUME TaskInv, phase = "script"
  PROVE  NoTasks
BY DEF TaskInv, NoTasks

(* The builder a running or a done one reads: by the graph. *)
LEMMA ReadsDone ==
  ASSUME PlanInv, DoneInv, NameInv, PhaseInv, TaskInv, ReadInv,
         NEW b \in Builders, R!CanStart(b), NEW d \in R!Used(b)
  PROVE  task[d] \in {"none", "done"}
<1>1. b \in build /\ phase # "script" /\ d \in Builders
  BY DEF TaskInv, R!CanStart, R!Used
<1>2. CASE d \notin build
  BY <1>1, <1>2 DEF TaskInv
<1>3. CASE d \in build
  <2>1. Graph
    BY <1>1, GraphIs DEF PhaseInv
  <2>2. CASE <<d, b>> \in edges
    BY <2>2 DEF R!CanStart
  <2>3. CASE d = "libtpl" /\ <<"libbuildcc", b>> \in edges
        /\ <<d, "libbuildcc">> \in edges
    <3>1. task["libbuildcc"] = "done" /\ "libbuildcc" \in Builders
      BY <2>3 DEF R!CanStart, Builders
    <3>2. task["libtpl"] = "done"
      BY <2>3, <3>1 DEF ReadInv
    <3> QED BY <2>3, <3>2
  <2> QED BY <1>1, <1>3, <2>1, <2>2, <2>3 DEF Graph
<1> QED BY <1>2, <1>3

(* A builder starts after what it depends on, and what it reads is one *)
(* of those.                                                           *)
LEMMA ReadNext ==
  ASSUME PlanInv, DoneInv, NameInv, PhaseInv, TaskInv, ReadInv, [Next]_vars
  PROVE  ReadInv'
<1>1. CASE UNCHANGED vars
  BY <1>1 DEF vars, registered, ReadInv, R!Used
<1>2. ASSUME NEW step, Moved(step) PROVE ReadInv'
  <2>1. At(step)
    BY <1>2 DEF Moved, MovedMain, Do
  <2>2. CASE phase = "script"
    <3>1. \A b \in Builders : task'[b] \in {"none", "waiting"}
      <4>1. CASE step = "Run"
        BY <1>2, <4>1 DEF Moved, MovedGraph
      <4>2. CASE step # "Run"
        BY <1>2, <2>2, <4>2, NothingYet DEF Moved, MovedGraph, NoTasks
      <4> QED BY <4>1, <4>2
    <3> QED BY <3>1 DEF ReadInv
  <2>3. CASE phase # "script"
    <3>1. edges' = edges /\ task' = task
      BY <1>2, <2>1, <2>3, AfterRun DEF Moved, MovedGraph
    <3> QED BY <3>1 DEF ReadInv, R!Used
  <2> QED BY <2>2, <2>3
<1>3. CASE Ended
  BY <1>3 DEF Ended, ReadInv, R!Used
<1>4. CASE Worked
  <2>1. edges' = edges
        /\ (Passes \/ \E b \in Builders : Begins(b) \/ Made(b) \/ GoesWrong(b))
    BY <1>4, WorkedCases DEF TaskInv
  <2>2. CASE Passes
    BY <2>1, <2>2 DEF Passes, ReadInv, R!Used
  <2>3. ASSUME NEW b \in Builders, Begins(b) PROVE ReadInv'
    <3>1. R!CanStart(b) /\ task' = [task EXCEPT ![b] = "running"] /\ task[b] = "waiting"
      BY <2>3 DEF Begins, R!CanStart
    <3>2. \A c \in Builders : task[c] \in {"none", "done"} => task'[c] = task[c]
      BY <3>1 DEF TaskInv
    <3>3. \A c \in Builders : \A e \in edges :
            e[2] = c /\ task'[c] \in {"running", "done"}
            => task[e[1]] = "done" /\ e[1] \in Builders
      <4>1. \A e \in edges : e[1] \in Builders
        BY EdgesIn, BuildIn
      <4> QED BY <3>1, <4>1 DEF TaskInv, ReadInv, R!CanStart
    <3>4. \A c \in Builders : task'[c] \in {"running", "done"} =>
            \A d \in R!Used(c) : task[d] \in {"none", "done"}
      BY <3>1, ReadsDone DEF TaskInv, ReadInv
    <3>5. \A c \in Builders : R!Used(c) \subseteq Builders
      BY DEF R!Used
    <3> QED BY <2>1, <3>2, <3>3, <3>4, <3>5 DEF ReadInv, R!Used
  <2>4. ASSUME NEW b \in Builders, Made(b) \/ GoesWrong(b) PROVE ReadInv'
    <3>1. task' = [task EXCEPT ![b] = "done"] /\ task[b] = "running"
      BY <2>4 DEF Made, GoesWrong
    <3>2. \A c \in Builders : task[c] \in {"none", "done"} => task'[c] = task[c]
      BY <3>1 DEF TaskInv
    <3>3. \A c \in Builders :
            task'[c] \in {"running", "done"} => task[c] \in {"running", "done"}
      BY <3>1 DEF TaskInv
    <3>4. \A e \in edges : e[1] \in Builders
      BY EdgesIn, BuildIn
    <3>5. \A c \in Builders : R!Used(c) \subseteq Builders
      BY DEF R!Used
    <3> QED BY <2>1, <3>2, <3>3, <3>4, <3>5 DEF ReadInv, R!Used
  <2> QED BY <2>1, <2>2, <2>3, <2>4
<1>5. CASE NextSession
  BY <1>5 DEF NextSession, NothingRuns, ReadInv
<1> QED BY <1>1, <1>2, <1>3, <1>4, <1>5, NextCases

(* No tasks at first. *)
LEMMA ReadInit ==
  ASSUME Init
  PROVE  ReadInv
BY DEF Init, R!Init, ReadInv

(* An output stays fresh while nothing it was made from changes. *)
LEMMA FreshStays ==
  ASSUME NEW b \in Builders, R!Fresh(b), ver'[b] = ver[b], out'[b] = out[b],
         \A d \in R!Used(b) : out'[d] = out[d]
  PROVE  R!Fresh(b)'
BY DEF R!Fresh, R!MadeNow, R!Used

(* What runs is read by nothing that is done. *)
LEMMA NotRead ==
  ASSUME ReadInv, NEW b \in Builders, task[b] = "done", NEW d \in R!Used(b)
  PROVE  task[d] # "running"
BY DEF ReadInv

(* What ends well is fresh, and what it reads is not made again. *)
LEMMA FreshNext ==
  ASSUME PlanInv, DoneInv, PhaseInv, TaskInv, ReadInv, FreshInv, [Next]_vars
  PROVE  FreshInv'
<1>1. CASE UNCHANGED vars
  BY <1>1 DEF vars, registered, FreshInv, R!Fresh, R!MadeNow, R!Used
<1>2. ASSUME NEW step, Moved(step) PROVE FreshInv'
  <2>1. At(step)
    BY <1>2 DEF Moved, MovedMain, Do
  <2>2. CASE phase = "script"
    <3>1. \A b \in Builders : task'[b] \in {"none", "waiting"}
      <4>1. CASE step = "Run"
        BY <1>2, <4>1 DEF Moved, MovedGraph
      <4>2. CASE step # "Run"
        BY <1>2, <2>2, <4>2, NothingYet DEF Moved, MovedGraph, NoTasks
      <4> QED BY <4>1, <4>2
    <3> QED BY <3>1 DEF FreshInv
  <2>3. CASE phase # "script"
    <3>1. step \notin {"Run", "Clean", "UserLibs"}
      BY <2>1, <2>3, AfterRun
    <3>2. UNCHANGED <<ver, out, task, taskState>>
      BY <1>2, <3>1 DEF Moved, MovedGraph, MovedDisk
    <3> QED BY <3>2 DEF FreshInv, R!Fresh, R!MadeNow, R!Used
  <2> QED BY <2>2, <2>3
<1>3. CASE Ended
  <2>1. UNCHANGED <<ver, task, taskState>>
    BY <1>3 DEF Ended
  <2>2. \A b \in Builders : task[b] # "running" => out'[b] = out[b]
    BY <1>3 DEF Ended
  <2>3. ASSUME NEW b \in Builders, taskState = "SUCCESS", task[b] = "done"
        PROVE  R!Fresh(b)'
    <3>1. R!Fresh(b) /\ out'[b] = out[b]
      BY <2>2, <2>3 DEF FreshInv
    <3>2. \A d \in R!Used(b) : out'[d] = out[d]
      BY <2>2, <2>3, NotRead DEF R!Used
    <3> QED BY <2>1, <3>1, <3>2, FreshStays
  <2> QED BY <2>1, <2>3 DEF FreshInv
<1>4. CASE Worked
  <2>1. ver' = ver
        /\ (Passes \/ \E b \in Builders : Begins(b) \/ Made(b) \/ GoesWrong(b))
    BY <1>4, WorkedCases DEF TaskInv
  <2>2. CASE Passes
    BY <2>1, <2>2 DEF Passes, FreshInv, R!Fresh, R!MadeNow, R!Used
  <2>3. ASSUME NEW b \in Builders, Begins(b) PROVE FreshInv'
    <3>1. out' = out /\ taskState' = taskState /\ task' = [task EXCEPT ![b] = "running"]
      BY <2>3 DEF Begins
    <3>2. \A c \in Builders : task'[c] = "done" => task[c] = "done"
      BY <3>1 DEF TaskInv
    <3> QED BY <2>1, <3>1, <3>2 DEF FreshInv, R!Fresh, R!MadeNow, R!Used
  <2>4. ASSUME NEW b \in Builders, Made(b) PROVE FreshInv'
    <3>1. /\ task[b] = "running" /\ taskState = "SUCCESS" /\ taskState' = taskState
          /\ out' = [out EXCEPT ![b] = R!MadeNow(b)]
          /\ task' = [task EXCEPT ![b] = "done"]
      BY <2>4 DEF Made
    <3>2. \A c \in Builders \ {b} : out'[c] = out[c]
      BY <3>1 DEF TaskInv
    <3>3. b \notin R!Used(b)
      BY DEF R!Used, Uses
    <3>4. R!Fresh(b)'
      <4>1. out'[b] = R!MadeNow(b)
        BY <3>1 DEF TaskInv
      <4>2. \A d \in R!Used(b) : out'[d] = out[d]
        BY <3>2, <3>3 DEF R!Used
      <4> QED BY <2>1, <4>1, <4>2 DEF R!Fresh, R!MadeNow, R!Used
    <3>5. ASSUME NEW c \in Builders \ {b}, task'[c] = "done" PROVE R!Fresh(c)'
      <4>1. task[c] = "done"
        BY <3>1, <3>5 DEF TaskInv
      <4>2. R!Fresh(c) /\ out'[c] = out[c]
        BY <3>1, <3>2, <4>1 DEF FreshInv
      <4>3. \A d \in R!Used(c) : out'[d] = out[d]
        BY <3>1, <3>2, <4>1, NotRead DEF R!Used
      <4> QED BY <2>1, <4>2, <4>3, FreshStays
    <3> QED BY <3>4, <3>5 DEF FreshInv
  <2>5. ASSUME NEW b \in Builders, GoesWrong(b) PROVE FreshInv'
    BY <2>5 DEF GoesWrong, FreshInv
  <2> QED BY <2>1, <2>2, <2>3, <2>4, <2>5
<1>5. CASE NextSession
  BY <1>5 DEF NextSession, NothingRuns, FreshInv
<1> QED BY <1>1, <1>2, <1>3, <1>4, <1>5, NextCases

(* No tasks at first. *)
LEMMA FreshInit ==
  ASSUME Init
  PROVE  FreshInv
BY DEF Init, R!Init, FreshInv

(* Versions only grow. *)
LEMMA OwnStays ==
  ASSUME TaskInv, OwnInv, \A b \in Builders : out'[b] = out[b] \/ out'[b] = {},
         \A b \in Builders : ver'[b] \in Nat /\ ver[b] <= ver'[b]
  PROVE  OwnInv'
<1> SUFFICES ASSUME NEW b \in Builders, NEW o \in out'[b] PROVE o.own \in 0..ver'[b]
  BY DEF OwnInv
<1>1. o.own \in 0..ver[b] /\ ver[b] \in Nat
  BY VersionsAssumption DEF OwnInv, TaskInv
<1>2. ver'[b] \in Nat /\ ver[b] <= ver'[b]
  OBVIOUS
<1> QED BY <1>1, <1>2

(* A save makes a later version. *)
LEMMA SavedGrows ==
  ASSUME TaskInv, NEW b \in Builders, Saved(b)
  PROVE  \A c \in Builders : ver'[c] \in Nat /\ ver[c] <= ver'[c]
<1>1. \A c \in Builders : ver[c] \in Nat
  BY VersionsAssumption DEF TaskInv
<1>2. ver' = [ver EXCEPT ![b] = ver[b] + 1]
  BY DEF Saved
<1> QED BY <1>1, <1>2 DEF TaskInv

(* So does no save. *)
LEMMA SameVersions ==
  ASSUME TaskInv, ver' = ver
  PROVE  \A c \in Builders : ver'[c] \in Nat /\ ver[c] <= ver'[c]
<1>1. \A c \in Builders : ver[c] \in Nat
  BY VersionsAssumption DEF TaskInv
<1> QED BY <1>1

(* An output is of a version there was. *)
LEMMA OwnNext ==
  ASSUME PlanInv, DoneInv, TaskInv, OwnInv, [Next]_vars
  PROVE  OwnInv'
<1>1. CASE UNCHANGED vars
  BY <1>1 DEF vars, registered, OwnInv
<1>2. ASSUME NEW step, Moved(step) PROVE OwnInv'
  <2>1. \A b \in Builders : out'[b] = out[b] \/ out'[b] = {}
    BY <1>2 DEF Moved, MovedDisk, Cleaned
  <2>2. CASE Saved(session.name)
    <3>1. session.name \in Builders
      BY BuildIn
    <3> QED BY <2>1, <2>2, <3>1, SavedGrows, OwnStays
  <2>3. CASE ver' = ver
    BY <2>1, <2>3, SameVersions, OwnStays
  <2>4. Saved(session.name) \/ ver' = ver
    BY <1>2 DEF Moved, MovedDisk
  <2> QED BY <2>2, <2>3, <2>4
<1>3. CASE Ended
  <2>1. ver' = ver /\ \A b \in Builders : out'[b] = out[b] \/ out'[b] = {}
    BY <1>3 DEF Ended
  <2> QED BY <2>1, SameVersions, OwnStays
<1>4. CASE Worked
  <2>1. ver' = ver
        /\ (Passes \/ \E b \in Builders : Begins(b) \/ Made(b) \/ GoesWrong(b))
    BY <1>4, WorkedCases DEF TaskInv
  <2>2. CASE Passes
    BY <2>1, <2>2 DEF Passes, OwnInv
  <2>3. ASSUME NEW b \in Builders, Begins(b) PROVE OwnInv'
    BY <2>1, <2>3 DEF Begins, OwnInv
  <2>4. ASSUME NEW b \in Builders, Made(b) PROVE OwnInv'
    <3>1. out' = [out EXCEPT ![b] = R!MadeNow(b)]
      BY <2>4 DEF Made
    <3>2. \A o \in R!MadeNow(b) : o.own = ver[b]
      BY DEF R!MadeNow
    <3>3. ver[b] \in 0..ver[b]
      BY VersionsAssumption DEF TaskInv
    <3> QED BY <2>1, <3>1, <3>2, <3>3 DEF OwnInv, TaskInv
  <2>5. ASSUME NEW b \in Builders, GoesWrong(b) PROVE OwnInv'
    <3>1. \A c \in Builders : out'[c] = out[c] \/ out'[c] = {}
      BY <2>5 DEF GoesWrong, TaskInv
    <3> QED BY <2>1, <3>1, SameVersions, OwnStays
  <2> QED BY <2>1, <2>2, <2>3, <2>4, <2>5
<1>5. CASE NextSession
  <2>1. out' = out
    BY <1>5 DEF NextSession
  <2>2. \A b \in Builders : ver'[b] \in Nat /\ ver[b] <= ver'[b]
    <3>1. CASE UNCHANGED ver
      BY <3>1, SameVersions
    <3>2. CASE \E b \in Edited : Saved(b)
      BY <3>2, SavedGrows, VersionsAssumption
    <3> QED BY <1>5, <3>1, <3>2 DEF NextSession
  <2> QED BY <2>1, <2>2, OwnStays
<1> QED BY <1>1, <1>2, <1>3, <1>4, <1>5, NextCases

(* No outputs at first. *)
LEMMA OwnInit ==
  ASSUME Init
  PROVE  OwnInv
BY DEF Init, R!Init, OwnInv

(* The invariant of main and of the outputs. *)
OutputInv == MainInv /\ TaskInv /\ ReadInv /\ FreshInv /\ OwnInv

(* No outputs at first. *)
LEMMA OutputInit == Init => OutputInv
BY MainInit, TaskInit, ReadInit, FreshInit, OwnInit DEF OutputInv

(* One step per part. *)
LEMMA OutputNext == OutputInv /\ [Next]_vars => OutputInv'
<1> SUFFICES ASSUME OutputInv, [Next]_vars PROVE OutputInv'
  OBVIOUS
<1>1. MainInv'
  BY MainNext DEF OutputInv
<1>2. TaskInv' /\ ReadInv' /\ FreshInv' /\ OwnInv'
  BY TaskNext, ReadNext, FreshNext, OwnNext DEF OutputInv, MainInv
<1> QED BY <1>1, <1>2 DEF OutputInv

(* Of every behaviour. *)
LEMMA OutputHolds == Spec => []OutputInv
BY OutputInit, OutputNext, PTL DEF Spec

(* When the executor is through, all its tasks are done. *)
LEMMA FreshAfter ==
  ASSUME OutputInv
  PROVE  RunsFresh
<1> SUFFICES ASSUME phase \in {"post", "test", "ok"}, NEW b \in build PROVE R!Fresh(b)
  BY DEF RunsFresh
<1>1. b \in Builders
  BY BuildIn DEF OutputInv, MainInv
<1>2. task[b] = "done" /\ taskState = "SUCCESS"
  BY DEF OutputInv, TaskInv
<1> QED BY <1>1, <1>2 DEF OutputInv, FreshInv

(* What is run after a build that succeeded is what its inputs make now, *)
(* and so is every library it links.                                     *)
THEOREM ProgramsRunFresh == Spec => []RunsFresh
<1>1. OutputInv => RunsFresh
  BY FreshAfter
<1> QED BY OutputHolds, <1>1, PTL

-----------------------------------------------------------------------------
(* The commands that the plugin writes. *)

(* What the executor does to what is on disk. *)
LEMMA WorkedDisk ==
  ASSUME Worked, DOMAIN out = Builders
  PROVE  /\ UNCHANGED <<session, todo, outcome, compile_commands, missed, verifier,
                        toolchain, ver, build>>
         /\ \/ /\ UNCHANGED <<built, madeBy>>
               /\ (Passes \/ \E b \in Builders : Begins(b) \/ GoesWrong(b))
            \/ \E b \in Builders :
                 /\ Made(b)
                 /\ built' = IF R!Fresh(b) THEN built ELSE built \cup {b}
                 /\ madeBy' = IF R!Fresh(b) THEN madeBy ELSE [madeBy EXCEPT ![b] = Dir]
<1>1. CASE Executor
  <2>1. UNCHANGED <<session, todo, outcome, compile_commands, missed, verifier,
                    toolchain, built, madeBy>>
    BY <1>1 DEF Executor, Running, process, disk
  <2>2. CASE \E b \in Builders : R!Start(b)
    BY <2>1, <2>2 DEF R!Start, R!script, Begins
  <2>3. CASE \E b \in Builders : R!FinishFails(b)
    BY <2>1, <2>3 DEF R!FinishFails, R!script, GoesWrong
  <2>4. CASE \E b \in Builders : R!FinishSkipped(b)
    <3>1. PICK b \in Builders : R!FinishSkipped(b)
      BY <2>4
    <3>2. GoesWrong(b)
      BY <3>1 DEF R!FinishSkipped, GoesWrong
    <3> QED BY <2>1, <3>1, <3>2 DEF R!FinishSkipped, R!script
  <2>5. CASE R!RunBuildSucceeds \/ R!PostBuild \/ R!RunTestEnds
    BY <2>1, <2>5 DEF R!RunBuildSucceeds, R!PostBuild, R!RunTestEnds, R!script, Passes
  <2> QED BY <1>1, <2>2, <2>3, <2>4, <2>5 DEF Executor
<1>2. CASE \E b \in Builders : Finish(b)
  <2>1. PICK b \in Builders : Finish(b)
    BY <1>2
  <2>2. Made(b) /\ UNCHANGED <<ver, build>>
    BY <2>1 DEF Finish, R!Finish, R!script, Made
  <2> QED BY <2>1, <2>2 DEF Finish, Running
<1> QED BY <1>1, <1>2 DEF Worked

(* What the plugin describes is one of its targets. *)
LEMMA DescribedIs ==
  ASSUME PlanInv, NameInv, session.mode = "bootstrap" \/ "BuildUser" \in Past
  PROVE  Described \in Describables
<1>1. IsSession(session)
  BY SessionIs DEF PlanInv
<1>2. CASE session.mode = "bootstrap"
  BY <1>2 DEF Described, Describables
<1>3. CASE session.mode # "bootstrap" /\ "BuildUser" \in Past
  <2>1. session.name \in {"script", "program", "hybrid"}
    BY <1>3, DistinctIs
  <2>2. session.name # "hybrid"
    BY <1>1, <1>3 DEF IsSession, UserNames
  <2> QED BY <1>3, <2>1, <2>2 DEF Described, Describables
<1> QED BY <1>2, <1>3

(* Of what it builds, the program describes its target only. *)
LEMMA BuiltDescribed ==
  ASSUME PlanInv, DoneInv, NEW b \in build, b \in Describables
  PROVE  b = Described
BY BuildIn DEF Described, Describables

(* Every program ends with the plugin. *)
LEMMA GenerateLast ==
  /\ "Generate" \in MainSteps(session)
  /\ session.mode # "bootstrap" => "BuildUser" \in MainSteps(session)
BY DEF MainSteps

(* The plugin describes builders. *)
LEMMA DescribablesIn ==
  Describables \subseteq Builders /\ Described \in {"libbuildcc", session.name}
BY DEF Describables, Builders, Described

(* A step of main: the plugin, which writes the file, and clean, which *)
(* removes it.                                                         *)
LEMMA FileMoved ==
  ASSUME PlanInv, DoneInv, NameInv, PhaseInv, TaskInv, CommandsFileInv,
         NEW step, Moved(step)
  PROVE  CommandsFileInv'
<1>1. At(step) /\ Go
  BY DEF Moved, MovedMain, Do
<1>2. Past' = Past \cup {step} /\ Left' = Left \ {step} /\ session' = session
      /\ PlanInv'
  BY <1>1, GoIs DEF Go
<1>3. Described' = Described /\ Describables' = Describables /\ built' = built
  BY <1>2 DEF Described, Describables, Moved, MovedMain
<1>4. ~(outcome' # "running" /\ Unwritten')
  <2>1. outcome' # "running" => todo' = <<>>
    BY <1>1 DEF Go
  <2>2. todo' = <<>> => ToSet(todo') = {}
    BY DEF ToSet
  <2> QED BY <2>1, <2>2 DEF Unwritten
<1>5. built' \subseteq build'
  BY <1>3 DEF Moved, MovedGraph, CommandsFileInv
<1>6. CASE step = "Clean"
  <2>1. PICK gone \in {{}, InBuildDir} :
       /\ out' = [b \in Builders |-> IF b \in gone THEN {} ELSE out[b]]
       /\ compile_commands' = IF gone = {} THEN compile_commands ELSE {}
       /\ missed' = (missed /\ gone = {})
    BY <1>6 DEF Moved, MovedDisk, Cleaned
  <2>2. missed' \in BOOLEAN
    BY <2>1
  <2>3. \A n : Pending(n)' <=> Pending(n)
    BY <1>2, <1>3, <1>6 DEF Pending
  <2>4. CASE gone = {}
    <3>1. \A n \in Describables : out'[n] = out[n]
      BY <2>1, <2>4, DescribablesIn
    <3>2. compile_commands' = compile_commands /\ (missed' <=> missed)
      BY <2>1, <2>4
    <3> QED BY <1>3, <1>4, <1>5, <2>2, <2>3, <3>1, <3>2 DEF CommandsFileInv
  <2>5. CASE gone # {}
    <3>1. gone = Describables
      BY <2>1, <2>5 DEF InBuildDir, Describables
    <3>2. \A n \in Describables : out'[n] = {}
      BY <2>1, <3>1, DescribablesIn
    <3>3. compile_commands' = {}
      BY <2>1, <2>5
    <3> QED BY <1>3, <1>4, <1>5, <2>2, <3>2, <3>3 DEF CommandsFileInv
  <2> QED BY <2>4, <2>5
<1>7. CASE step = "Generate" /\ Described \in built
  <2>1. /\ out' = out /\ missed' = FALSE
        /\ compile_commands' = {[of |-> Described, from |-> out[Described]]}
    BY <1>7 DEF Moved, MovedDisk
  <2>2. Described \in Describables
    <3>1. session.mode # "bootstrap" => RankOf("BuildUser") < RankOf("Generate")
      BY ExeRanks DEF RankOf, Rank
    <3>2. session.mode # "bootstrap" => "BuildUser" \in Past
      BY <1>1, <1>7, <3>1, GenerateLast, AtIs
    <3> QED BY <3>2, DescribedIs
  <2>3. \A c \in compile_commands' : c.of = Described /\ c.from = out'[c.of]
    BY <2>1
  <2>4. compile_commands' # {}
    BY <2>1
  <2> QED BY <1>3, <1>4, <1>5, <2>1, <2>2, <2>3, <2>4 DEF CommandsFileInv
<1>8. CASE step # "Clean" /\ ~(step = "Generate" /\ Described \in built)
  <2>1. out' = out /\ compile_commands' = compile_commands /\ missed' = missed
    BY <1>8 DEF Moved, MovedDisk
  <2>2. \A n : Pending(n)' <=> Pending(n)
    BY <1>2, <1>3, <1>8 DEF Pending
  <2> QED BY <1>3, <1>4, <1>5, <2>1, <2>2 DEF CommandsFileInv
<1> QED BY <1>6, <1>7, <1>8

(* The file is not written. *)
LEMMA FileRests ==
  ASSUME CommandsFileInv, Resting, UNCHANGED <<built, build, compile_commands>>,
         \A n \in Describables : out'[n] = out[n] \/ out'[n] = {},
         missed' \in BOOLEAN, missed => missed',
         outcome' # "running" /\ Unwritten => missed'
  PROVE  CommandsFileInv'
<1>1. Left' = Left /\ session' = session /\ todo' = todo
  BY RestIs DEF Resting
<1>2. Described' = Described /\ Describables' = Describables
      /\ (Unwritten' <=> Unwritten)
  BY <1>1 DEF Described, Describables, Unwritten
<1>3. \A n : Pending(n)' <=> Pending(n)
  BY <1>1, <1>2 DEF Pending
<1> QED BY <1>2, <1>3 DEF CommandsFileInv

(* A task that makes the described target has the plugin left to run. *)
LEMMA FileMade ==
  ASSUME PlanInv, DoneInv, NameInv, PhaseInv, TaskInv, CommandsFileInv, Resting,
         UNCHANGED <<build, compile_commands, missed, outcome>>, outcome = "running",
         NEW b \in Builders, Made(b),
         built' = IF R!Fresh(b) THEN built ELSE built \cup {b}
  PROVE  CommandsFileInv'
<1>1. /\ task[b] = "running" /\ out' = [out EXCEPT ![b] = R!MadeNow(b)]
  BY DEF Made
<1>2. b \in build /\ phase = "build"
  BY <1>1 DEF TaskInv, PhaseInv
<1>3. CASE R!Fresh(b)
  <2>1. \A n \in Describables : out'[n] = out[n]
    BY <1>1, <1>3, DescribablesIn DEF R!Fresh, TaskInv
  <2> QED BY <1>3, <2>1, FileRests DEF CommandsFileInv
<1>4. CASE ~R!Fresh(b)
  <2>1. Left' = Left /\ session' = session /\ todo' = todo
    BY RestIs DEF Resting
  <2>2. Described' = Described /\ Describables' = Describables
    BY <2>1 DEF Described, Describables
  <2>3. built' = built \cup {b}
    BY <1>4
  <2>4. "Generate" \in Left
    BY <1>2, GenerateLast DEF PhaseInv, Past
  <2>5. \A n : Pending(n) => Pending(n)'
    BY <2>1, <2>2, <2>3 DEF Pending
  <2>6. b \in Describables => Pending(b)'
    BY <1>2, <2>1, <2>2, <2>3, <2>4, BuiltDescribed DEF Pending
  <2>7. \A n \in Describables \ {b} : out'[n] = out[n]
    BY <1>1, DescribablesIn DEF TaskInv
  <2>8. \A n \in Describables : out'[n] = out[n] \/ Pending(n)'
    BY <2>6, <2>7
  <2>9. ~missed' => \A c \in compile_commands' :
            c.from = out'[c.of] \/ out'[c.of] = {} \/ Pending(c.of)'
    BY <2>5, <2>8 DEF CommandsFileInv
  <2>10. ~missed' => \A n \in Describables' :
            out'[n] = {} \/ compile_commands' # {} \/ Pending(n)'
    BY <2>2, <2>5, <2>8 DEF CommandsFileInv
  <2>11. built' \subseteq build'
    BY <1>2, <2>3 DEF CommandsFileInv
  <2> QED BY <2>2, <2>9, <2>10, <2>11 DEF CommandsFileInv
<1> QED BY <1>3, <1>4

(* One step per part. *)
LEMMA FileNext ==
  ASSUME PlanInv, DoneInv, NameInv, PhaseInv, TaskInv, CommandsFileInv, [Next]_vars
  PROVE  CommandsFileInv'
<1>1. CASE UNCHANGED vars
  <2>1. Resting /\ UNCHANGED <<built, build, compile_commands, out, missed, outcome>>
    BY <1>1 DEF vars, process, disk, registered, Resting
  <2> QED BY <2>1, FileRests DEF CommandsFileInv
<1>2. CASE \E step : Moved(step)
  BY <1>2, FileMoved
<1>3. CASE Ended
  <2>1. Resting /\ UNCHANGED <<built, build, compile_commands>>
    BY <1>3, EndedRests DEF Ended, Exit
  <2>2. missed' = (missed \/ Unwritten)
    BY <1>3 DEF Ended, Exit
  <2>3. \A n \in Describables : out'[n] = out[n] \/ out'[n] = {}
    BY <1>3, DescribablesIn DEF Ended
  <2> QED BY <2>1, <2>2, <2>3, FileRests
<1>4. CASE Worked
  <2>1. Resting /\ UNCHANGED <<build, compile_commands, missed, outcome>>
        /\ outcome = "running"
    BY <1>4, WorkedRests, WorkedDisk DEF TaskInv
  <2>2. CASE UNCHANGED built
        /\ (Passes \/ \E b \in Builders : Begins(b) \/ GoesWrong(b))
    <3>1. \A n \in Builders : out'[n] = out[n] \/ out'[n] = {}
      BY <2>2 DEF Passes, Begins, GoesWrong, TaskInv
    <3> QED BY <2>1, <2>2, <3>1, DescribablesIn, FileRests DEF CommandsFileInv
  <2>3. CASE \E b \in Builders :
                 Made(b) /\ built' = IF R!Fresh(b) THEN built ELSE built \cup {b}
    BY <2>1, <2>3, FileMade
  <2>4. \/ UNCHANGED built /\ (Passes \/ \E b \in Builders : Begins(b) \/ GoesWrong(b))
        \/ \E b \in Builders :
                 Made(b) /\ built' = IF R!Fresh(b) THEN built ELSE built \cup {b}
    BY <1>4, WorkedDisk DEF TaskInv
  <2> QED BY <2>2, <2>3, <2>4
<1>5. CASE NextSession
  <2>1. /\ outcome # "running" /\ outcome' = "running" /\ built' = {} /\ build' = {}
        /\ UNCHANGED <<out, missed, compile_commands>>
        /\ (session'.mode = "bootstrap" <=> session.mode = "bootstrap")
    BY <1>5 DEF NextSession, Fits, NothingRuns, disk
  <2>2. Describables' = Describables
    BY <2>1 DEF Describables
  <2>3. ~missed => \A n : ~Pending(n)
    BY <2>1 DEF CommandsFileInv, Pending, Unwritten, Left
  <2> QED BY <2>1, <2>2, <2>3 DEF CommandsFileInv
<1> QED BY <1>1, <1>2, <1>3, <1>4, <1>5, NextCases

(* No file at first. *)
LEMMA FileInit ==
  ASSUME Init
  PROVE  CommandsFileInv
<1>1. /\ compile_commands = {} /\ missed = FALSE /\ outcome = "running" /\ built = {}
      /\ build = {} /\ out = [b \in Builders |-> {}]
  BY DEF Init, R!Init
<1> QED BY <1>1, DescribablesIn DEF CommandsFileInv

-----------------------------------------------------------------------------
(* Who made what is run. *)

(* The steps of script mode, in their order. *)
ScriptSteps ==
  {"WriteVerifier", "BuildVerifier", "RunVerifier", "UserLibs", "RunUserTarget"}

(* Steps that only script mode has. *)
LEMMA ScriptStepsAre ==
  ASSUME PlanInv, ScriptSteps \cap MainSteps(session) # {}
  PROVE  session.mode = "script"
<1>1. IsSession(session)
  BY SessionIs DEF PlanInv
<1> QED BY <1>1 DEF IsSession, ScriptSteps, MainSteps, StartSteps, PackageSteps

(* Where they are. *)
LEMMA ScriptRanks ==
  ASSUME session.mode = "script"
  PROVE  /\ ScriptSteps \cup {"Clean", "ConstructToolchain", "Verify", "BuildUser"}
              \subseteq MainSteps(session)
         /\ RankOf("Clean") = 4 /\ RankOf("ConstructToolchain") = 5
         /\ RankOf("Verify") = 6
         /\ RankOf("WriteVerifier") = 7 /\ RankOf("BuildVerifier") = 8
         /\ RankOf("RunVerifier") = 9 /\ RankOf("UserLibs") = 18
         /\ RankOf("BuildUser") = 19 /\ RankOf("RunUserTarget") = 22
BY ExeRanks DEF ScriptSteps, MainSteps, StartSteps, RankOf, Rank

(* The toolchain is settled before them. *)
LEMMA BeforeScript ==
  ASSUME PlanInv, NEW step \in {"Clean", "ConstructToolchain", "Verify"}, At(step)
  PROVE  {"WriteVerifier", "BuildVerifier", "UserLibs"} \cap (Past \cup {step}) = {}
<1> SUFFICES ASSUME NEW x \in {"WriteVerifier", "BuildVerifier", "UserLibs"}, x \in Past
             PROVE FALSE
  OBVIOUS
<1>1. x \in MainSteps(session)
  BY DEF Past
<1>2. session.mode = "script"
  BY <1>1, ScriptStepsAre DEF ScriptSteps
<1>3. RankOf(step) < RankOf(x)
  BY <1>2, ScriptRanks
<1>4. RankOf(x) < RankOf(step)
  BY <1>1, AtIs
<1> QED BY <1>3, <1>4, LessAsymmetric DEF RankOf

(* Its source, when it can be written, is written anew before it is built, so *)
(* it is built.                                                               *)
LEMMA VerifierMoved ==
  ASSUME PlanInv, MadeInv, NEW step, Moved(step)
  PROVE  VerifierIs' /\ VerifierMade'
<1>1. At(step) /\ Go /\ VerifierIs /\ VerifierMade
  BY DEF Moved, MovedMain, Do, MadeInv
<1>2. Past' = Past \cup {step} /\ Left' = Left \ {step} /\ session' = session
  BY <1>1, GoIs DEF Go
<1>3. CASE step \in {"Clean", "ConstructToolchain", "Verify"}
  <2>1. "WriteVerifier" \notin Past' /\ "BuildVerifier" \notin Past'
    BY <1>1, <1>2, <1>3, BeforeScript
  <2>2. verifier' = verifier \/ verifier' = NoVerifier
    BY <1>3 DEF Moved, MovedDisk, Cleaned
  <2>3. ASSUME verifier' = verifier PROVE VerifierIs'
    BY <1>1, <2>3 DEF VerifierIs
  <2>4. ASSUME verifier' = NoVerifier PROVE VerifierIs'
    <3>1. /\ NoVerifier.file = 0 /\ NoVerifier.made = 0
          /\ NoVerifier \in [file : Nat, made : Nat, by : {NoVerifier.by}]
      BY DEF NoVerifier
    <3> QED BY <2>4, <3>1 DEF VerifierIs
  <2>5. VerifierIs'
    BY <2>2, <2>3, <2>4
  <2> QED BY <2>1, <2>5 DEF VerifierMade
<1>4. CASE step = "WriteVerifier"
  <2>1. verifier' = IF kVerifier \in session.writable
                    THEN [verifier EXCEPT !.file = @ + 1] ELSE verifier
    BY <1>4 DEF Moved, MovedDisk
  <2>2. VerifierIs'
        /\ (kVerifier \in session.writable => verifier'.made < verifier'.file)
    BY <1>1, <2>1 DEF VerifierIs
  <2>3. "BuildVerifier" \notin Past
    <3>1. step \in MainSteps(session)
      BY <1>1, AtIs
    <3>2. session.mode = "script"
      BY <1>4, <3>1, ScriptStepsAre DEF ScriptSteps
    <3>3. RankOf("WriteVerifier") < RankOf("BuildVerifier")
      BY <3>2, ScriptRanks
    <3> QED BY <1>1, <1>4, <3>2, <3>3, ScriptRanks, AtIs, LessAsymmetric
            DEF RankOf, ScriptSteps
  <2> QED BY <1>2, <1>4, <2>2, <2>3 DEF VerifierMade
<1>5. CASE step = "BuildVerifier"
  <2>1. "WriteVerifier" \in Past /\ "BuildVerifier" \in Left
    <3>1. step \in MainSteps(session)
      BY <1>1, AtIs
    <3>2. session.mode = "script"
      BY <1>5, <3>1, ScriptStepsAre DEF ScriptSteps
    <3>3. RankOf("WriteVerifier") < RankOf("BuildVerifier")
          /\ "WriteVerifier" \in MainSteps(session)
      BY <3>2, ScriptRanks DEF ScriptSteps
    <3> QED BY <1>1, <1>5, <3>3, AtIs
  <2>2. verifier' = IF verifier.by # "" /\ verifier.made = verifier.file
                    THEN verifier
                    ELSE [verifier EXCEPT !.made = verifier.file, !.by = Dir]
    BY <1>5 DEF Moved, MovedDisk
  <2>3. Dir' = Dir
    BY <1>5 DEF Moved, MovedMain, Dir, T, Unique
  <2>4. PICK d : d = Dir
    OBVIOUS
  <2>5. PICK n \in Nat, m \in Nat,
               b \in {verifier.by} : verifier = [file |-> n, made |-> m, by |-> b]
    BY <1>1 DEF VerifierIs
  <2>6. verifier' \in {verifier, [file |-> n, made |-> n, by |-> d]}
    BY <2>2, <2>4, <2>5
  <2>7. VerifierIs'
    BY <1>1, <2>5, <2>6 DEF VerifierIs
  <2>8. ASSUME kVerifier \in session.writable PROVE verifier'.by = d
    <3>1. verifier.made < verifier.file
      BY <1>1, <2>1, <2>8 DEF VerifierMade
    <3>2. verifier.made # verifier.file
      BY <2>5, <3>1
    <3> QED BY <2>2, <2>4, <2>5, <3>2
  <2> QED BY <1>2, <1>5, <2>3, <2>4, <2>7, <2>8 DEF VerifierMade
<1>6. CASE step \notin {"Clean", "ConstructToolchain", "Verify", "WriteVerifier",
                        "BuildVerifier"}
  <2>1. verifier' = verifier /\ Dir' = Dir
    BY <1>6 DEF Moved, MovedDisk, MovedMain, Dir, T, Unique
  <2> QED BY <1>1, <1>2, <1>6, <2>1 DEF VerifierMade, VerifierIs
<1> QED BY <1>3, <1>4, <1>5, <1>6

(* UserLibs saves the header of the script, if it can be written, so its *)
(* output is behind.                                                     *)
LEMMA BehindMoved ==
  ASSUME PlanInv, DoneInv, PhaseInv, TaskInv, OwnInv, MadeInv, NEW step, Moved(step)
  PROVE  ScriptMade'
<1>1. At(step) /\ Go
  BY DEF Moved, MovedMain, Do
<1>2. Past' = Past \cup {step} /\ Left' = Left \ {step} /\ session' = session
  BY <1>1, GoIs DEF Go
<1> SUFFICES ASSUME kLibDirs \in session.writable, "UserLibs" \in Past'
             PROVE  Behind(session.name)' \/ madeBy'[session.name] = Dir'
  BY <1>2 DEF ScriptMade
<1>3. step \notin {"Clean", "ConstructToolchain", "Verify"}
  BY <1>1, <1>2, BeforeScript
<1>4. out' = out /\ madeBy' = madeBy /\ Dir' = Dir
  BY <1>3 DEF Moved, MovedDisk, MovedMain, Dir, T, Unique
<1>5. CASE step = "UserLibs"
  <2>1. session.name \in Builders
    BY BuildIn
  <2>2. ver' = [ver EXCEPT ![session.name] = ver[session.name] + 1]
    BY <1>5 DEF Moved, MovedDisk, Saved
  <2>3. ver[session.name] \in Nat /\ ver'[session.name] = ver[session.name] + 1
    BY <2>1, <2>2, VersionsAssumption DEF TaskInv
  <2>4. \A o \in out[session.name] : o.own \in 0..ver[session.name]
    BY <2>1 DEF OwnInv
  <2>5. \A o \in out[session.name] : o.own < ver'[session.name]
    BY <2>3, <2>4
  <2> QED BY <1>2, <1>4, <2>5 DEF Behind
<1>6. CASE step # "UserLibs"
  <2>1. ver' = ver
    BY <1>6 DEF Moved, MovedDisk
  <2>2. Behind(session.name) \/ madeBy[session.name] = Dir
    BY <1>2, <1>6 DEF MadeInv, ScriptMade
  <2> QED BY <1>2, <1>4, <2>1, <2>2 DEF Behind
<1> QED BY <1>5, <1>6

(* What was made, and by which compilers, stays. *)
LEMMA MadeRests ==
  ASSUME MadeInv, Resting, UNCHANGED <<verifier, toolchain, ver, madeBy>>,
         session.name \in Builders,
         \A b \in Builders : out'[b] = out[b] \/ out'[b] = {}
  PROVE  MadeInv'
<1>1. Left' = Left /\ Past' = Past /\ session' = session
  BY RestIs DEF Resting
<1>2. Dir' = Dir
  BY DEF Dir, T, Unique
<1>3. Behind(session.name) => Behind(session.name)'
  <2>1. out'[session.name] = out[session.name] \/ out'[session.name] = {}
    OBVIOUS
  <2> QED BY <1>1, <2>1 DEF Behind
<1>4. VerifierIs'
  BY DEF MadeInv, VerifierIs
<1> HIDE DEF Dir
<1>5. ScriptMade'
  BY <1>1, <1>2, <1>3 DEF MadeInv, ScriptMade
<1>6. VerifierMade'
  BY <1>1, <1>2 DEF MadeInv, VerifierMade
<1>7. DOMAIN madeBy' = Builders
  BY DEF MadeInv
<1> QED BY <1>4, <1>5, <1>6, <1>7 DEF MadeInv

(* A task that makes an output makes it with the compilers of this *)
(* process.                                                        *)
LEMMA MadeNext ==
  ASSUME PlanInv, DoneInv, PhaseInv, TaskInv, OwnInv, MadeInv, [Next]_vars
  PROVE  MadeInv'
<1>0. session.name \in Builders
  BY BuildIn
<1>1. CASE UNCHANGED vars
  <2>1. Resting /\ UNCHANGED <<verifier, toolchain, ver, madeBy, out>>
    BY <1>1 DEF vars, process, disk, registered, Resting
  <2> QED BY <1>0, <2>1, MadeRests
<1>2. ASSUME NEW step, Moved(step) PROVE MadeInv'
  <2>1. DOMAIN madeBy' = Builders
    BY <1>2 DEF Moved, MovedDisk, Cleaned, MadeInv
  <2>2. VerifierIs' /\ VerifierMade'
    BY <1>2, VerifierMoved
  <2>3. ScriptMade'
    BY <1>2, BehindMoved
  <2> QED BY <2>1, <2>2, <2>3 DEF MadeInv
<1>3. CASE Ended
  <2>1. Resting /\ UNCHANGED <<verifier, toolchain, ver, madeBy>>
    BY <1>3, EndedRests DEF Ended, Exit
  <2>2. \A b \in Builders : out'[b] = out[b] \/ out'[b] = {}
    BY <1>3 DEF Ended
  <2> QED BY <1>0, <2>1, <2>2, MadeRests
<1>4. CASE Worked
  <2>1. Resting /\ UNCHANGED <<verifier, toolchain, ver>>
    BY <1>4, WorkedRests, WorkedDisk DEF TaskInv
  <2>2. CASE UNCHANGED madeBy
        /\ (Passes \/ \E b \in Builders : Begins(b) \/ GoesWrong(b))
    <3>1. \A n \in Builders : out'[n] = out[n] \/ out'[n] = {}
      BY <2>2 DEF Passes, Begins, GoesWrong, TaskInv
    <3> QED BY <1>0, <2>1, <2>2, <3>1, MadeRests
  <2>3. ASSUME NEW b \in Builders, Made(b),
               madeBy' = IF R!Fresh(b) THEN madeBy ELSE [madeBy EXCEPT ![b] = Dir]
        PROVE MadeInv'
    <3>1. out' = [out EXCEPT ![b] = R!MadeNow(b)]
      BY <2>3 DEF Made
    <3>2. CASE R!Fresh(b)
      <4>1. \A n \in Builders : out'[n] = out[n]
        BY <3>1, <3>2 DEF R!Fresh, TaskInv
      <4> QED BY <1>0, <2>1, <2>3, <3>2, <4>1, MadeRests
    <3>3. CASE ~R!Fresh(b)
      <4>1. madeBy' = [madeBy EXCEPT ![b] = Dir]
        BY <2>3, <3>3
      <4>2. Left' = Left /\ Past' = Past /\ session' = session
        BY <2>1, RestIs DEF Resting
      <4>3. Dir' = Dir
        BY <2>1 DEF Dir, T, Unique
      <4>4. DOMAIN madeBy' = Builders
        BY <4>1 DEF MadeInv
      <4>5. ScriptMade'
        <5>1. CASE session.name = b
          BY <4>1, <4>2, <4>3, <5>1 DEF MadeInv, ScriptMade
        <5>2. CASE session.name # b
          <6>1. out'[session.name] = out[session.name]
                /\ madeBy'[session.name] = madeBy[session.name]
            BY <1>0, <3>1, <4>1, <5>2 DEF TaskInv, MadeInv
          <6> QED BY <2>1, <4>2, <4>3, <6>1 DEF MadeInv, ScriptMade, Behind
        <5> QED BY <5>1, <5>2
      <4>6. VerifierIs'
        BY <2>1 DEF MadeInv, VerifierIs
      <4>7. VerifierMade'
        BY <2>1, <4>2, <4>3 DEF MadeInv, VerifierMade
      <4> QED BY <4>4, <4>5, <4>6, <4>7 DEF MadeInv
    <3> QED BY <3>2, <3>3
  <2>4. \/ UNCHANGED madeBy /\ (Passes \/ \E b \in Builders : Begins(b) \/ GoesWrong(b))
        \/ \E b \in Builders :
             Made(b)
               /\ madeBy' = IF R!Fresh(b) THEN madeBy ELSE [madeBy EXCEPT ![b] = Dir]
    BY <1>4, WorkedDisk DEF TaskInv
  <2> QED BY <2>2, <2>3, <2>4
<1>5. CASE NextSession
  <2>1. Past' = {} /\ UNCHANGED disk
    BY <1>5, PlanNextSession DEF NextSession
  <2> QED BY <2>1 DEF disk, MadeInv, VerifierIs, VerifierMade, ScriptMade
<1> QED BY <1>1, <1>2, <1>3, <1>4, <1>5, NextCases

(* Nothing made yet. *)
LEMMA MadeInit ==
  ASSUME Init
  PROVE  MadeInv
<1>1. /\ verifier = [file |-> 0, made |-> 0, by |-> ""] /\ Past = {}
      /\ madeBy = [b \in Builders |-> ""]
  BY PlanInit DEF Init, NoVerifier
<1>2. 0 \in Nat /\ 0 <= 0
  OBVIOUS
<1> QED BY <1>1, <1>2 DEF MadeInv, VerifierIs, VerifierMade, ScriptMade

(* The whole invariant. *)
DiskInv == OutputInv /\ CommandsFileInv /\ MadeInv

(* Nothing on disk. *)
LEMMA DiskInit == Init => DiskInv
BY OutputInit, FileInit, MadeInit DEF DiskInv

(* One step per part. *)
LEMMA DiskNext == DiskInv /\ [Next]_vars => DiskInv'
<1> SUFFICES ASSUME DiskInv, [Next]_vars PROVE DiskInv'
  OBVIOUS
<1>1. OutputInv'
  BY OutputNext DEF DiskInv
<1>2. CommandsFileInv' /\ MadeInv'
  BY FileNext, MadeNext DEF DiskInv, OutputInv, MainInv
<1> QED BY <1>1, <1>2 DEF DiskInv

(* Of every behaviour. *)
LEMMA DiskHolds == Spec => []DiskInv
BY DiskInit, DiskNext, PTL DEF Spec

(* After the plugin ran nothing of it is pending. *)
LEMMA FileIsCurrent ==
  ASSUME DiskInv
  PROVE  CompileCommandsCurrent
<1> SUFFICES ASSUME outcome = "ok", ~missed, Described \in build
             PROVE  \E c \in compile_commands :
                      c.of = Described => c.from = out[Described]
  BY DEF CompileCommandsCurrent
<1> USE DEF DiskInv, OutputInv, MainInv
<1>1. Left = {}
  BY DEF PlanInv, Left, ToSet
<1>2. Past = MainSteps(session)
  BY <1>1 DEF Past
<1>3. phase = "ok"
  BY <1>2, GenerateLast DEF PhaseInv
<1>4. R!Fresh(Described)
  BY <1>3, FreshAfter DEF RunsFresh
<1>5. out[Described] # {}
  BY <1>4 DEF R!Fresh, R!MadeNow
<1>6. Described \in Describables
  BY <1>2, GenerateLast, DescribedIs
<1>7. ~Pending(Described)
  BY <1>1 DEF Pending
<1> QED BY <1>5, <1>6, <1>7 DEF CommandsFileInv

(* A process that ends well leaves a compile_commands.json, and what it *)
(* says of the target of the process is of its output as it is, unless  *)
(* an earlier process ended before it wrote the file.                   *)
THEOREM CompileCommandsAreCurrent == Spec => []CompileCommandsCurrent
<1>1. DiskInv => CompileCommandsCurrent
  BY FileIsCurrent
<1> QED BY DiskHolds, <1>1, PTL

(* What is behind is made again before it is run. *)
LEMMA MadeByVerified ==
  ASSUME DiskInv
  PROVE  RunsMadeByVerified
<1> USE DEF DiskInv, OutputInv, MainInv
<1>1. ASSUME At("RunVerifier"), kVerifier \in session.writable
      PROVE  verifier.by = Dir
  <2>1. "RunVerifier" \in MainSteps(session)
    BY <1>1, AtIs
  <2>2. session.mode = "script"
    BY <2>1, ScriptStepsAre DEF ScriptSteps
  <2>3. RankOf("BuildVerifier") < RankOf("RunVerifier")
        /\ "BuildVerifier" \in MainSteps(session)
    BY <2>2, ScriptRanks DEF ScriptSteps
  <2>4. "BuildVerifier" \in Past
    BY <1>1, <2>3, AtIs
  <2> QED BY <1>1, <2>4 DEF MadeInv, VerifierMade
<1>2. ASSUME At("RunUserTarget"), kLibDirs \in session.writable
      PROVE  madeBy[session.name] = Dir
  <2>1. "RunUserTarget" \in MainSteps(session)
    BY <1>2, AtIs
  <2>2. session.mode = "script"
    BY <2>1, ScriptStepsAre DEF ScriptSteps
  <2>3. /\ RankOf("UserLibs") < RankOf("RunUserTarget")
        /\ "UserLibs" \in MainSteps(session)
        /\ RankOf("BuildUser") < RankOf("RunUserTarget")
        /\ "BuildUser" \in MainSteps(session)
    BY <2>2, ScriptRanks DEF ScriptSteps
  <2>4. "UserLibs" \in Past /\ "BuildUser" \in Past
    BY <1>2, <2>3, AtIs
  <2>5. "Run" \in Past
    BY <1>2, <2>1, RunIs, AtIs
  <2>6. phase = "ok"
    BY <1>2, <2>5 DEF PhaseInv, At
  <2>7. session.name \in build
    BY <2>4, BuildersAre DEF DoneInv
  <2>8. R!Fresh(session.name)
    BY <2>6, <2>7, FreshAfter DEF RunsFresh
  <2>9. \E o \in out[session.name] : o.own = ver[session.name]
    BY <2>8 DEF R!Fresh, R!MadeNow
  <2>10. ver[session.name] \in Nat
    BY BuildIn, VersionsAssumption DEF TaskInv
  <2>11. ~(ver[session.name] < ver[session.name])
    BY <2>10
  <2> QED BY <1>2, <2>4, <2>9, <2>11 DEF MadeInv, ScriptMade, Behind
<1> QED BY <1>1, <1>2 DEF RunsMadeByVerified

(* The verification program and the build script that buildexe runs were *)
(* made by the compilers this process verified, if it could write the    *)
(* source of the one and the header of the other.                        *)
THEOREM ProgramsRunAreMadeByVerified == Spec => []RunsMadeByVerified
<1>1. DiskInv => RunsMadeByVerified
  BY MadeByVerified
<1> QED BY DiskHolds, <1>1, PTL

-----------------------------------------------------------------------------
(* Lists. *)

(* A sequence over any set is a list. *)
LEMMA ListOf ==
  ASSUME NEW S, NEW s \in Seq(S)
  PROVE  IsList(s) /\ ToSet(s) \subseteq S
<1>1. PICK n \in Nat : s \in [1..n -> S]
  OBVIOUS
<1>2. s \in [1..n -> ToSet(s)]
  BY <1>1 DEF ToSet
<1>3. ToSet(s) \subseteq S
  BY <1>1 DEF ToSet
<1> QED BY <1>2, <1>3 DEF IsList

(* The empty list. *)
LEMMA EmptyList == IsList(<<>>) /\ ToSet(<<>>) = {}
BY DEF IsList, ToSet

(* One list after the other. *)
LEMMA Joined ==
  ASSUME NEW s, NEW t, IsList(s), IsList(t)
  PROVE  IsList(s \o t) /\ ToSet(s \o t) = ToSet(s) \cup ToSet(t)
<1> DEFINE S == ToSet(s) \cup ToSet(t)
<1>1. PICK n \in Nat : s \in [1..n -> ToSet(s)] /\ Len(s) = n
  BY DEF IsList
<1>2. PICK m \in Nat : t \in [1..m -> ToSet(t)] /\ Len(t) = m
  BY DEF IsList
<1>3. s \in Seq(S) /\ t \in Seq(S)
  BY <1>1, <1>2
<1> DEFINE u == s \o t
<1>4. u \in Seq(S) /\ Len(u) = n + m
  BY <1>1, <1>2, <1>3
<1>5. \A i \in 1..n : u[i] = s[i]
  BY <1>1, <1>2, <1>3
<1>6. \A i \in 1..m : u[n + i] = t[i] /\ n + i \in 1..(n + m)
  BY <1>1, <1>2, <1>3
<1>7. IsList(u) /\ ToSet(u) \subseteq S
  BY <1>4, ListOf
<1>8. DOMAIN u = 1..(n + m)
  BY <1>4
<1>9. ToSet(s) \subseteq ToSet(u)
  <2>1. ToSet(s) = {s[i] : i \in 1..n} /\ ToSet(u) = {u[i] : i \in 1..(n + m)}
    BY <1>1, <1>8 DEF ToSet
  <2> HIDE DEF u
  <2>2. \A i \in 1..n : i \in 1..(n + m)
    OBVIOUS
  <2> QED BY <1>5, <2>1, <2>2
<1>10. ToSet(t) \subseteq ToSet(u)
  <2>1. ToSet(t) = {t[i] : i \in 1..m} /\ ToSet(u) = {u[i] : i \in 1..(n + m)}
    BY <1>2, <1>8 DEF ToSet
  <2> HIDE DEF u
  <2> QED BY <1>6, <2>1
<1> QED BY <1>7, <1>9, <1>10

(* One element more. *)
LEMMA Added ==
  ASSUME NEW s, NEW x, IsList(s)
  PROVE  IsList(Append(s, x)) /\ ToSet(Append(s, x)) = ToSet(s) \cup {x}
<1>1. s \in Seq(ToSet(s) \cup {x})
  <2>1. PICK n \in Nat : s \in [1..n -> ToSet(s)]
    BY DEF IsList
  <2> QED BY <2>1
<1>2. <<x>> \in Seq({x}) /\ IsList(<<x>>) /\ ToSet(<<x>>) = {x}
  <2>1. <<x>> \in Seq({x})
    OBVIOUS
  <2>2. ToSet(<<x>>) = {x}
    BY DEF ToSet
  <2> QED BY <2>1, <2>2, ListOf
<1>3. Append(s, x) = s \o <<x>>
  BY <1>1
<1> QED BY <1>2, <1>3, Joined

(* Kept is all the steps of its fold. *)
LEMMA KeptIs ==
  ASSUME NEW s, NEW S, NEW n \in Nat, DOMAIN s = 1..n
  PROVE  \E it : /\ Takes(<<>>, s, S, "Kept", 1..n, it)
                 /\ Kept(s, S) = it[1..n]
<1> DEFINE C(it) == it = [d \in SUBSET (1..n) |->
         IF d = {} THEN <<>>
         ELSE IF s[Max(d)] \in S THEN Append(it[d \ {Max(d)}], s[Max(d)])
              ELSE it[d \ {Max(d)}]]
<1>1. \A it : C(it) <=> Takes(<<>>, s, S, "Kept", 1..n, it)
  BY DEF Takes, TakeField
<1>2. C(CHOOSE it : C(it))
  BY <1>1, TakesExists
<1>3. Kept(s, S) = (CHOOSE it : C(it))[1..n]
  BY DEF Kept, FoldLeft, MapThenFoldSet
<1> HIDE DEF C
<1> QED BY <1>1, <1>2, <1>3

(* Nothing else is kept: by least counterexample. *)
LEMMA KeptAre ==
  ASSUME NEW s, NEW S, IsList(s)
  PROVE  Kept(s, S) \in Seq(ToSet(s) \cap S)
<1> DEFINE K == ToSet(s) \cap S
<1>1. PICK L \in Nat : s \in [1..L -> ToSet(s)]
  BY DEF IsList
<1>2. DOMAIN s = 1..L
  BY <1>1
<1>3. PICK it : Takes(<<>>, s, S, "Kept", 1..L, it) /\ Kept(s, S) = it[1..L]
  BY <1>2, KeptIs
<1> DEFINE Bad == {n \in 0..L : it[1..n] \notin Seq(K)}
<1>4. SUFFICES ASSUME Bad # {} PROVE FALSE
  BY <1>3
<1>5. PICK n \in Bad : \A m \in Bad : n <= m
  <2>1. Bad \in SUBSET Nat
    OBVIOUS
  <2> HIDE DEF Bad
  <2> QED BY <1>4, <2>1, LeastNumber
<1>6. CASE n = 0
  <2>1. 1..n = {} /\ {} \in SUBSET (1..L)
    BY <1>6
  <2>2. it[1..n] = <<>>
    BY <1>3, <2>1 DEF Takes
  <2>3. <<>> \in Seq(K)
    OBVIOUS
  <2> QED BY <2>2, <2>3
<1>7. CASE n # 0
  <2>1. n - 1 \in Nat /\ n - 1 \notin Bad /\ n \in 1..L
    BY <1>5, <1>7
  <2>2. it[1..(n-1)] \in Seq(K)
    BY <2>1
  <2>3. 1..n \in SUBSET (1..L) /\ n \in 1..n /\ (1..n) \ {n} = 1..(n-1)
    BY <2>1
  <2>4. Max(1..n) = n
    BY <2>1, <2>3, MaxIs
  <2>5. it[1..n] = TakeField(it[1..(n-1)], s[n], S, "Kept")
    BY <1>3, <2>3, <2>4 DEF Takes
  <2>6. PICK k : k = it[1..(n-1)]
    OBVIOUS
  <2>7. it[1..n] = IF s[n] \in S THEN Append(k, s[n]) ELSE k
    BY <2>5, <2>6 DEF TakeField
  <2>8. s[n] \in ToSet(s)
    BY <1>1, <2>1
  <2>9. s[n] \in S => Append(k, s[n]) \in Seq(K)
    BY <2>2, <2>6, <2>8
  <2> QED BY <2>2, <2>6, <2>7, <2>9
<1> QED BY <1>6, <1>7

(* What the first n options of an Insert that copies leave: every field is a *)
(* list of what was there and, for an option, of what the other has.         *)
Inserted(pair, to, from, options, n) ==
  /\ pair = <<pair[1], from>>
  /\ IsUser(pair[1])
  /\ \A f \in Fields : IsList(pair[1][f]) /\ ToSet(to[f]) \subseteq ToSet(pair[1][f])
  /\ \A i \in 1..n : ToSet(from[options[i]]) \subseteq ToSet(pair[1][options[i]])
  /\ \A f \in Fields : (\A i \in 1..n : options[i] # f) => pair[1][f] = to[f]
  /\ \A i \in 1..n : (\A j \in 1..n : options[j] = options[i] => j = i)
       => pair[1][options[i]] = to[options[i]] \o from[options[i]]

(* A target whose fields are lists is a record of them. *)
LEMMA ListsIs == ASSUME NEW u, Lists(u)
                 PROVE  IsUser(u) /\ \A f \in Fields : IsList(u[f])
BY DEF Lists, IsUser

(* One more option. *)
LEMMA InsertedStep ==
  ASSUME NEW to, NEW from, NEW n \in Nat \ {0}, NEW options, NEW pair,
         \A i \in 1..n : options[i] \in Fields,
         Lists(from), Inserted(pair, to, from, options, n - 1)
  PROVE  Inserted(TakeField(pair, options[n], FALSE, "Insert"), to, from, options, n)
<1> DEFINE f == options[n]
           new == TakeField(pair, f, FALSE, "Insert")
<1>1. f \in Fields
  OBVIOUS
<1>2. /\ new = <<new[1], from>>
      /\ IsUser(new[1])
      /\ \A g \in Fields \ {f} : new[1][g] = pair[1][g]
      /\ new[1][f] = pair[1][f] \o from[f]
  <2>1. IsUser(pair[1]) /\ pair = <<pair[1], from>>
    BY DEF Inserted
  <2>2. pair[2] = from
    BY <2>1
  <2>3. new = <<[pair[1] EXCEPT ![f] = pair[1][f] \o from[f]], from>>
    BY <2>2 DEF TakeField, InsertField
  <2>4. PICK u : u = [pair[1] EXCEPT ![f] = pair[1][f] \o from[f]]
    OBVIOUS
  <2> HIDE DEF new
  <2>5. new = <<u, from>>
    BY <2>3, <2>4
  <2>5a. new[1] = u
    BY <2>5
  <2>6. DOMAIN pair[1] = Fields
    BY <2>1 DEF IsUser
  <2>7. u = [g \in Fields |-> u[g]]
    BY <2>4, <2>6
  <2> QED BY <1>1, <2>4, <2>5, <2>5a, <2>6, <2>7 DEF IsUser
<1> HIDE DEF new
<1>3. IsList(pair[1][f]) /\ IsList(from[f])
  BY <1>1 DEF Inserted, Lists
<1>4. IsList(new[1][f]) /\ ToSet(new[1][f]) = ToSet(pair[1][f]) \cup ToSet(from[f])
  BY <1>2, <1>3, Joined
<1>5. ASSUME NEW g \in Fields
      PROVE  IsList(new[1][g]) /\ ToSet(to[g]) \subseteq ToSet(new[1][g])
             /\ ToSet(pair[1][g]) \subseteq ToSet(new[1][g])
  BY <1>2, <1>4 DEF Inserted
<1>6. ASSUME NEW i \in 1..n
      PROVE  ToSet(from[options[i]]) \subseteq ToSet(new[1][options[i]])
  <2>1. CASE i = n
    BY <1>4, <2>1
  <2>2. CASE i # n
    <3>1. i \in 1..(n-1) /\ options[i] \in Fields
      BY <2>2
    <3>2. ToSet(from[options[i]]) \subseteq ToSet(pair[1][options[i]])
      BY <3>1 DEF Inserted
    <3> QED BY <1>5, <3>1, <3>2
  <2> QED BY <2>1, <2>2
<1>7. ASSUME NEW g \in Fields, \A i \in 1..n : options[i] # g
      PROVE  new[1][g] = to[g]
  <2>1. g # f /\ \A i \in 1..(n-1) : options[i] # g
    BY <1>7
  <2> QED BY <1>2, <2>1 DEF Inserted
<1>8. ASSUME NEW i \in 1..n, \A j \in 1..n : options[j] = options[i] => j = i
      PROVE  new[1][options[i]] = to[options[i]] \o from[options[i]]
  <2>1. CASE i = n
    <3>1. \A j \in 1..(n-1) : options[j] # f
      BY <1>8, <2>1
    <3>2. pair[1][f] = to[f]
      BY <1>1, <3>1 DEF Inserted
    <3> QED BY <1>2, <2>1, <3>2
  <2>2. CASE i # n
    <3>1. i \in 1..(n-1) /\ options[i] \in Fields \ {f}
      BY <1>8, <2>2
    <3>2. \A j \in 1..(n-1) : options[j] = options[i] => j = i
      BY <1>8
    <3>3. pair[1][options[i]] = to[options[i]] \o from[options[i]]
      BY <3>1, <3>2 DEF Inserted
    <3> QED BY <1>2, <3>1, <3>3
  <2> QED BY <2>1, <2>2
<1>9. Inserted(new, to, from, options, n)
  BY <1>2, <1>5, <1>6, <1>7, <1>8 DEF Inserted
<1> QED BY <1>9 DEF new

(* All the options, by least counterexample. *)
LEMMA InsertGives ==
  ASSUME NEW to, NEW from, NEW options \in Seq(Fields), Lists(to), Lists(from)
  PROVE  Inserted(Insert(to, from, options, FALSE), to, from, options, Len(options))
<1>1. PICK L \in Nat : L = Len(options) /\ options \in [1..L -> Fields]
  OBVIOUS
<1>2. DOMAIN options = 1..L
  BY <1>1
<1>0. PICK no : no = FALSE
  OBVIOUS
<1>3. PICK it : /\ Takes(<<to, from>>, options, no, "Insert", 1..L, it)
                /\ Insert(to, from, options, no) = it[1..L]
  BY <1>2, InsertIs
<1> DEFINE Bad == {n \in 0..L : ~Inserted(it[1..n], to, from, options, n)}
<1>4. SUFFICES ASSUME Bad # {} PROVE FALSE
  <2>1. SUFFICES ASSUME ~Inserted(Insert(to, from, options, FALSE), to, from,
                                  options, Len(options))
                 PROVE  L \in Bad
    OBVIOUS
  <2>2. L \in 0..L
    OBVIOUS
  <2>3. Insert(to, from, options, FALSE) = it[1..L]
    BY <1>0, <1>3
  <2> QED BY <1>1, <2>1, <2>2, <2>3
<1>5. PICK n \in Bad : \A m \in Bad : n <= m
  <2>1. Bad \in SUBSET Nat
    OBVIOUS
  <2> HIDE DEF Bad
  <2> QED BY <1>4, <2>1, LeastNumber
<1>6. CASE n = 0
  <2>1. 1..n = {} /\ {} \in SUBSET (1..L)
    BY <1>6
  <2>2. it[1..n] = <<to, from>>
    BY <1>3, <2>1 DEF Takes
  <2>3. Inserted(<<to, from>>, to, from, options, 0)
    <3>1. <<to, from>>[1] = to
      OBVIOUS
    <3>2. 1..0 = {}
      OBVIOUS
    <3> QED BY <3>1, <3>2, ListsIs DEF Inserted
  <2> QED BY <1>6, <2>2, <2>3
<1>7. CASE n # 0
  <2>1. n \in Nat \ {0} /\ n - 1 \in 0..L /\ n - 1 \notin Bad /\ n \in 1..L
    BY <1>5, <1>7
  <2>2. Inserted(it[1..(n-1)], to, from, options, n - 1)
    BY <2>1
  <2>3. 1..n \in SUBSET (1..L) /\ n \in 1..n /\ (1..n) \ {n} = 1..(n-1)
    BY <2>1
  <2>4. Max(1..n) = n
    BY <2>1, <2>3, MaxIs
  <2>5. it[1..n] = TakeField(it[1..(n-1)], options[n], FALSE, "Insert")
    BY <1>0, <1>3, <2>3, <2>4 DEF Takes
  <2>6. \A i \in 1..n : options[i] \in Fields
    BY <1>1, <2>1
  <2>7. Inserted(it[1..n], to, from, options, n)
    BY <2>1, <2>2, <2>5, <2>6, InsertedStep
  <2> QED BY <2>7
<1> QED BY <1>6, <1>7

-----------------------------------------------------------------------------
(* What a target is given. *)

(* What a target is given is put behind what it has, in some of its fields. *)
Grows(u, v, F) ==
  /\ Lists(v)
  /\ \A f \in Fields : ToSet(u[f]) \subseteq ToSet(v[f])
  /\ \A f \in Fields \ F : v[f] = u[f]

(* Nothing grew. *)
LEMMA GrowsStays == ASSUME NEW u, NEW F, Lists(u) PROVE Grows(u, u, F)
BY DEF Grows

(* And again. *)
LEMMA GrowsOn ==
  ASSUME NEW u, NEW v, NEW w, NEW F, NEW G, NEW H,
         Grows(u, v, F), Grows(v, w, G), F \cup G \subseteq H
  PROVE  Grows(u, w, H)
<1>1. Lists(w)
  BY DEF Grows
<1>2. \A f \in Fields : ToSet(u[f]) \subseteq ToSet(w[f])
  BY DEF Grows
<1>3. \A f \in Fields \ H : w[f] = u[f]
  BY DEF Grows
<1> QED BY <1>1, <1>2, <1>3 DEF Grows

(* One field set to what it was and more. *)
LEMMA FieldGrows ==
  ASSUME NEW u, NEW f \in Fields, NEW s, Lists(u), IsList(s),
         ToSet(u[f]) \subseteq ToSet(s)
  PROVE  Grows(u, [u EXCEPT ![f] = s], {f}) /\ [u EXCEPT ![f] = s][f] = s
<1> DEFINE v == [u EXCEPT ![f] = s]
<1>1. IsUser(u) /\ \A g \in Fields : IsList(u[g])
  BY ListsIs
<1>2. DOMAIN u = Fields
  BY <1>1 DEF IsUser
<1>3. v = [g \in Fields |-> v[g]] /\ v[f] = s /\ \A g \in Fields \ {f} : v[g] = u[g]
  BY <1>2
<1>4. \A g \in Fields : IsList(v[g]) /\ ToSet(u[g]) \subseteq ToSet(v[g])
  BY <1>1, <1>3
<1>5. Lists(v)
  BY <1>3, <1>4 DEF Lists
<1> QED BY <1>3, <1>4, <1>5 DEF Grows

(* Adding what another list has. *)
LEMMA AddAllGrows ==
  ASSUME NEW u, NEW f \in Fields, NEW values, Lists(u), IsList(values)
  PROVE  /\ Grows(u, AddAll(u, f, values), {f})
         /\ AddAll(u, f, values)[f] = u[f] \o values
<1> DEFINE s == u[f] \o values
           v == AddAll(u, f, values)
<1>1. IsList(u[f])
  BY ListsIs
<1>2. IsList(s) /\ ToSet(s) = ToSet(u[f]) \cup ToSet(values)
  BY <1>1, Joined
<1>3. v = [u EXCEPT ![f] = s]
  BY DEF AddAll
<1> HIDE DEF s, v
<1>4. ToSet(u[f]) \subseteq ToSet(s)
  BY <1>2
<1>5. Grows(u, v, {f}) /\ v[f] = s
  BY <1>2, <1>3, <1>4, FieldGrows
<1> QED BY <1>5 DEF s, v

(* Adding one value. *)
LEMMA AddGrows ==
  ASSUME NEW u, NEW f \in Fields, NEW value, Lists(u)
  PROVE  /\ Grows(u, Add(u, f, value), {f})
         /\ Add(u, f, value)[f] = Append(u[f], value)
<1> DEFINE s == Append(u[f], value)
           v == Add(u, f, value)
<1>1. IsList(u[f])
  BY ListsIs
<1>2. IsList(s) /\ ToSet(s) = ToSet(u[f]) \cup {value}
  BY <1>1, Added
<1>3. v = [u EXCEPT ![f] = s]
  BY DEF Add
<1> HIDE DEF s, v
<1>4. ToSet(u[f]) \subseteq ToSet(s)
  BY <1>2
<1>5. Grows(u, v, {f}) /\ v[f] = s
  BY <1>2, <1>3, <1>4, FieldGrows
<1> QED BY <1>5 DEF s, v

(* An Insert that copies. *)
LEMMA InsertGrows ==
  ASSUME NEW to, NEW from, NEW options \in Seq(Fields), NEW S, ToSet(options) = S,
         Lists(to), Lists(from)
  PROVE  /\ Grows(to, Insert(to, from, options, FALSE)[1], S)
         /\ \A f \in S : ToSet(from[f])
                           \subseteq ToSet(Insert(to, from, options, FALSE)[1][f])
<1> DEFINE pair == Insert(to, from, options, FALSE)
<1>1. PICK L \in Nat : L = Len(options) /\ options \in [1..L -> Fields]
  OBVIOUS
<1>2. S = {options[i] : i \in 1..L}
  BY <1>1 DEF ToSet
<1>3. Inserted(pair, to, from, options, L)
  BY <1>1, InsertGives
<1> HIDE DEF pair
<1>4. IsUser(pair[1]) /\ \A f \in Fields : IsList(pair[1][f])
        /\ ToSet(to[f]) \subseteq ToSet(pair[1][f])
  BY <1>3 DEF Inserted
<1>5. Lists(pair[1])
  BY <1>4 DEF Lists, IsUser
<1>6. \A f \in S : ToSet(from[f]) \subseteq ToSet(pair[1][f])
  BY <1>2, <1>3 DEF Inserted
<1>7. \A f \in Fields \ S : pair[1][f] = to[f]
  BY <1>2, <1>3 DEF Inserted
<1> QED BY <1>4, <1>5, <1>6, <1>7 DEF pair, Grows

(* A list with the positions of another. *)
LEMMA MappedList ==
  ASSUME NEW s, NEW g, IsList(s), g = [i \in DOMAIN s |-> g[i]]
  PROVE  IsList(g) /\ ToSet(g) = {g[i] : i \in DOMAIN s}
<1>1. PICK n \in Nat : s \in [1..n -> ToSet(s)]
  BY DEF IsList
<1>2. ToSet(g) = {g[i] : i \in DOMAIN s}
  BY DEF ToSet
<1>3. g \in [1..n -> ToSet(g)]
  BY <1>1, <1>2
<1> QED BY <1>2, <1>3 DEF IsList

(* A directory in front of those of a list. *)
LEMMA UnderList == ASSUME NEW root, NEW dirs, IsList(dirs)
                   PROVE  IsList(Under(root, dirs))
<1> DEFINE g == Under(root, dirs)
<1>1. g = [i \in DOMAIN dirs |-> g[i]]
  BY DEF Under
<1> HIDE DEF g
<1> QED BY <1>1, MappedList DEF g

(* Tuples are lists. *)
LEMMA TupleList ==
  ASSUME NEW s, NEW n \in Nat, s = [i \in 1..n |-> s[i]]
  PROVE  IsList(s)
<1>1. s \in [1..n -> ToSet(s)]
  BY DEF ToSet
<1> QED BY <1>1 DEF IsList

(* The lists that the callbacks write out. *)
LEMMA Tuples ==
  /\ \A a : IsList(<<a>>) /\ ToSet(<<a>>) = {a}
  /\ \A a, b : IsList(<<a, b>>) /\ ToSet(<<a, b>>) = {a, b}
<1>1. ASSUME NEW a PROVE IsList(<<a>>) /\ ToSet(<<a>>) = {a}
  <2>1. <<a>> \in Seq({a})
    OBVIOUS
  <2>2. ToSet(<<a>>) = {a}
    BY DEF ToSet
  <2> QED BY <2>1, <2>2, ListOf
<1>2. ASSUME NEW a, NEW b PROVE IsList(<<a, b>>) /\ ToSet(<<a, b>>) = {a, b}
  <2>1. <<a, b>> \in Seq({a, b})
    OBVIOUS
  <2>2. ToSet(<<a, b>>) = {a, b}
    <3>1. DOMAIN <<a, b>> = {1, 2}
      OBVIOUS
    <3> QED BY <3>1 DEF ToSet
  <2> QED BY <2>1, <2>2, ListOf
<1> QED BY <1>1, <1>2

(* And the directories they name. *)
LEMMA DirLists ==
  /\ \A name \in HeaderOnly : IsList(GlobbedDirs[name])
  /\ IsList(SourceDirs) /\ IsList(IncludeDirs) /\ IsList(HeaderDirs)
<1>1. IsList(NlohmannDirs) /\ IsList(FmtDirs) /\ IsList(SpdlogDirs)
  <2>1. NlohmannDirs = [i \in 1..9 |-> NlohmannDirs[i]]
    BY DEF NlohmannDirs
  <2>2. FmtDirs = [i \in 1..1 |-> FmtDirs[i]]
    BY DEF FmtDirs
  <2>3. SpdlogDirs = [i \in 1..5 |-> SpdlogDirs[i]]
    BY DEF SpdlogDirs
  <2> QED BY <2>1, <2>2, <2>3, TupleList
<1>2. IsList(CliDirs) /\ IsList(TaskflowDirs)
  <2>1. CliDirs = [i \in 1..1 |-> CliDirs[i]]
    BY DEF CliDirs
  <2>2. TaskflowDirs = [i \in 1..9 |-> TaskflowDirs[i]]
    BY DEF TaskflowDirs
  <2> QED BY <2>1, <2>2, TupleList
<1>3. IsList(SourceDirs) /\ IsList(IncludeDirs) /\ IsList(HeaderDirs)
  <2>1. SourceDirs = [i \in 1..15 |-> SourceDirs[i]]
    BY DEF SourceDirs
  <2>2. IncludeDirs = [i \in 1..9 |-> IncludeDirs[i]]
    BY DEF IncludeDirs
  <2>3. HeaderDirs = [i \in 1..16 |-> HeaderDirs[i]]
    BY DEF HeaderDirs
  <2> QED BY <2>1, <2>2, <2>3, TupleList
<1>4. \A name \in HeaderOnly : IsList(GlobbedDirs[name])
  BY <1>1, <1>2 DEF HeaderOnly, GlobbedDirs
<1> QED BY <1>3, <1>4

(* The fields by name. *)
LEMMA FieldNames ==
  /\ {"sources", "headers", "include_dirs", "libs", "external_libs"} \subseteq Fields
  /\ {"cpp_compile_flags", "preprocessor_flags", "link_flags"} \subseteq FlagFields
  /\ FlagFields \subseteq Fields
  /\ {"sources", "headers", "include_dirs", "libs", "external_libs"}
       \cap FlagFields = {}
BY DEF Fields, FlagFields, SourceApi, IncludeApi, LibApi

(* Files and directories under a root. *)
LEMMA UnderGrows ==
  ASSUME NEW u, NEW root, NEW dirs, Lists(u), IsList(dirs)
  PROVE  /\ Grows(u, GlobHeaders(u, root, dirs), {"headers"})
         /\ Grows(u, AddIncludeDirs(u, root, dirs), {"include_dirs"})
         /\ Grows(u, GlobSources(u, root, dirs), {"sources"})
         /\ AreSources(u.sources) => AreSources(GlobSources(u, root, dirs).sources)
<1>1. IsList(Under(root, dirs))
  BY UnderList
<1>2. "headers" \in Fields /\ "include_dirs" \in Fields /\ "sources" \in Fields
  BY FieldNames
<1>3. Grows(u, GlobHeaders(u, root, dirs), {"headers"})
  BY <1>1, <1>2, AddAllGrows DEF GlobHeaders
<1>4. Grows(u, AddIncludeDirs(u, root, dirs), {"include_dirs"})
  BY <1>1, <1>2, AddAllGrows DEF AddIncludeDirs
<1> DEFINE g == [i \in DOMAIN dirs |->
                   [dirs |-> <<root, dirs[i]>>, name |-> "*", ext |-> ".cpp"]]
<1>5. /\ g = [i \in DOMAIN dirs |-> g[i]]
      /\ \A i \in DOMAIN dirs : g[i].ext = ".cpp"
  OBVIOUS
<1>6. GlobSources(u, root, dirs) = AddAll(u, "sources", g)
  BY DEF GlobSources
<1> HIDE DEF g
<1>7. IsList(g) /\ ToSet(g) = {g[i] : i \in DOMAIN dirs}
  BY <1>5, MappedList
<1>8. /\ Grows(u, AddAll(u, "sources", g), {"sources"})
      /\ AddAll(u, "sources", g)["sources"] = u["sources"] \o g
  BY <1>2, <1>7, AddAllGrows
<1>9. IsList(u["sources"])
  BY <1>2, ListsIs
<1>10. ToSet(u["sources"] \o g) = ToSet(u["sources"]) \cup ToSet(g)
  BY <1>7, <1>9, Joined
<1>11. AreSources(g)
  BY <1>5, <1>7 DEF AreSources, IsValidSource, DefaultConfig
<1>12. AreSources(u.sources) => AreSources(AddAll(u, "sources", g).sources)
  BY <1>8, <1>10, <1>11 DEF AreSources
<1> QED BY <1>3, <1>4, <1>6, <1>8, <1>12

(* A header-only target is given its headers and where they are. *)
LEMMA HeaderOnlyGrows ==
  ASSUME NEW u, NEW name \in HeaderOnly, Lists(u)
  PROVE  Grows(u, HeaderOnlyCb(u, name), {"headers", "include_dirs"})
<1> DEFINE v == AddIncludeDirs(u, name, <<IncludeDir(name)>>)
<1>1. IsList(<<IncludeDir(name)>>)
  BY Tuples
<1>2. Grows(u, v, {"include_dirs"})
  BY <1>1, UnderGrows
<1>3. IsList(GlobbedDirs[name])
  BY DirLists
<1> HIDE DEF v
<1>4. Lists(v)
  BY <1>2 DEF Grows
<1>5. Grows(v, GlobHeaders(v, name, GlobbedDirs[name]), {"headers"})
  BY <1>3, <1>4, UnderGrows
<1>6. {"include_dirs"} \cup {"headers"} \subseteq {"headers", "include_dirs"}
  OBVIOUS
<1> QED BY <1>2, <1>5, <1>6, GrowsOn DEF HeaderOnlyCb, v

(* Flags only. *)
LEMMA FlagsGrow ==
  ASSUME NEW u, NEW t, Lists(u)
  PROVE  Grows(u, GlobalFlags(u, t), FlagFields)
<1>1. "cpp_compile_flags" \in Fields /\ "preprocessor_flags" \in Fields
  BY FieldNames
<1>2. CASE t.id \in {"Gcc", "MinGW"}
  <2> DEFINE s == <<"-std=c++17", "-Os", "-Wall", "-Wextra", "-Werror">>
  <2>1. s = [i \in 1..5 |-> s[i]]
    OBVIOUS
  <2>2. GlobalFlags(u, t) = AddAll(u, "cpp_compile_flags", s)
    BY <1>2 DEF GlobalFlags
  <2> HIDE DEF s
  <2>3. IsList(s)
    BY <2>1, TupleList
  <2>4. Grows(u, AddAll(u, "cpp_compile_flags", s), {"cpp_compile_flags"})
    BY <1>1, <2>3, AddAllGrows
  <2> QED BY <2>2, <2>4, FieldNames DEF Grows
<1>3. CASE t.id = "Msvc"
  <2> DEFINE s == <<"/std:c++17", "/Ot", "/W4", "/WX">>
             v == Add(u, "preprocessor_flags", "/D_CRT_SECURE_NO_WARNINGS")
  <2>1. s = [i \in 1..4 |-> s[i]]
    OBVIOUS
  <2>2. GlobalFlags(u, t) = AddAll(v, "cpp_compile_flags", s)
    BY <1>3 DEF GlobalFlags
  <2>3. Grows(u, v, {"preprocessor_flags"})
    BY <1>1, AddGrows
  <2> HIDE DEF s, v
  <2>4. IsList(s) /\ Lists(v)
    BY <2>1, <2>3, TupleList DEF Grows
  <2>5. Grows(v, AddAll(v, "cpp_compile_flags", s), {"cpp_compile_flags"})
    BY <1>1, <2>4, AddAllGrows
  <2>6. {"preprocessor_flags"} \cup {"cpp_compile_flags"} \subseteq FlagFields
    BY FieldNames
  <2> QED BY <2>2, <2>3, <2>5, <2>6, GrowsOn
<1>4. CASE t.id \notin {"Gcc", "MinGW", "Msvc"}
  <2>1. GlobalFlags(u, t) = u
    BY <1>4 DEF GlobalFlags
  <2> QED BY <2>1, GrowsStays
<1> QED BY <1>2, <1>3, <1>4

(* The files of the platform. *)
LEMMA PlatformGrows ==
  ASSUME NEW u, NEW t, NEW os, Lists(u)
  PROVE  Grows(u, PlatformFlags(u, t, os), FlagFields \cup {"external_libs"})
<1> DEFINE F == FlagFields \cup {"external_libs"}
<1>1. "external_libs" \in Fields /\ "preprocessor_flags" \in Fields
      /\ "link_flags" \in Fields
  BY FieldNames
<1>2. ASSUME NEW a, NEW b, NEW w, w = AddAll(u, "preprocessor_flags", <<a, b>>)
      PROVE  Grows(u, w, {"preprocessor_flags"}) /\ Lists(w)
  <2>1. IsList(<<a, b>>)
    BY Tuples
  <2>2. Grows(u, w, {"preprocessor_flags"})
    BY <1>1, <1>2, <2>1, AddAllGrows
  <2> QED BY <2>2 DEF Grows
<1>3. {"preprocessor_flags"} \cup {"link_flags"} \subseteq F
      /\ {"preprocessor_flags"} \cup {"external_libs"} \subseteq F
  BY FieldNames
<1>4. CASE os = "win" /\ t.id = "MinGW"
  <2> DEFINE w == AddAll(u, "preprocessor_flags",
               <<"-DFMT_HEADER_ONLY=1", "-DSPDLOG_FMT_EXTERNAL">>)
             x == Add(w, "link_flags", "-Wl,--allow-multiple-definition")
  <2>1. PlatformFlags(u, t, os) = x
    BY <1>4 DEF PlatformFlags
  <2>2. Grows(u, w, {"preprocessor_flags"}) /\ Lists(w)
    BY <1>2
  <2> HIDE DEF w
  <2>3. Grows(w, x, {"link_flags"})
    BY <1>1, <2>2, AddGrows
  <2> HIDE DEF x
  <2> QED BY <1>3, <2>1, <2>2, <2>3, GrowsOn
<1>5. CASE os = "win" /\ t.id = "Msvc"
  <2> DEFINE w == AddAll(u, "preprocessor_flags",
               <<"/DFMT_HEADER_ONLY=1", "/DSPDLOG_FMT_EXTERNAL">>)
  <2>1. PlatformFlags(u, t, os) = w
    BY <1>5 DEF PlatformFlags
  <2>2. Grows(u, w, {"preprocessor_flags"})
    BY <1>2
  <2> QED BY <1>3, <2>1, <2>2 DEF Grows
<1>6. CASE os = "linux" /\ t.id = "Gcc"
  <2> DEFINE w == AddAll(u, "preprocessor_flags",
               <<"-DFMT_HEADER_ONLY=1", "-DSPDLOG_FMT_EXTERNAL">>)
             x == Add(w, "external_libs", "-lpthread")
  <2>1. PlatformFlags(u, t, os) = x
    BY <1>6 DEF PlatformFlags
  <2>2. Grows(u, w, {"preprocessor_flags"}) /\ Lists(w)
    BY <1>2
  <2> HIDE DEF w
  <2>3. Grows(w, x, {"external_libs"})
    BY <1>1, <2>2, AddGrows
  <2> HIDE DEF x
  <2> QED BY <1>3, <2>1, <2>2, <2>3, GrowsOn
<1>7. CASE /\ ~(os = "win" /\ t.id = "MinGW") /\ ~(os = "win" /\ t.id = "Msvc")
           /\ ~(os = "linux" /\ t.id = "Gcc")
  <2>1. PlatformFlags(u, t, os) = u
    BY <1>7 DEF PlatformFlags
  <2> QED BY <2>1, GrowsStays
<1> QED BY <1>4, <1>5, <1>6, <1>7

(* The library that is linked: two sources more. *)
LEMMA TplGrows ==
  ASSUME NEW u, NEW os, Lists(u)
  PROVE  /\ Grows(u, TplCb(u, os), {"sources", "include_dirs", "headers"})
         /\ AreSources(u.sources) => AreSources(TplCb(u, os).sources)
<1>1. PICK other :
             other = TplSource(IF os = "win" THEN "process_win" ELSE "process_unix")
  OBVIOUS
<1> DEFINE s == <<TplSource("process"), other>>
           v == AddAll(u, "sources", s)
           w == AddIncludeDirs(v, "libtpl", <<"">>)
           x == Add(w, "headers", <<"libtpl", "process.hpp">>)
<1>2. TplCb(u, os) = x
  BY <1>1 DEF TplCb
<1>3. "sources" \in Fields /\ "headers" \in Fields /\ "include_dirs" \in Fields
  BY FieldNames
<1>4. IsList(s) /\ ToSet(s) = {TplSource("process"), other}
  BY Tuples
<1>5. AreSources(s)
  BY <1>1, <1>4 DEF AreSources, IsValidSource, DefaultConfig, TplSource
<1> HIDE DEF s
<1>6. Grows(u, v, {"sources"}) /\ v["sources"] = u["sources"] \o s
  BY <1>3, <1>4, AddAllGrows
<1> HIDE DEF v
<1>7. Lists(v) /\ IsList(<<"">>)
  BY <1>6, Tuples DEF Grows
<1>8. Grows(v, w, {"include_dirs"})
  BY <1>7, UnderGrows
<1> HIDE DEF w
<1>9. Lists(w)
  BY <1>8 DEF Grows
<1>10. Grows(w, x, {"headers"})
  BY <1>3, <1>9, AddGrows
<1> HIDE DEF x
<1>11. Grows(u, w, {"sources", "include_dirs"})
  BY <1>6, <1>8, GrowsOn
<1>12. Grows(u, x, {"sources", "include_dirs", "headers"})
  BY <1>10, <1>11, GrowsOn
<1>13. x["sources"] = v["sources"]
  BY <1>3, <1>8, <1>10 DEF Grows
<1>14. IsList(u["sources"])
  BY <1>3, ListsIs
<1>15. ToSet(v["sources"]) = ToSet(u["sources"]) \cup ToSet(s)
  BY <1>4, <1>6, <1>14, Joined
<1>16. AreSources(u.sources) => AreSources(x.sources)
  BY <1>5, <1>13, <1>15 DEF AreSources
<1> QED BY <1>2, <1>12, <1>16

-----------------------------------------------------------------------------
(* What libbuildcc is given. *)

(* What a library of the package takes from another one. *)
LEMMA TakenGrows ==
  ASSUME NEW u, NEW from, Lists(u), Lists(from)
  PROVE  LET v == Insert(u, from, kInsertOptions, FALSE)[1]
         IN /\ Grows(u, v, {"include_dirs", "headers"})
            /\ ToSet(from["include_dirs"]) \subseteq ToSet(v["include_dirs"])
            /\ ToSet(from["headers"]) \subseteq ToSet(v["headers"])
<1> DEFINE S == {"include_dirs", "headers"}
<1>1. kInsertOptions \in Seq(Fields)
  BY FieldNames DEF kInsertOptions
<1>2. ToSet(kInsertOptions) = S
  BY Tuples DEF kInsertOptions
<1>3. PICK options : options = kInsertOptions
  OBVIOUS
<1> DEFINE v == Insert(u, from, options, FALSE)[1]
<1>4. /\ Grows(u, v, S)
      /\ \A f \in S : ToSet(from[f]) \subseteq ToSet(v[f])
  BY <1>1, <1>2, <1>3, InsertGrows
<1> QED BY <1>3, <1>4

(* What the callback of buildcc does before it inserts. *)
Own(user) ==
  GlobHeaders(AddIncludeDirs(GlobSources(user, "buildcc", SourceDirs),
                             "buildcc", IncludeDirs),
              "buildcc", HeaderDirs)

(* libbuildcc is given files of its own. *)
LEMMA OwnGrows ==
  ASSUME NEW u, Lists(u)
  PROVE  /\ Grows(u, Own(u), {"sources", "include_dirs", "headers"})
         /\ AreSources(u.sources) => AreSources(Own(u).sources)
<1> DEFINE v == GlobSources(u, "buildcc", SourceDirs)
           w == AddIncludeDirs(v, "buildcc", IncludeDirs)
           x == GlobHeaders(w, "buildcc", HeaderDirs)
<1>1. Own(u) = x
  BY DEF Own
<1>2. /\ Grows(u, v, {"sources"})
      /\ AreSources(u.sources) => AreSources(v.sources)
  BY DirLists, UnderGrows
<1> HIDE DEF v
<1>3. Grows(v, w, {"include_dirs"})
  <2>1. Lists(v)
    BY <1>2 DEF Grows
  <2> QED BY <2>1, DirLists, UnderGrows
<1> HIDE DEF w
<1>4. Grows(w, x, {"headers"})
  <2>1. Lists(w)
    BY <1>3 DEF Grows
  <2> QED BY <2>1, DirLists, UnderGrows
<1> HIDE DEF x
<1>5. Grows(u, w, {"sources", "include_dirs"})
  BY <1>2, <1>3, GrowsOn
<1>6. Grows(u, x, {"sources", "include_dirs", "headers"})
  BY <1>4, <1>5, GrowsOn
<1>7. x["sources"] = v["sources"]
  BY <1>3, <1>4, FieldNames DEF Grows
<1> QED BY <1>1, <1>2, <1>6, <1>7

(* The library of the package that uses the others. *)
LEMMA BuildccGrows ==
  ASSUME NEW u, NEW infos, NEW t, NEW os, Lists(u),
         \A name \in HeaderOnly \cup {"libtpl"} : Lists(infos[name])
  PROVE  LET v == BuildccCb(u, infos, t, os)
         IN /\ Lists(v)
            /\ v["libs"] = Append(u["libs"], "libtpl")
            /\ AreSources(u.sources) => AreSources(v.sources)
            /\ ToSet(infos["libtpl"]["include_dirs"]) \subseteq ToSet(v["include_dirs"])
            /\ ToSet(infos["libtpl"]["headers"]) \subseteq ToSet(v["headers"])
<1> DEFINE Tk(to, name) == Insert(to, infos[name], kInsertOptions, FALSE)[1]
           IH == {"include_dirs", "headers"}
           a == Own(u)
           b == Tk(a, "nlohmann_json_ho")
           c == Tk(b, "fmtlib_ho")
           d == Tk(c, "spdlog_ho")
           e == Tk(d, "cli11_ho")
           f == Tk(e, "taskflow_ho")
           g == Add(f, "libs", "libtpl")
           h == Tk(g, "libtpl")
           v == PlatformFlags(h, t, os)
<1>1. BuildccCb(u, infos, t, os) = v
  BY DEF BuildccCb, Own
<1>2. ASSUME NEW to, NEW name \in HeaderOnly \cup {"libtpl"}, Lists(to)
      PROVE  /\ Grows(to, Tk(to, name), IH) /\ Lists(Tk(to, name))
             /\ ToSet(infos[name]["include_dirs"])
                  \subseteq ToSet(Tk(to, name)["include_dirs"])
             /\ ToSet(infos[name]["headers"]) \subseteq ToSet(Tk(to, name)["headers"])
  BY <1>2, TakenGrows DEF Grows
<1>3. {"nlohmann_json_ho", "fmtlib_ho", "spdlog_ho", "cli11_ho", "taskflow_ho"}
        = HeaderOnly
  BY DEF HeaderOnly
<1>4. ASSUME NEW x, NEW y, NEW z, Grows(x, y, IH), Grows(y, z, IH) PROVE Grows(x, z, IH)
  BY <1>4, GrowsOn
<1>5. /\ Grows(u, a, {"sources", "include_dirs", "headers"}) /\ Lists(a)
      /\ AreSources(u.sources) => AreSources(a.sources)
  BY OwnGrows DEF Grows
<1> HIDE DEF Tk, a, b, c, d, e, f, g, h, v, IH
<1>6. Grows(a, b, IH) /\ Lists(b)
  BY <1>2, <1>3, <1>5 DEF b
<1>7. Grows(b, c, IH) /\ Lists(c)
  BY <1>2, <1>3, <1>6 DEF c
<1>8. Grows(c, d, IH) /\ Lists(d)
  BY <1>2, <1>3, <1>7 DEF d
<1>9. Grows(d, e, IH) /\ Lists(e)
  BY <1>2, <1>3, <1>8 DEF e
<1>10. Grows(e, f, IH) /\ Lists(f)
  BY <1>2, <1>3, <1>9 DEF f
<1>11. Grows(a, f, IH)
  BY <1>4, <1>6, <1>7, <1>8, <1>9, <1>10
<1>12. "libs" \in Fields /\ "sources" \in Fields /\ "include_dirs" \in Fields
       /\ "headers" \in Fields
  BY FieldNames
<1>13. f["libs"] = u["libs"] /\ f["sources"] = a["sources"]
  BY <1>5, <1>11, <1>12 DEF Grows, IH
<1>14. Grows(f, g, {"libs"}) /\ g["libs"] = Append(f["libs"], "libtpl") /\ Lists(g)
  <2>1. Grows(f, Add(f, "libs", "libtpl"), {"libs"})
        /\ Add(f, "libs", "libtpl")["libs"] = Append(f["libs"], "libtpl")
    BY <1>10, <1>12, AddGrows
  <2>2. g = Add(f, "libs", "libtpl")
    BY DEF g
  <2>3. Grows(f, g, {"libs"}) /\ g["libs"] = Append(f["libs"], "libtpl")
    BY <2>1, <2>2
  <2> QED BY <2>3 DEF Grows
<1>15. /\ Grows(g, h, IH) /\ Lists(h)
       /\ ToSet(infos["libtpl"]["include_dirs"]) \subseteq ToSet(h["include_dirs"])
       /\ ToSet(infos["libtpl"]["headers"]) \subseteq ToSet(h["headers"])
  BY <1>2, <1>14 DEF h
<1>16. Grows(h, v, FlagFields \cup {"external_libs"})
  BY <1>15, PlatformGrows DEF v
<1>17. v["libs"] = h["libs"] /\ v["sources"] = h["sources"]
       /\ v["include_dirs"] = h["include_dirs"] /\ v["headers"] = h["headers"]
       /\ Lists(v)
  BY <1>16, FieldNames DEF Grows
<1>18. h["libs"] = g["libs"] /\ h["sources"] = g["sources"]
       /\ g["sources"] = f["sources"]
  BY <1>12, <1>14, <1>15 DEF Grows, IH
<1> QED BY <1>1, <1>5, <1>13, <1>14, <1>15, <1>17, <1>18

(* Targets as they are created. *)
LEMMA InfoIs ==
  ASSUME NEW t, \A f \in FlagFields : t.flags[f] = <<>>
  PROVE  IsGiven(TargetInfo(t)) /\ \A f \in Fields : TargetInfo(t)[f] = <<>>
<1>1. \A f \in Fields : TargetInfo(t)[f] = <<>>
  BY DEF TargetInfo
<1>2. TargetInfo(t) = [f \in Fields |-> TargetInfo(t)[f]]
  BY DEF TargetInfo
<1>3. Lists(TargetInfo(t))
  BY <1>1, <1>2, EmptyList DEF Lists
<1>4. TargetInfo(t)["sources"] = <<>>
  BY <1>1, FieldNames
<1>5. AreSources(TargetInfo(t).sources)
  BY <1>4, EmptyList DEF AreSources
<1> QED BY <1>1, <1>3, <1>5 DEF IsGiven

(* A new target has lists, and neither sources nor libraries. *)
LEMMA NewIsGiven ==
  ASSUME NEW ty, NEW t, \A f \in FlagFields : t.flags[f] = <<>>,
         NEW m \in SpecializedTarget(ty, t)
  PROVE  IsGiven(m) /\ m["libs"] = <<>> /\ m["external_libs"] = <<>>
<1> DEFINE info0 == TargetInfo(t)
<1>1. IsGiven(info0) /\ Lists(info0) /\ \A f \in Fields : info0[f] = <<>>
  BY InfoIs DEF IsGiven
<1>2. {"pch_object_flags", "common_compile_flags", "c_compile_flags",
       "cpp_compile_flags", "link_flags"} \subseteq Fields
  BY DEF Fields, FlagFields
<1> HIDE DEF info0
<1>3. ASSUME NEW u, Lists(u) PROVE Lists(DefaultGccOptions(u))
  <2>1. IsList(<<"-include pch", "-H">>)
    BY Tuples
  <2>2. Grows(u, DefaultGccOptions(u), {"pch_object_flags"})
    BY <1>2, <1>3, <2>1, AddAllGrows DEF DefaultGccOptions
  <2> QED BY <2>2 DEF Grows
<1>4. ASSUME m = GccTarget(ty, t) PROVE Lists(m)
  <2>1. CASE ty = "DynamicLibrary"
    <3>1. m = DefaultGccOptions(Add(info0, "common_compile_flags", "-fpic"))
      BY <1>4, <2>1 DEF GccTarget, info0
    <3>2. Grows(info0, Add(info0, "common_compile_flags", "-fpic"),
            {"common_compile_flags"})
      BY <1>1, <1>2, AddGrows
    <3> QED BY <1>3, <3>1, <3>2 DEF Grows
  <2>2. CASE ty # "DynamicLibrary"
    <3>1. m = DefaultGccOptions(info0)
      BY <1>4, <2>2 DEF GccTarget, info0
    <3> QED BY <1>1, <1>3, <3>1
  <2> QED BY <2>1, <2>2
<1>5. IsUser(m) /\ \A f \in Fields \ GenericOptions : m[f] = info0[f]
  BY SpecializedAre DEF info0
<1>6. ASSUME m = DefaultMsvcOptions(info0) PROVE Lists(m)
  <2> DEFINE c == <<"/nologo", "/EHsc">>
             p == <<"/Yu header", "/FI header", "/Fp pch">>
  <2>1. info0 = [f \in Fields |-> info0[f]] /\ \A f \in Fields : IsList(info0[f])
    BY <1>1 DEF Lists
  <2>2. /\ m["c_compile_flags"] = Append(info0["c_compile_flags"], "/nologo")
        /\ m["cpp_compile_flags"] = info0["cpp_compile_flags"] \o c
        /\ m["link_flags"] = Append(info0["link_flags"], "/nologo")
        /\ m["pch_object_flags"] = info0["pch_object_flags"] \o p
        /\ \A f \in Fields \ {"c_compile_flags", "cpp_compile_flags",
                             "link_flags", "pch_object_flags"} :
             m[f] = info0[f]
    BY <1>2, <1>6, <2>1 DEF DefaultMsvcOptions
  <2>3. p = [i \in 1..3 |-> p[i]]
    OBVIOUS
  <2> HIDE DEF p
  <2>4. IsList(c) /\ IsList(p)
    BY <2>3, Tuples, TupleList
  <2> HIDE DEF c
  <2>5. IsList(m["c_compile_flags"]) /\ IsList(m["link_flags"])
    BY <1>2, <2>1, <2>2, Added
  <2>6. IsList(m["cpp_compile_flags"]) /\ IsList(m["pch_object_flags"])
    BY <1>2, <2>1, <2>2, <2>4, Joined
  <2>7. \A f \in Fields : IsList(m[f])
    BY <2>1, <2>2, <2>5, <2>6
  <2> QED BY <1>5, <2>7 DEF Lists, IsUser
<1>7. m = GccTarget(ty, t) \/ m = DefaultMsvcOptions(info0)
  BY DEF SpecializedTarget, MingwTarget, MsvcTarget, info0
<1>8. Lists(m)
  BY <1>4, <1>6, <1>7
<1>9. {"sources", "libs", "external_libs"} \subseteq Fields \ GenericOptions
  BY DEF GenericOptions, ToSet, kGenericCopyOptions, Fields, SourceApi, LibApi
<1>10. m["sources"] = <<>> /\ m["libs"] = <<>> /\ m["external_libs"] = <<>>
  BY <1>1, <1>5, <1>9
<1>11. AreSources(m.sources)
  BY <1>10, EmptyList DEF AreSources
<1> QED BY <1>8, <1>10, <1>11 DEF IsGiven

-----------------------------------------------------------------------------
(* How far main has come with the targets. *)

(* The steps that come before another one, in every main that has both, and *)
(* those that every main has that has the other.                            *)
Precedes(x, y) ==
  {x, y} \subseteq MainSteps(session) => RankOf(x) < RankOf(y)

(* The steps that every main has that has another one. *)
Entails(x, y) == y \in MainSteps(session) => x \in MainSteps(session)

(* The steps after the verification of the toolchain that make commands. *)
Verifying == {"BuildVerifier", "BuildTpl", "BuildBuildcc", "BuildUser"}
(* The steps that need a toolchain. *)
Constructing == {"NewPackage", "NewUser", "HeaderOnly", "UserInputs", "UserInsert",
                 "UserLibs", "Verify"} \cup Verifying

(* The order of the steps on the targets. *)
LEMMA Order ==
  ASSUME session \in Sessions
  PROVE  /\ \A y \in Constructing :
              Precedes("ConstructToolchain", y) /\ Entails("ConstructToolchain", y)
         /\ \A y \in Verifying : Precedes("Verify", y) /\ Entails("Verify", y)
         /\ \A y \in {"HeaderOnly", "BuildTpl", "BuildBuildcc", "UserInsert"} :
              Precedes("NewPackage", y) /\ Entails("NewPackage", y)
         /\ Precedes("BuildTpl", "BuildBuildcc")
         /\ Precedes("BuildBuildcc", "UserInsert")
         /\ Entails("BuildBuildcc", "UserInsert")
         /\ \A y \in {"UserInputs", "UserInsert", "UserLibs", "BuildUser"} :
              Precedes("NewUser", y) /\ Entails("NewUser", y)
         /\ Precedes("UserInputs", "UserInsert")
         /\ Precedes("UserInsert", "UserLibs") /\ Entails("UserInsert", "UserLibs")
<1>1. session.mode \in {"bootstrap", "immediate", "script"}
  BY SessionIs DEF IsSession
<1> USE DEF Precedes, Entails, Constructing, Verifying, MainSteps, StartSteps,
      PackageSteps, RankOf, Rank
<1>2. CASE session.mode = "bootstrap"
  BY <1>2, BootRanks
<1>3. CASE session.mode = "immediate"
  BY <1>3, ExeRanks
<1>4. CASE session.mode = "script"
  BY <1>4, ExeRanks
<1> QED BY <1>1, <1>2, <1>3, <1>4

(* What comes before a step is done when the step is. *)
LEMMA PastOf ==
  ASSUME PlanInv, NEW x, NEW y, Precedes(x, y), Entails(x, y)
  PROVE  /\ At(y) => x \in Past
         /\ y \in Past => x \in Past
<1>1. ASSUME At(y) PROVE x \in Past
  BY <1>1, AtIs, Before DEF Precedes, Entails
<1>2. ASSUME y \in Past PROVE x \in Past
  <2>1. x \in MainSteps(session) /\ RankOf(x) < RankOf(y)
    BY <1>2 DEF Past, Precedes, Entails
  <2>2. x \in Left => RankOf(y) < RankOf(x)
    BY <1>2 DEF PlanInv
  <2> QED BY <2>1, <2>2, LessAsymmetric DEF Past, RankOf
<1> QED BY <1>1, <1>2

(* What comes after it is not. *)
LEMMA NotYet ==
  ASSUME PlanInv, NEW x, NEW y, Precedes(x, y), At(x)
  PROVE  y \notin Past
<1> SUFFICES ASSUME y \in Past PROVE FALSE
  OBVIOUS
<1>1. x \in MainSteps(session) /\ y \in MainSteps(session) /\ RankOf(y) < RankOf(x)
  BY AtIs DEF Past
<1> QED BY <1>1, LessAsymmetric DEF Precedes, RankOf

-----------------------------------------------------------------------------
(* What a step of main does to the toolchain, the targets and the commands. *)

(* New values over old ones. *)
IsOver(given, old, new) ==
  /\ DOMAIN new = DOMAIN given \cup DOMAIN old
  /\ \A n \in DOMAIN given : new[n] = given[n]
  /\ \A n \in DOMAIN old \ DOMAIN given : new[n] = old[n]

(* What a step of main does to the toolchain, the targets and the *)
(* commands.                                                      *)
Sets(step, given, made) ==
  /\ At(step) /\ Go /\ toolchain' = toolchain
  /\ IsOver(given, inputs, inputs') /\ IsOver(made, commands, commands')

(* Over is what IsOver says. *)
LEMMA OverIs ==
  ASSUME NEW given, NEW old
  PROVE  IsOver(given, old, Over(given, old))
BY DEF IsOver, Over, AddDefaultArguments

(* No values over old ones. *)
LEMMA OverNothing == ASSUME NEW old PROVE IsOver(<<>>, old, old)
BY DEF IsOver

(* A step of main that does nothing to them. *)
Quiet(step) ==
  /\ Sets(step, <<>>, <<>>)
  /\ Gives(step) = {} /\ Makes(step) = {}
  /\ step \notin {"ConstructToolchain", "Verify", "UserInsert"}

(* Main does not move, nor do they. *)
Still == Resting /\ UNCHANGED <<sessions, toolchain, inputs, commands>>

(* The steps that are quiet. *)
Quiets ==
  {"BuildccHome::Init", "Args::Init", "Parse", "Reg::Init", "Clean", "WriteVerifier",
   "RunVerifier", "DepBuildcc", "DepUser", "Run", "RunUserTarget", "Generate",
   "SaveGraph"}

(* So they are. *)
LEMMA QuietIs ==
  ASSUME NEW step \in Quiets, Do(step), Go, UNCHANGED <<toolchain, inputs, commands>>
  PROVE  Quiet(step)
<1>1. At(step)
  BY DEF Do
<1>2. IsOver(<<>>, inputs, inputs') /\ IsOver(<<>>, commands, commands')
  BY OverNothing
<1>3. Gives(step) = {} /\ Makes(step) = {}
  BY DEF Quiets, Gives, Makes
<1>4. step \notin {"ConstructToolchain", "Verify", "UserInsert"}
  BY DEF Quiets
<1> QED BY <1>1, <1>2, <1>3, <1>4 DEF Quiet, Sets

(* The steps that change the targets or the commands. *)
Changing ==
  \/ BuildVerifier \/ NewPackage \/ HeaderOnlyCbs \/ BuildTpl \/ BuildBuildcc
  \/ NewUser \/ UserInputs \/ UserInsert \/ UserLibs \/ UserLibsUnsaved \/ BuildUser

(* Every step is quiet, of the toolchain, one that changes the targets *)
(* or the commands, or none of main.                                   *)
LEMMA StepCases ==
  ASSUME Next
  PROVE  \/ \E step : Quiet(step)
         \/ ConstructToolchain \/ VerifyToolchain \/ Changing
         \/ Still \/ NextSession
<1>1. ASSUME NEW step \in {"BuildccHome::Init", "Args::Init", "Parse", "Reg::Init"},
             NEW what,
             Initialised(step, what)
      PROVE  Quiet(step)
  BY <1>1, QuietIs DEF Initialised, Quiets
<1>2. ASSUME NEW step \in {"RunVerifier", "RunUserTarget", "Generate", "SaveGraph"},
             Ran(step)
      PROVE  Quiet(step)
  BY <1>2, QuietIs DEF Ran, Quiets
<1>3. ASSUME NEW step \in {"DepBuildcc", "DepUser"}, Dep(step)
      PROVE  Quiet(step)
  BY <1>3, QuietIs DEF Dep, Quiets
<1>4. HomeInit \/ ArgsInit \/ Parse \/ RegInit => \E step : Quiet(step)
  BY <1>1 DEF HomeInit, ArgsInit, Parse, RegInit
<1>5. CleanCb => Quiet("Clean")
  BY QuietIs DEF CleanCb, Quiets
<1>6. WriteVerifier \/ WriteVerifierUnsaved => Quiet("WriteVerifier")
  BY QuietIs DEF WriteVerifier, WriteVerifierUnsaved, Ran, Quiets
<1>7. RunVerifier \/ RunUserTarget \/ GenerateNothing \/ SaveGraph
        => \E step : Quiet(step)
  BY <1>2 DEF RunVerifier, RunUserTarget, GenerateNothing, SaveGraph
<1>8. Run => Quiet("Run")
  BY QuietIs DEF Run, Quiets
<1>9. Generate => Quiet("Generate")
  BY QuietIs DEF Generate, Quiets
<1>10. Ended => Still
  BY EndedRests DEF Ended, Exit, Still
<1>11. Worked => Still
  BY WorkedRests DEF Worked, Executor, Finish, Running, process, Still
<1>12. CASE Setup
  <2>1. HomeMissing \/ LibsUnreadable \/ ParseFails \/ ToolchainRefused \/ VerifyFails
        \/ BuildVerifierFails \/ RunVerifierFails => Ended
    BY EndedCases
  <2> QED BY <1>4, <1>5, <1>6, <1>7, <1>10, <1>12, <2>1 DEF Setup, Changing
<1>13. CASE Targets
  <2>1. PackageRefused \/ UserRefused \/ UserInputsRefused => Ended
    BY EndedCases
  <2>2. Dep("DepBuildcc") \/ Dep("DepUser") => \E step : Quiet(step)
    BY <1>3
  <2> QED BY <1>10, <1>13, <2>1, <2>2 DEF Targets, Changing
<1>14. CASE RunAll
  <2>1. RunBuildFails \/ GenerateFails \/ SaveGraphFails => Ended
    BY EndedCases
  <2>2. Executor \/ (\E b \in Builders : Finish(b)) => Worked
    BY DEF Worked
  <2> QED BY <1>7, <1>8, <1>9, <1>10, <1>11, <1>14, <2>1, <2>2 DEF RunAll
<1>15. CASE Kill \/ \E step \in ToSet(Main(session)) : AssertionFails(step)
  BY <1>10, <1>15, EndedCases
<1> QED BY <1>12, <1>13, <1>14, <1>15 DEF Next, Process

-----------------------------------------------------------------------------
(* The toolchain. *)

(* The toolchain the command line asks for. *)
LEMMA FromArgsIs ==
  ASSUME NEW t \in FromArgs
  PROVE  IsHostToolchain(t) /\ FromArgs = {t}
<1> DEFINE made == Toolchain(session.id, "host", Given, DefaultConfig)
<1>1. FromArgs \subseteq {made}
  BY DEF FromArgs, New
<1>2. t = made /\ FromArgs = {t}
  BY <1>1
<1>3. PICK e : e = Given
  OBVIOUS
<1>4. \A tool \in Tools : DOMAIN e[tool] = {"dir", "name"}
  <2>1. ASSUME NEW a, NEW b, NEW c, NEW d, NEW f, NEW tool \in Tools
        PROVE  DOMAIN ToolchainExecutables(a, b, c, d, f)[tool] = {"dir", "name"}
    <3>1. \A x : DOMAIN Bare(x) = {"dir", "name"}
      BY DEF Bare
    <3>2. ToolchainExecutables(a, b, c, d, f)[tool]
            \in {Bare(a), Bare(b), Bare(c), Bare(d), Bare(f)}
      BY DEF ToolchainExecutables, Tools
    <3> QED BY <3>1, <3>2
  <2> QED BY <1>3, <2>1 DEF Given, MsvcExecutables, GnuExecutables
<1>5. PICK id : id = session.id
  OBVIOUS
<1>6. t = Initialize([id |-> id, name |-> "host", executables |-> e,
                      config |-> DefaultConfig, info_cb |-> "none",
                      flags |-> [f \in FlagFields |-> <<>>]])
  BY <1>2, <1>3, <1>5 DEF Toolchain
<1>7. PICK meta : meta = GlobalToolchainMetadata(id)
  OBVIOUS
<1>8. /\ t.id = id /\ t.executables = e /\ t.config = meta.config
      /\ t.flags = [f \in FlagFields |-> <<>>]
      /\ DOMAIN t = {"id", "name", "executables", "config", "info_cb", "flags"}
  BY <1>6, <1>7 DEF Initialize
<1>9. \A f \in FlagFields : t.flags[f] = <<>>
  BY <1>8
<1> QED BY <1>2, <1>4, <1>5, <1>7, <1>8, <1>9 DEF IsHostToolchain

(* The toolchain, verified: its executables are of a directory of the paths. *)
OfPaths(t) ==
  \E dir \in ToSet(session.paths) : \A tool \in Tools : t.executables[tool].dir = dir

(* A toolchain that is verified is the one it was, with the executables *)
(* of one of the paths.                                                 *)
LEMMA VerifyIs ==
  ASSUME NEW t, IsHostToolchain(t), IsList(session.paths),
         NEW v \in Verify(t, session.paths, Host, ExeExt, session.prompt)
  PROVE  /\ IsHostToolchain(v) /\ OfPaths(v)
         /\ Verify(t, session.paths, Host, ExeExt, session.prompt) = {v}
<1>1. PICK found : found = Find(t, session.paths, Host)
  OBVIOUS
<1> DEFINE exes == CreateToolchainExecutables(found[1], t.executables)
<1>2. /\ found # <<>>
      /\ v = [t EXCEPT !.executables = exes]
      /\ Verify(t, session.paths, Host, ExeExt, session.prompt) = {v}
  BY <1>1 DEF Verify
<1>3. PICK S :
        S = {d \in DOMAIN Host : ContainsToolchainExecutables(Host[d], t.executables)}
  OBVIOUS
<1>4. found \in Seq(ToSet(session.paths) \cap S)
  <2>1. found = Kept(session.paths, S)
    BY <1>1, <1>3 DEF Find
  <2> QED BY <2>1, KeptAre
<1>5. found[1] \in ToSet(session.paths)
  BY <1>2, <1>4
<1>6. \A tool \in Tools : DOMAIN t.executables[tool] = {"dir", "name"}
  BY DEF IsHostToolchain
<1>7. ASSUME NEW tool \in Tools
      PROVE  exes[tool].dir = found[1] /\ DOMAIN exes[tool] = {"dir", "name"}
  <2>1. exes[tool] = [t.executables[tool] EXCEPT !.dir = found[1]]
    BY DEF CreateToolchainExecutables
  <2> HIDE DEF exes
  <2> QED BY <1>6, <2>1
<1> HIDE DEF exes
<1>8. v.id = t.id /\ v.config = t.config /\ v.flags = t.flags /\ DOMAIN v = DOMAIN t
  BY <1>2
<1>9. v.executables = exes
  BY <1>2 DEF IsHostToolchain
<1> QED BY <1>2, <1>5, <1>7, <1>8, <1>9 DEF IsHostToolchain, OfPaths

(* The steps that change targets or commands leave the toolchain. *)
LEMMA ChangingIs ==
  ASSUME Changing
  PROVE  \E step \in Constructing \ {"Verify"} :
           At(step) /\ Go /\ toolchain' = toolchain
<1> USE DEF Do, Constructing, Verifying
<1>1. BuildVerifier => At("BuildVerifier") /\ Go /\ toolchain' = toolchain
  BY DEF BuildVerifier
<1>2. NewPackage => At("NewPackage") /\ Go /\ toolchain' = toolchain
  BY DEF NewPackage, Gave
<1>3. HeaderOnlyCbs => At("HeaderOnly") /\ Go /\ toolchain' = toolchain
  BY DEF HeaderOnlyCbs, Gave
<1>4. BuildTpl => At("BuildTpl") /\ Go /\ toolchain' = toolchain
  BY DEF BuildTpl, Build, Gave
<1>5. BuildBuildcc => At("BuildBuildcc") /\ Go /\ toolchain' = toolchain
  BY DEF BuildBuildcc, Build, Gave
<1>6. NewUser => At("NewUser") /\ Go /\ toolchain' = toolchain
  BY DEF NewUser, GaveUser, Gave
<1>7. UserInputs => At("UserInputs") /\ Go /\ toolchain' = toolchain
  BY DEF UserInputs, GaveUser, Gave
<1>8. UserInsert => At("UserInsert") /\ Go /\ toolchain' = toolchain
  BY DEF UserInsert, GaveUser, Gave
<1>9. UserLibs \/ UserLibsUnsaved => At("UserLibs") /\ Go /\ toolchain' = toolchain
  BY DEF UserLibs, UserLibsUnsaved, GaveUser, Gave
<1>10. BuildUser => At("BuildUser") /\ Go /\ toolchain' = toolchain
  BY DEF BuildUser, Build, Gave
<1> QED BY <1>1, <1>2, <1>3, <1>4, <1>5, <1>6, <1>7, <1>8, <1>9, <1>10 DEF Changing

(* The toolchain, when there is one. *)
LEMMA UniqueIs == ASSUME NEW t, toolchain = {t} PROVE T = t
BY DEF T, Unique

(* The toolchain stays, and how far main has come with it. *)
LEMMA ToolStays ==
  ASSUME ToolInv, toolchain' = toolchain, session' = session,
         "ConstructToolchain" \in Past' <=> "ConstructToolchain" \in Past,
         "Verify" \in Past' <=> "Verify" \in Past
  PROVE  ToolInv'
BY DEF ToolInv, IsHostToolchain

(* A step that is taken is of the past, in the same session. *)
LEMMA GoneOn ==
  ASSUME PlanInv, NEW step, At(step), Go
  PROVE  Past' = Past \cup {step} /\ session' = session
BY GoIs DEF Go

(* The toolchain is what it was constructed as, and of a directory of *)
(* the paths once it is verified.                                     *)
LEMMA ToolNext ==
  ASSUME PlanInv, ToolInv, [Next]_vars
  PROVE  ToolInv'
<1>1. CASE UNCHANGED vars
  BY <1>1, RestIs, ToolStays DEF vars, process, Resting
<1>2. ASSUME NEW step, Quiet(step) PROVE ToolInv'
  <2>1. /\ Past' = Past \cup {step} /\ session' = session /\ toolchain' = toolchain
        /\ step \notin {"ConstructToolchain", "Verify"}
    BY <1>2, GoneOn DEF Quiet, Sets
  <2> QED BY <2>1, ToolStays
<1>3. CASE Changing
  <2>1. PICK step \in Constructing \ {"Verify"} :
          At(step) /\ Go /\ toolchain' = toolchain
    BY <1>3, ChangingIs
  <2>2. Past' = Past \cup {step} /\ session' = session
    BY <2>1, GoneOn
  <2>3. step \notin {"ConstructToolchain", "Verify"}
    BY DEF Constructing, Verifying
  <2> QED BY <2>1, <2>2, <2>3, ToolStays
<1>4. CASE Still
  BY <1>4, RestIs, ToolStays DEF Still, Resting
<1>5. CASE NextSession
  <2>1. Past' = {} /\ toolchain' = {}
    BY <1>5, PlanNextSession DEF NextSession
  <2> QED BY <2>1 DEF ToolInv
<1>6. CASE ConstructToolchain
  <2>1. At("ConstructToolchain") /\ Go /\ toolchain' = FromArgs /\ toolchain' # {}
    BY <1>6 DEF ConstructToolchain, ToolchainIs, Do
  <2>2. Past' = Past \cup {"ConstructToolchain"} /\ session' = session
    BY <2>1, GoneOn
  <2>3. "Verify" \notin Past'
    BY <2>1, <2>2, NotYet, Order DEF PlanInv, Constructing
  <2>4. \A t \in FromArgs : IsHostToolchain(t) /\ FromArgs = {t}
    BY FromArgsIs
  <2> QED BY <2>1, <2>2, <2>3, <2>4 DEF ToolInv, IsHostToolchain
<1>7. CASE VerifyToolchain
  <2>1. At("Verify") /\ Go /\ toolchain' = Verified /\ toolchain' # {}
    BY <1>7 DEF VerifyToolchain, ToolchainIs, Do
  <2>2. Past' = Past \cup {"Verify"} /\ session' = session
    BY <2>1, GoneOn
  <2>3. "ConstructToolchain" \in Past
    BY <2>1, PastOf, Order DEF PlanInv, Constructing
  <2>4. PICK t : toolchain = {t} /\ IsHostToolchain(t)
    BY <2>3 DEF ToolInv
  <2>5. Verified = Verify(t, session.paths, Host, ExeExt, session.prompt)
    BY <2>4 DEF Verified
  <2>6. IsList(session.paths)
    BY SessionIs DEF PlanInv, IsSession
  <2>7. \A v \in Verified : IsHostToolchain(v) /\ OfPaths(v) /\ Verified = {v}
    BY <2>4, <2>5, <2>6, VerifyIs
  <2> QED BY <2>1, <2>2, <2>3, <2>7 DEF ToolInv, IsHostToolchain, OfPaths
<1> QED BY <1>1, <1>2, <1>3, <1>4, <1>5, <1>6, <1>7, StepCases

(* No toolchain at first. *)
LEMMA ToolInit == ASSUME Init PROVE ToolInv
BY PlanInit DEF Init, ToolInv

(* What the steps on the targets find. *)
LEMMA Constructed1 ==
  ASSUME PlanInv, ToolInv, NEW step \in Constructing, At(step)
  PROVE  IsHostToolchain(T) /\ toolchain = {T}
<1>1. "ConstructToolchain" \in Past
  BY PastOf, Order DEF PlanInv
<1>2. PICK t : toolchain = {t} /\ IsHostToolchain(t)
  BY <1>1 DEF ToolInv
<1> QED BY <1>2, UniqueIs

(* After the verification its executables are of one directory. *)
LEMMA VerifiedIs ==
  ASSUME PlanInv, ToolInv, NEW step \in Verifying, At(step)
  PROVE  "Verify" \in Past /\ \A tool \in Tools : T.executables[tool].dir = Dir
<1>1. "Verify" \in Past
  BY PastOf, Order DEF PlanInv
<1>2. toolchain = {T}
  BY Constructed1 DEF Constructing
<1>3. OfPaths(T)
  BY <1>1, <1>2 DEF ToolInv, OfPaths
<1> QED BY <1>1, <1>3 DEF OfPaths, Dir, Tools

-----------------------------------------------------------------------------
(* The commands. *)

(* The executables that every command has a value for. *)
ToolKeys == {"cpp_compiler", "archiver", "linker"}

(* Nothing that is given takes the place of an executable. *)
LEMMA ToolArguments ==
  ASSUME NEW u, NEW t, NEW more, NEW k \in ToolKeys
  PROVE  /\ AddDefaultArguments(PchArguments(u, t), more)[k] = t.executables[k]
         /\ k \in DOMAIN AddDefaultArguments(PchArguments(u, t), more)
<1> DEFINE mine == [f \in {"include_dirs", "lib_dirs", "preprocessor_flags",
                           "common_compile_flags", "link_flags"} |-> u[f]]
           tools == [asm_compiler |-> t.executables.assembler,
                     c_compiler |-> t.executables.c_compiler,
                     cpp_compiler |-> t.executables.cpp_compiler,
                     archiver |-> t.executables.archiver,
                     linker |-> t.executables.linker]
           d == DefaultArguments(u, t)
           p == PchArguments(u, t)
           a == AddDefaultArguments(p, more)
<1>1. k \in DOMAIN tools /\ tools[k] = t.executables[k] /\ k \notin DOMAIN mine
  BY DEF ToolKeys
<1>2. d = AddDefaultArguments(mine, tools)
  BY DEF DefaultArguments
<1> HIDE DEF mine, tools
<1>3. k \in DOMAIN d /\ d[k] = t.executables[k]
  BY <1>1, <1>2 DEF AddDefaultArguments
<1>4. PICK rest : p = AddDefaultArguments(d, rest)
  BY DEF PchArguments
<1> HIDE DEF d, p
<1>5. k \in DOMAIN p /\ p[k] = t.executables[k]
  BY <1>3, <1>4 DEF AddDefaultArguments
<1>6. k \in DOMAIN a /\ a[k] = t.executables[k]
  BY <1>5 DEF AddDefaultArguments
<1> QED BY <1>6 DEF p

(* A command whose own arguments name no other executable. *)
LEMMA CommandOfDir ==
  ASSUME NEW u, NEW t, NEW more, NEW pattern, NEW dir,
         \A tool \in Tools : t.executables[tool].dir = dir,
         "compiler" \in DOMAIN more => more["compiler"].dir = dir
  PROVE  OfDir(Construct(pattern, AddDefaultArguments(PchArguments(u, t), more)), dir)
<1> DEFINE p == PchArguments(u, t)
           a == AddDefaultArguments(p, more)
<1>1. \A k \in ToolKeys : a[k] = t.executables[k]
  BY ToolArguments
<1>2. ToolKeys \subseteq Tools
  BY DEF ToolKeys, Tools
<1>3. DOMAIN p = ArgumentKeys
  BY PchArgumentsAre
<1>4. "compiler" \notin ArgumentKeys
  BY DEF ArgumentKeys, DefaultKeys, UserKeys, PchKeys
<1> HIDE DEF p
<1>5. "compiler" \in DOMAIN a
        => "compiler" \in DOMAIN more /\ a["compiler"] = more["compiler"]
  BY <1>3, <1>4 DEF AddDefaultArguments
<1> HIDE DEF a
<1>6. ASSUME NEW c \in Construct(pattern, a), NEW k \in Executables \cap DOMAIN c
      PROVE  c[k].dir = dir
  <2>1. pattern \subseteq DOMAIN a /\ c = [x \in pattern |-> a[x]]
    BY <1>6 DEF Construct
  <2>2. k \in DOMAIN a /\ c[k] = a[k]
    BY <1>6, <2>1
  <2>3. CASE k \in ToolKeys
    BY <1>1, <1>2, <2>2, <2>3
  <2>4. CASE k = "compiler"
    BY <1>5, <2>2, <2>4
  <2> QED BY <1>6, <2>3, <2>4 DEF Executables, ToolKeys
<1> QED BY <1>6 DEF OfDir, a, p

(* The commands of a target, made with the executables of one directory. *)
MadeOf(made, dir) ==
  /\ OfDir(made.link, dir)
  /\ \A file \in DOMAIN made.objects : OfDir(made.objects[file], dir)

(* The commands of a target name the executables of the toolchain, and *)
(* select a compiler among them.                                       *)
LEMMA CommandsOfDir ==
  ASSUME NEW u, NEW t, NEW config, NEW dir, IsGiven(u), IsHostToolchain(t),
         \A tool \in Tools : t.executables[tool].dir = dir
  PROVE  MadeOf(Commands(u, t, config), dir)
<1> DEFINE made == Commands(u, t, config)
<1>1. OfDir(made.link, dir)
  <2>1. PICK more : /\ more = [output |-> config.target_ext,
                               compiled_sources |->
                                 {ConstructObjectPath(t, file) :
                                    file \in ToSet(u.sources)},
                               lib_deps |-> u.libs \o u.external_libs]
    OBVIOUS
  <2>2. made.link
          = Construct(config.link_command,
            AddDefaultArguments(PchArguments(u, t), more))
    BY <2>1 DEF Commands, LinkCommand
  <2>3. "compiler" \notin DOMAIN more
    BY <2>1
  <2> QED BY <2>2, <2>3, CommandOfDir
<1>2. DOMAIN made.objects = ToSet(u.sources)
  BY DEF Commands
<1>3. ASSUME NEW file \in ToSet(u.sources)
      PROVE  OfDir(made.objects[file], dir)
  <2>1. PICK type : type = GetFileExt(t.config, file.ext)
    OBVIOUS
  <2>2. type \in {"Asm", "C", "Cpp"}
    <3>1. IsValidSource(DefaultConfig, file.ext)
      BY <1>3 DEF IsGiven, AreSources
    <3>2. GetFileExt(DefaultConfig, file.ext) \in {"Asm", "C", "Cpp"}
      BY <3>1, SourceTypes
    <3>3. PICK ext : ext = file.ext
      OBVIOUS
    <3>4. GetFileExt(GlobalToolchainMetadata(t.id).config, ext)
            = GetFileExt(DefaultConfig, ext)
      BY ConfigsAgree
    <3> QED BY <2>1, <3>2, <3>3, <3>4 DEF IsHostToolchain
  <2>3. SelectCompiler(t, type).dir = dir
    BY <2>2 DEF SelectCompiler, Tools
  <2>4. PICK more : more = [compiler |-> SelectCompiler(t, type),
                            compile_flags |-> SelectCompileFlags(u, type),
                            output |-> ConstructObjectPath(t, file), input |-> file]
    OBVIOUS
  <2>5. made.objects[file]
          = Construct(config.compile_command,
            AddDefaultArguments(PchArguments(u, t), more))
    BY <1>3, <2>1, <2>4 DEF Commands, CompileCommand
  <2>6. "compiler" \in DOMAIN more /\ more["compiler"].dir = dir
    BY <2>3, <2>4
  <2> QED BY <2>5, <2>6, CommandOfDir
<1> QED BY <1>1, <1>2, <1>3 DEF MadeOf

-----------------------------------------------------------------------------
(* What is given and made. *)

(* Targets stay well given, whatever but sources they are given. *)
LEMMA GrowsGiven ==
  ASSUME NEW u, NEW v, NEW F, IsGiven(u), Grows(u, v, F), "sources" \notin F
  PROVE  IsGiven(v)
<1>1. v["sources"] = u["sources"]
  BY FieldNames DEF Grows
<1> QED BY <1>1 DEF IsGiven, Grows

(* A source that has a compiler. *)
LEMMA AddSource ==
  ASSUME NEW u, NEW file, IsGiven(u), IsValidSource(DefaultConfig, file.ext)
  PROVE  IsGiven(Add(u, "sources", file))
         /\ Grows(u, Add(u, "sources", file), {"sources"})
<1> DEFINE v == Add(u, "sources", file)
<1>1. Lists(u) /\ "sources" \in Fields /\ AreSources(u.sources)
  BY FieldNames DEF IsGiven
<1>2. Grows(u, v, {"sources"}) /\ v["sources"] = Append(u["sources"], file)
  BY <1>1, AddGrows
<1> HIDE DEF v
<1>3. IsList(u["sources"])
  BY <1>1, ListsIs
<1>4. ToSet(v["sources"]) = ToSet(u["sources"]) \cup {file}
  BY <1>2, <1>3, Added
<1>5. AreSources(v.sources)
  BY <1>1, <1>4 DEF AreSources
<1> QED BY <1>2, <1>5 DEF IsGiven, Grows, v

(* A value for another field. *)
LEMMA AddGiven ==
  ASSUME NEW u, NEW f \in Fields \ {"sources"}, NEW value, IsGiven(u)
  PROVE  IsGiven(Add(u, f, value)) /\ Grows(u, Add(u, f, value), {f})
         /\ Add(u, f, value)[f] = Append(u[f], value)
<1>1. Lists(u)
  BY DEF IsGiven
<1>2. Grows(u, Add(u, f, value), {f}) /\ Add(u, f, value)[f] = Append(u[f], value)
  BY <1>1, AddGrows
<1> QED BY <1>2, GrowsGiven

(* What a step gives and makes, all of it well. *)
TargetsInv == PlanInv /\ ToolInv /\ KeysInv /\ GivenInv

(* A step that gives and makes what is its to give and make. *)
Sound(step, given, made) ==
  /\ Sets(step, given, made)
  /\ Gives(step) \subseteq DOMAIN given
  /\ DOMAIN given \subseteq Gives(step) \cup DOMAIN inputs
  /\ DOMAIN made = Makes(step)
  /\ \A n \in DOMAIN given : IsGiven(given[n])
  /\ \A n \in DOMAIN made : MadeOf(made[n], Dir)
  /\ step \in Constructing

(* What Build stores for a target. *)
LEMMA CachedIs ==
  ASSUME TargetsInv, NEW step \in Verifying, At(step), NEW name, NEW user, NEW type,
         IsGiven(user), Cached(name, user, type)
  PROVE  \E made : /\ DOMAIN made = {name} /\ MadeOf(made[name], Dir)
                   /\ IsOver(made, commands, commands')
<1>1. PICK config :
             commands' = Over([n \in {name} |-> Commands(user, T, config)], commands)
  BY DEF Cached
<1>2. PICK e : e = Commands(user, T, config)
  OBVIOUS
<1> DEFINE made == [n \in {name} |-> e]
<1>3. commands' = Over(made, commands)
  BY <1>1, <1>2
<1>4. IsHostToolchain(T) /\ \A tool \in Tools : T.executables[tool].dir = Dir
  BY Constructed1, VerifiedIs DEF TargetsInv, Constructing
<1>5. MadeOf(e, Dir)
  BY <1>2, <1>4, CommandsOfDir
<1>6. DOMAIN made = {name} /\ made[name] = e
  OBVIOUS
<1> HIDE DEF made
<1>7. IsOver(made, commands, commands')
  BY <1>3, OverIs
<1> QED BY <1>5, <1>6, <1>7

(* What is given is given over what there was. *)
LEMMA GaveIs ==
  ASSUME NEW targets, NEW identifiers, Gave(targets, identifiers)
  PROVE  IsOver(targets, inputs, inputs') /\ toolchain' = toolchain
<1>1. inputs' = Over(targets, inputs) /\ toolchain' = toolchain
  BY DEF Gave
<1> QED BY <1>1, OverIs

(* What has been given. *)
LEMMA KeysAre ==
  ASSUME TargetsInv
  PROVE  /\ "NewPackage" \in Past
              => HeaderOnly \cup {"libtpl", "libbuildcc"} \subseteq DOMAIN inputs
         /\ "NewUser" \in Past => "user" \in DOMAIN inputs
         /\ \A n \in DOMAIN inputs : IsGiven(inputs[n])
BY DEF TargetsInv, KeysInv, GivenInv, Gives

(* A target, created. *)
LEMMA NewTargetIs ==
  ASSUME TargetsInv, NEW step \in Constructing, At(step), NEW type, NEW m,
         GenericTypeTarget(type, T) # {}, m = Unique(GenericTypeTarget(type, T))
  PROVE  IsGiven(m) /\ m["libs"] = <<>> /\ m["external_libs"] = <<>>
<1>1. m \in SpecializedTarget(type, T)
  BY GenericTypeIs DEF Unique
<1>2. \A f \in FlagFields : T.flags[f] = <<>>
  BY Constructed1 DEF TargetsInv, IsHostToolchain
<1> QED BY <1>1, <1>2, NewIsGiven

(* The verification program. *)
LEMMA BuildVerifierIs ==
  ASSUME TargetsInv, BuildVerifier
  PROVE  \E made : Sound("BuildVerifier", <<>>, made)
<1>1. At("BuildVerifier") /\ Go /\ toolchain' = toolchain /\ inputs' = inputs
  BY DEF BuildVerifier, Do
<1>2. "BuildVerifier" \in Verifying /\ "BuildVerifier" \in Constructing
  BY DEF Verifying, Constructing
<1>3. PICK target : target = Unique(GenericTypeTarget("Executable", T))
  OBVIOUS
<1>4. IsGiven(target)
  BY <1>1, <1>2, <1>3, NewTargetIs DEF BuildVerifier
<1>5. PICK source :
             source = [dirs |-> <<>>, name |-> "verify_host_toolchain", ext |-> ".cpp"]
  OBVIOUS
<1>6. PICK flag : flag = IF T.id = "Msvc" THEN "/std:c++17" ELSE "-std=c++17"
  OBVIOUS
<1>7. VerifierInputs = Add(Add(target, "sources", source), "cpp_compile_flags", flag)
  BY <1>3, <1>5, <1>6 DEF VerifierInputs
<1>8. IsGiven(Add(target, "sources", source))
  <2>1. IsValidSource(DefaultConfig, source.ext)
    BY <1>5 DEF IsValidSource, DefaultConfig
  <2> QED BY <1>4, <2>1, AddSource
<1>9. IsGiven(VerifierInputs)
  BY <1>7, <1>8, AddGiven, FieldNames
<1>10. PICK made : /\ DOMAIN made = {"verify"} /\ MadeOf(made["verify"], Dir)
                   /\ IsOver(made, commands, commands')
  BY <1>1, <1>2, <1>9, CachedIs DEF BuildVerifier
<1>11. IsOver(<<>>, inputs, inputs')
  BY <1>1, OverNothing
<1>12. Gives("BuildVerifier") = {} /\ Makes("BuildVerifier") = {"verify"}
  BY DEF Gives, Makes
<1>13. Sets("BuildVerifier", <<>>, made)
  BY <1>1, <1>10, <1>11 DEF Sets
<1>14. Sound("BuildVerifier", <<>>, made)
  BY <1>2, <1>10, <1>12, <1>13 DEF Sound
<1> QED BY <1>14

(* Steps that give targets and build none. *)
LEMMA GivesOnly ==
  ASSUME NEW step \in Constructing \ Verifying, At(step), Go,
         NEW given, NEW identifiers, Gave(given, identifiers), commands' = commands,
         Gives(step) \subseteq DOMAIN given,
         DOMAIN given \subseteq Gives(step) \cup DOMAIN inputs,
         \A n \in DOMAIN given : IsGiven(given[n])
  PROVE  Sound(step, given, <<>>)
<1>1. IsOver(given, inputs, inputs') /\ toolchain' = toolchain
  BY GaveIs
<1>2. IsOver(<<>>, commands, commands')
  BY OverNothing
<1>3. Makes(step) = {}
  BY DEF Constructing, Verifying, Makes
<1>4. Sets(step, given, <<>>)
  BY <1>1, <1>2 DEF Sets
<1> QED BY <1>3, <1>4 DEF Sound

(* The package, created. *)
LEMMA NewPackageIs ==
  ASSUME TargetsInv, NewPackage
  PROVE  \E given : /\ Sound("NewPackage", given, <<>>)
                    /\ {"libtpl", "libbuildcc"} \subseteq DOMAIN given
                    /\ given["libtpl"]["libs"] = <<>>
                    /\ given["libtpl"]["external_libs"] = <<>>
                    /\ given["libbuildcc"]["libs"] = <<>>
                    /\ "user" \notin DOMAIN given
<1>1. At("NewPackage") /\ Go /\ commands' = commands
      /\ GenericTypeTarget("StaticLibrary", T) # {}
  BY DEF NewPackage, Do
<1>2. "NewPackage" \in Constructing \ Verifying
  BY DEF Constructing, Verifying
<1>3. PICK m : m = Unique(GenericTypeTarget("StaticLibrary", T))
  OBVIOUS
<1>4. IsGiven(m) /\ m["libs"] = <<>> /\ m["external_libs"] = <<>>
  BY <1>1, <1>2, <1>3, NewTargetIs
<1>5. PICK info0 : info0 = TargetInfo(T)
  OBVIOUS
<1>6. IsGiven(info0)
  <2>1. \A f \in FlagFields : T.flags[f] = <<>>
    BY <1>1, <1>2, Constructed1 DEF TargetsInv, IsHostToolchain
  <2> QED BY <1>5, <2>1, InfoIs
<1> DEFINE given == [name \in HeaderOnly \cup {"libtpl", "libbuildcc"} |->
                       IF name \in HeaderOnly THEN info0 ELSE m]
<1>7. \E ids : Gave(given, ids)
  BY <1>3, <1>5 DEF NewPackage
<1>8. /\ DOMAIN given = HeaderOnly \cup {"libtpl", "libbuildcc"}
      /\ \A n \in DOMAIN given : IsGiven(given[n])
      /\ given["libtpl"] = m /\ given["libbuildcc"] = m
  BY <1>4, <1>6 DEF HeaderOnly
<1> HIDE DEF given
<1>9. Gives("NewPackage") = DOMAIN given
  BY <1>8 DEF Gives
<1>10. Sound("NewPackage", given, <<>>)
  BY <1>1, <1>2, <1>7, <1>8, <1>9, GivesOnly
<1>11. "user" \notin DOMAIN given
  BY <1>8 DEF HeaderOnly
<1> QED BY <1>4, <1>8, <1>10, <1>11

(* The header-only libraries. *)
LEMMA HeaderOnlyIs ==
  ASSUME TargetsInv, HeaderOnlyCbs
  PROVE  \E given : Sound("HeaderOnly", given, <<>>) /\ DOMAIN given = HeaderOnly
<1>1. At("HeaderOnly") /\ Go /\ commands' = commands
  BY DEF HeaderOnlyCbs, Do
<1>2. "HeaderOnly" \in Constructing \ Verifying
  BY DEF Constructing, Verifying
<1>3. "NewPackage" \in Past
  BY <1>1, PastOf, Order DEF TargetsInv, PlanInv
<1>4. HeaderOnly \subseteq DOMAIN inputs /\ \A n \in HeaderOnly : IsGiven(inputs[n])
  BY <1>3, KeysAre
<1> DEFINE given == [name \in HeaderOnly |-> HeaderOnlyCb(inputs[name], name)]
<1>5. Gave(given, {})
  BY DEF HeaderOnlyCbs
<1>6. ASSUME NEW n \in HeaderOnly PROVE IsGiven(given[n])
  <2>1. given[n] = HeaderOnlyCb(inputs[n], n)
    OBVIOUS
  <2> HIDE DEF given
  <2>2. Grows(inputs[n], given[n], {"headers", "include_dirs"})
    BY <1>4, <2>1, HeaderOnlyGrows DEF IsGiven
  <2> QED BY <1>4, <2>2, GrowsGiven
<1>7. DOMAIN given = HeaderOnly
  OBVIOUS
<1> HIDE DEF given
<1>8. Gives("HeaderOnly") = {}
  BY DEF Gives
<1>9. Sound("HeaderOnly", given, <<>>)
  BY <1>1, <1>2, <1>4, <1>5, <1>6, <1>7, <1>8, GivesOnly
<1> QED BY <1>7, <1>9

(* Steps that build a target, and give it what it is built with. *)
Builds(step, name, role, user, type) ==
  /\ step \in Verifying /\ At(step) /\ Build(step, name, role, user, type)
  /\ IsGiven(user) /\ role \in DOMAIN inputs
  /\ Gives(step) = {} /\ Makes(step) = {role}

(* What it gives. *)
BuildGives(step, role, user) ==
  \E given, made :
    Sound(step, given, made) /\ DOMAIN given = {role} /\ given[role] = user

(* So it does. *)
LEMMA BuildIs ==
  ASSUME TargetsInv, NEW step, NEW name, NEW role, NEW user, NEW type,
         Builds(step, name, role, user, type)
  PROVE  BuildGives(step, role, user)
<1>0. step \in Verifying /\ At(step) /\ IsGiven(user) /\ role \in DOMAIN inputs
      /\ Gives(step) = {} /\ Makes(step) = {role}
  BY DEF Builds
<1>1. Go /\ Gave([n \in {role} |-> user], {}) /\ Cached(role, user, type)
  BY DEF Builds, Build
<1> DEFINE given == [n \in {role} |-> user]
<1>2. DOMAIN given = {role} /\ given[role] = user
  OBVIOUS
<1>3. IsOver(given, inputs, inputs') /\ toolchain' = toolchain
  BY <1>1, GaveIs
<1> HIDE DEF given
<1>4. PICK made : /\ DOMAIN made = {role} /\ MadeOf(made[role], Dir)
                  /\ IsOver(made, commands, commands')
  BY <1>0, <1>1, CachedIs
<1>5. Sets(step, given, made)
  BY <1>0, <1>1, <1>3, <1>4 DEF Sets
<1>6. step \in Constructing
  BY <1>0 DEF Constructing
<1>7. Sound(step, given, made)
  BY <1>0, <1>2, <1>4, <1>5, <1>6 DEF Sound
<1> QED BY <1>2, <1>7 DEF BuildGives

(* libtpl keeps its libraries, of which it has none. *)
LEMMA BuildTplIs ==
  ASSUME TargetsInv, BuildTpl
  PROVE  \E given, made : /\ Sound("BuildTpl", given, made) /\ DOMAIN given = {"libtpl"}
                          /\ given["libtpl"]["libs"] = inputs["libtpl"]["libs"]
                          /\ given["libtpl"]["external_libs"]
                               = inputs["libtpl"]["external_libs"]
<1>1. At("BuildTpl") /\ "BuildTpl" \in Verifying
  BY DEF BuildTpl, Build, Do, Verifying
<1>2. "NewPackage" \in Past
  BY <1>1, PastOf, Order DEF TargetsInv, PlanInv
<1>3. "libtpl" \in DOMAIN inputs /\ IsGiven(inputs["libtpl"])
  BY <1>2, KeysAre
<1>4. PICK u : u = inputs["libtpl"]
  OBVIOUS
<1>5. PICK flagged : flagged = GlobalFlags(u, T)
  OBVIOUS
<1>6. PICK os : os = session.os
  OBVIOUS
<1>7. PICK user : user = TplCb(flagged, os)
  OBVIOUS
<1>8. Lists(u) /\ AreSources(u.sources)
  BY <1>3, <1>4 DEF IsGiven
<1>9. Grows(u, flagged, FlagFields)
  BY <1>5, <1>8, FlagsGrow
<1>10. IsGiven(flagged) /\ Lists(flagged) /\ AreSources(flagged.sources)
  BY <1>3, <1>4, <1>9, GrowsGiven, FieldNames DEF IsGiven
<1>11. /\ Grows(flagged, user, {"sources", "include_dirs", "headers"})
       /\ AreSources(user.sources)
  BY <1>7, <1>10, TplGrows
<1>12. IsGiven(user)
  BY <1>11 DEF IsGiven, Grows
<1>13. user["libs"] = u["libs"] /\ user["external_libs"] = u["external_libs"]
  BY <1>9, <1>11, FieldNames DEF Grows
<1>14. Build("BuildTpl", "libtpl", "libtpl", user, "StaticLibrary")
  BY <1>4, <1>5, <1>6, <1>7 DEF BuildTpl
<1>15. Gives("BuildTpl") = {} /\ Makes("BuildTpl") = {"libtpl"}
  BY DEF Gives, Makes
<1>16. \E given, made : /\ Sound("BuildTpl", given, made)
                        /\ DOMAIN given = {"libtpl"} /\ given["libtpl"] = user
  <2>1. Builds("BuildTpl", "libtpl", "libtpl", user, "StaticLibrary")
    BY <1>1, <1>3, <1>12, <1>14, <1>15 DEF Builds
  <2>2. BuildGives("BuildTpl", "libtpl", user)
    BY <2>1, BuildIs
  <2> QED BY <2>2 DEF BuildGives
<1> QED BY <1>4, <1>13, <1>16

(* libbuildcc links libtpl and has its headers. *)
LEMMA BuildBuildccIs ==
  ASSUME TargetsInv, BuildBuildcc
  PROVE  \E given, made :
           /\ Sound("BuildBuildcc", given, made) /\ DOMAIN given = {"libbuildcc"}
           /\ given["libbuildcc"]["libs"]
                = Append(inputs["libbuildcc"]["libs"], "libtpl")
           /\ ToSet(inputs["libtpl"]["include_dirs"])
                \subseteq ToSet(given["libbuildcc"]["include_dirs"])
           /\ ToSet(inputs["libtpl"]["headers"])
                \subseteq ToSet(given["libbuildcc"]["headers"])
<1>1. At("BuildBuildcc") /\ "BuildBuildcc" \in Verifying
  BY DEF BuildBuildcc, Build, Do, Verifying
<1>2. "NewPackage" \in Past
  BY <1>1, PastOf, Order DEF TargetsInv, PlanInv
<1>3. /\ "libbuildcc" \in DOMAIN inputs /\ IsGiven(inputs["libbuildcc"])
      /\ \A n \in HeaderOnly \cup {"libtpl"} : IsGiven(inputs[n])
  BY <1>2, KeysAre
<1>4. PICK u : u = inputs["libbuildcc"]
  OBVIOUS
<1>5. PICK flagged : flagged = GlobalFlags(u, T)
  OBVIOUS
<1>6. PICK os, t, infos : os = session.os /\ t = T /\ infos = inputs
  OBVIOUS
<1>7. PICK user : user = BuildccCb(flagged, infos, t, os)
  OBVIOUS
<1>8. Lists(u) /\ AreSources(u.sources)
  BY <1>3, <1>4 DEF IsGiven
<1>9. Grows(u, flagged, FlagFields)
  BY <1>5, <1>8, FlagsGrow
<1>10. IsGiven(flagged) /\ Lists(flagged) /\ AreSources(flagged.sources)
  BY <1>3, <1>4, <1>9, GrowsGiven, FieldNames DEF IsGiven
<1>11. \A n \in HeaderOnly \cup {"libtpl"} : Lists(infos[n])
  BY <1>3, <1>6 DEF IsGiven
<1>12. /\ Lists(user)
       /\ user["libs"] = Append(flagged["libs"], "libtpl")
       /\ AreSources(flagged.sources) => AreSources(user.sources)
       /\ ToSet(infos["libtpl"]["include_dirs"]) \subseteq ToSet(user["include_dirs"])
       /\ ToSet(infos["libtpl"]["headers"]) \subseteq ToSet(user["headers"])
  BY <1>7, <1>10, <1>11, BuildccGrows
<1>13. IsGiven(user)
  BY <1>10, <1>12 DEF IsGiven
<1>14. flagged["libs"] = u["libs"]
  BY <1>9, FieldNames DEF Grows
<1>15. Build("BuildBuildcc", "libbuildcc", "libbuildcc", user, "StaticLibrary")
  BY <1>4, <1>5, <1>6, <1>7 DEF BuildBuildcc
<1>16. Gives("BuildBuildcc") = {} /\ Makes("BuildBuildcc") = {"libbuildcc"}
  BY DEF Gives, Makes
<1>17. \E given, made : /\ Sound("BuildBuildcc", given, made)
                        /\ DOMAIN given = {"libbuildcc"} /\ given["libbuildcc"] = user
  <2>1. Builds("BuildBuildcc", "libbuildcc", "libbuildcc", user, "StaticLibrary")
    BY <1>1, <1>3, <1>13, <1>15, <1>16 DEF Builds
  <2>2. BuildGives("BuildBuildcc", "libbuildcc", user)
    BY <2>1, BuildIs
  <2> QED BY <2>2 DEF BuildGives
<1> QED BY <1>4, <1>6, <1>12, <1>14, <1>17

(* The steps on the target of the user. *)
UserSteps == {"NewUser", "UserInputs", "UserInsert", "UserLibs"}

(* What such a step does. *)
GetsUser(step, user) ==
  /\ step \in UserSteps /\ At(step) /\ Go /\ commands' = commands
  /\ \E identifiers : GaveUser(user, identifiers)
  /\ IsGiven(user)
  /\ step # "NewUser" => "user" \in DOMAIN inputs

(* What it gives. *)
UserGets(step, user) ==
  \E given : Sound(step, given, <<>>) /\ DOMAIN given = {"user"} /\ given["user"] = user

(* So it does. *)
LEMMA UserIs ==
  ASSUME TargetsInv, NEW step, NEW user, GetsUser(step, user)
  PROVE  UserGets(step, user)
<1> DEFINE given == [n \in {"user"} |-> user]
<1>1. PICK identifiers : Gave(given, identifiers)
  BY DEF GetsUser, GaveUser
<1>2. DOMAIN given = {"user"} /\ given["user"] = user
  OBVIOUS
<1> HIDE DEF given
<1>3. step \in Constructing \ Verifying /\ At(step) /\ Go /\ commands' = commands
  BY DEF GetsUser, UserSteps, Constructing, Verifying
<1>4. Gives(step) \subseteq DOMAIN given
      /\ DOMAIN given \subseteq Gives(step) \cup DOMAIN inputs
  BY <1>2 DEF GetsUser, UserSteps, Gives
<1>5. \A n \in DOMAIN given : IsGiven(given[n])
  BY <1>2 DEF GetsUser
<1>6. Sound(step, given, <<>>)
  BY <1>1, <1>3, <1>4, <1>5, GivesOnly
<1> QED BY <1>2, <1>6 DEF UserGets

(* The target is there. *)
LEMMA UserKnown ==
  ASSUME TargetsInv, NEW step \in {"UserInputs", "UserInsert", "UserLibs", "BuildUser"},
         At(step)
  PROVE  "user" \in DOMAIN inputs /\ IsGiven(inputs["user"])
<1>1. "NewUser" \in Past
  BY PastOf, Order DEF TargetsInv, PlanInv
<1> QED BY <1>1, KeysAre

(* It is created with no library. *)
LEMMA NewUserIs ==
  ASSUME TargetsInv, NewUser
  PROVE  \E user : UserGets("NewUser", user) /\ user["libs"] = <<>>
<1>1. At("NewUser") /\ Go /\ commands' = commands /\ NewTargets # {}
  BY DEF NewUser, Do
<1>2. PICK user : user = Unique(NewTargets)
  OBVIOUS
<1>3. PICK type : NewTargets = SpecializedTarget(type, T)
  BY GenericIs, GenericTypeIs DEF NewTargets
<1>4. user \in SpecializedTarget(type, T)
  BY <1>1, <1>2, <1>3 DEF Unique
<1>5. \A f \in FlagFields : T.flags[f] = <<>>
  BY <1>1, Constructed1 DEF TargetsInv, IsHostToolchain, Constructing
<1>6. IsGiven(user) /\ user["libs"] = <<>>
  BY <1>4, <1>5, NewIsGiven
<1>7. GetsUser("NewUser", user)
  BY <1>1, <1>2, <1>6 DEF GetsUser, UserSteps, NewUser
<1> QED BY <1>6, <1>7, UserIs

(* Toolchains agree on what a source is. *)
LEMMA SourcesAgree ==
  ASSUME TargetsInv, NEW step \in Constructing, At(step), NEW ext
  PROVE  IsValidSource(T.config, ext) = IsValidSource(DefaultConfig, ext)
<1>1. T.config = GlobalToolchainMetadata(T.id).config
  BY Constructed1 DEF TargetsInv, IsHostToolchain
<1>2. PICK id : id = T.id
  OBVIOUS
<1> QED BY <1>1, <1>2, ConfigsAgree

(* It is given what the command line lists, whose sources have been *)
(* accepted.                                                        *)
LEMMA UserInputsIs ==
  ASSUME TargetsInv, UserInputs
  PROVE  \E user : UserGets("UserInputs", user) /\ user["libs"] = inputs["user"]["libs"]
<1>1. At("UserInputs") /\ Go /\ commands' = commands /\ SourcesAccepted
  BY DEF UserInputs, Do
<1>2. "UserInputs" \in Constructing
  BY DEF Constructing
<1>3. PICK u : u = inputs["user"]
  OBVIOUS
<1>4. "user" \in DOMAIN inputs /\ IsGiven(u)
  BY <1>1, <1>3, UserKnown
<1>5. PICK asked : asked = session.given
  OBVIOUS
<1>6. "sources" \in DOMAIN asked /\ \A f \in DOMAIN asked : IsList(asked[f])
  BY <1>5, SessionIs DEF TargetsInv, PlanInv, IsSession
<1> DEFINE more == [f \in Fields |->
                      IF f \in GivenFields \cap DOMAIN asked THEN asked[f] ELSE <<>>]
           user == [f \in Fields |-> u[f] \o more[f]]
<1>7. user = UserTargetCb
  BY <1>3, <1>5 DEF UserTargetCb
<1>8. \A f \in Fields : IsList(more[f])
  BY <1>6, EmptyList
<1>9. \A f \in Fields : IsList(u[f])
  BY <1>4 DEF IsGiven, Lists
<1>10. user = [f \in Fields |-> user[f]] /\ \A f \in Fields : user[f] = u[f] \o more[f]
  OBVIOUS
<1>11. more["libs"] = <<>> /\ more["sources"] = asked["sources"]
  BY <1>6, FieldNames DEF GivenFields
<1> HIDE DEF user, more
<1>12. \A f \in Fields : IsList(user[f])
                           /\ ToSet(user[f]) = ToSet(u[f]) \cup ToSet(more[f])
  BY <1>8, <1>9, <1>10, Joined
<1>13. \A file \in ToSet(asked["sources"]) : IsValidSource(DefaultConfig, file.ext)
  <2>1. SUFFICES ASSUME NEW file \in ToSet(asked["sources"])
                 PROVE  IsValidSource(DefaultConfig, file.ext)
    OBVIOUS
  <2>2. Accepts(T, "sources", file)
    BY <1>1, <1>5, <2>1 DEF SourcesAccepted
  <2>3. IsValidSource(T.config, file.ext)
    BY <2>2 DEF Accepts
  <2>4. PICK ext : ext = file.ext
    OBVIOUS
  <2> QED BY <1>1, <1>2, <2>3, <2>4, SourcesAgree
<1>14. AreSources(user.sources)
  BY <1>4, <1>11, <1>12, <1>13, FieldNames DEF AreSources, IsGiven
<1>15. IsGiven(user)
  BY <1>10, <1>12, <1>14 DEF IsGiven, Lists
<1>16. user["libs"] = u["libs"]
  <2>1. user["libs"] = u["libs"] \o <<>>
    BY <1>10, <1>11, FieldNames
  <2>2. PICK s : s = u["libs"]
    OBVIOUS
  <2>3. IsList(s)
    BY <1>9, <2>2, FieldNames
  <2>4. s \o <<>> = s
    BY <2>3 DEF IsList
  <2> QED BY <2>1, <2>2, <2>4
<1>17. GetsUser("UserInputs", user)
  BY <1>1, <1>4, <1>7, <1>15 DEF GetsUser, UserSteps, UserInputs
<1> QED BY <1>3, <1>16, <1>17, UserIs

(* What the options of both programs insert. *)
TakesAll(x, from, y) ==
  /\ Grows(x, y, Fields \ {"sources"})
  /\ y["libs"] = x["libs"] \o from["libs"]
  /\ Passed(from, y)

(* The options that a user of the library takes from it. *)
Inherited ==
  {"preprocessor_flags", "cpp_compile_flags", "include_dirs", "link_flags",
   "headers", "libs", "external_libs"}

(* The options list each of them, and the libraries once. *)
ListsOnce(options, L, k) ==
  /\ options \in Seq(Inherited) /\ L = Len(options)
  /\ Inherited = {options[i] : i \in 1..L}
  /\ options[k] = "libs" /\ \A j \in 1..L : options[j] = "libs" => j = k

(* So do those of both programs. *)
LEMMA OptionsAre ==
  ASSUME NEW options \in {kScriptOptions, kHybridOptions}
  PROVE  \E L, k : L \in Nat /\ k \in 1..L /\ ListsOnce(options, L, k)
<1>1. CASE options = kScriptOptions
  <2>1. options \in Seq(Inherited) /\ Len(options) = 8
    BY <1>1 DEF kScriptOptions, Inherited
  <2>2. /\ Inherited = {options[i] : i \in 1..8}
        /\ options[7] = "libs" /\ \A j \in 1..8 : options[j] = "libs" => j = 7
    BY <1>1 DEF kScriptOptions, Inherited
  <2>3. 8 \in Nat /\ 7 \in 1..8 /\ ListsOnce(options, 8, 7)
    BY <2>1, <2>2 DEF ListsOnce
  <2> QED BY <2>3
<1>2. CASE options = kHybridOptions
  <2>1. options \in Seq(Inherited) /\ Len(options) = 7
    BY <1>2 DEF kHybridOptions, Inherited
  <2>2. /\ Inherited = {options[i] : i \in 1..7}
        /\ options[6] = "libs" /\ \A j \in 1..7 : options[j] = "libs" => j = 6
    BY <1>2 DEF kHybridOptions, Inherited
  <2>3. 7 \in Nat /\ 6 \in 1..7 /\ ListsOnce(options, 7, 6)
    BY <2>1, <2>2 DEF ListsOnce
  <2> QED BY <2>3
<1> QED BY <1>1, <1>2

(* What is inserted with them. *)
LEMMA WithBuildccGrows ==
  ASSUME NEW x, NEW from, NEW options \in {kScriptOptions, kHybridOptions},
         Lists(x), Lists(from), NEW y, y = Insert(x, from, options, FALSE)[1]
  PROVE  TakesAll(x, from, y)
<1>1. Inherited \subseteq Fields \ {"sources"}
  BY FieldNames DEF Inherited
<1>2. PICK L, k : L \in Nat /\ k \in 1..L /\ ListsOnce(options, L, k)
  BY OptionsAre
<1>3. options \in Seq(Fields)
  BY <1>1, <1>2 DEF ListsOnce
<1>4. ToSet(options) = Inherited
  BY <1>2 DEF ToSet, ListsOnce
<1> DEFINE pair == Insert(x, from, options, FALSE)
<1>5. /\ Grows(x, pair[1], Inherited)
      /\ \A f \in Inherited : ToSet(from[f]) \subseteq ToSet(pair[1][f])
  BY <1>3, <1>4, InsertGrows
<1>6. Inserted(pair, x, from, options, L)
  BY <1>2, <1>3, InsertGives DEF ListsOnce
<1> HIDE DEF pair
<1>7. pair[1]["libs"] = x["libs"] \o from["libs"]
  BY <1>2, <1>6 DEF Inserted, ListsOnce
<1>8. Grows(x, pair[1], Fields \ {"sources"})
  BY <1>1, <1>5 DEF Grows
<1>9. Passed(from, pair[1])
  BY <1>5 DEF Passed, Inherited
<1>10. TakesAll(x, from, pair[1])
  BY <1>7, <1>8, <1>9 DEF TakesAll
<1> QED BY <1>10 DEF pair

(* It is given libbuildcc and what that links and needs. *)
LEMMA UserInsertIs ==
  ASSUME TargetsInv, UserInsert
  PROVE  \E user : /\ UserGets("UserInsert", user)
                   /\ user["libs"] = Append(inputs["user"]["libs"], "libbuildcc")
                                       \o inputs["libbuildcc"]["libs"]
                   /\ Passed(inputs["libbuildcc"], user)
<1>1. At("UserInsert") /\ Go /\ commands' = commands
  BY DEF UserInsert, Do
<1>2. PICK u, from : u = inputs["user"] /\ from = inputs["libbuildcc"]
  OBVIOUS
<1>3. "user" \in DOMAIN inputs /\ IsGiven(u)
  BY <1>1, <1>2, UserKnown
<1>4. IsGiven(from)
  <2>1. "NewPackage" \in Past
    BY <1>1, PastOf, Order DEF TargetsInv, PlanInv
  <2> QED BY <1>2, <2>1, KeysAre
<1>5. PICK x : x = Add(u, "libs", "libbuildcc")
  OBVIOUS
<1>6. IsGiven(x) /\ x["libs"] = Append(u["libs"], "libbuildcc")
  BY <1>3, <1>5, AddGiven, FieldNames
<1> DEFINE Links(y) == /\ IsGiven(y)
                       /\ y["libs"] = Append(u["libs"], "libbuildcc") \o from["libs"]
                       /\ Passed(from, y)
<1>7. ASSUME NEW options \in {kScriptOptions, kHybridOptions}
      PROVE  Links(WithBuildcc(u, options))
  <2>1. PICK y : y = Insert(x, from, options, FALSE)[1]
    OBVIOUS
  <2>2. WithBuildcc(u, options) = y
    BY <1>2, <1>5, <2>1 DEF WithBuildcc
  <2>3. TakesAll(x, from, y)
    BY <1>4, <1>6, <2>1, WithBuildccGrows DEF IsGiven
  <2>4. IsGiven(y)
    BY <1>6, <2>3, GrowsGiven DEF TakesAll
  <2> QED BY <1>6, <2>2, <2>3, <2>4 DEF TakesAll
<1>8. ASSUME NEW y, NEW z, NEW F, Links(y), IsGiven(z), Grows(y, z, F),
             F \subseteq Fields \ {"libs"}
      PROVE  Links(z)
  <2>1. z["libs"] = y["libs"]
    BY <1>8, FieldNames DEF Grows
  <2>2. Passed(from, z)
    BY <1>8, FieldNames DEF Grows, Passed
  <2> QED BY <1>8, <2>1, <2>2
<1>9. PICK user : user = UserWithBuildcc
  OBVIOUS
<1>10. Links(user)
  <2>1. CASE session.mode = "bootstrap"
    <3>1. PICK y : y = WithBuildcc(u, kHybridOptions)
      OBVIOUS
    <3>2. PICK source : source = [dirs |-> <<>>, name |-> "build", ext |-> ".cpp"]
      OBVIOUS
    <3>3. user = Add(y, "sources", source)
      BY <1>2, <1>9, <2>1, <3>1, <3>2 DEF UserWithBuildcc
    <3>4. IsValidSource(DefaultConfig, source.ext)
      BY <3>2 DEF IsValidSource, DefaultConfig
    <3>5. Links(y)
      BY <1>7, <3>1
    <3> HIDE DEF Links
    <3>6. IsGiven(y)
      BY <3>5 DEF Links
    <3>7. IsGiven(user) /\ Grows(y, user, {"sources"})
      BY <3>3, <3>4, <3>6, AddSource
    <3> QED BY <1>8, <3>5, <3>7, FieldNames
  <2>2. CASE session.mode # "bootstrap" /\ T.id = "MinGW"
    <3>1. PICK y : y = WithBuildcc(u, kScriptOptions)
      OBVIOUS
    <3>2. user = Add(y, "link_flags", "-Wl,--allow-multiple-definition")
      BY <1>2, <1>9, <2>2, <3>1 DEF UserWithBuildcc
    <3>3. Links(y)
      BY <1>7, <3>1
    <3> HIDE DEF Links
    <3>4. IsGiven(y)
      BY <3>3 DEF Links
    <3>5. IsGiven(user) /\ Grows(y, user, {"link_flags"})
      BY <3>2, <3>4, AddGiven, FieldNames
    <3> QED BY <1>8, <3>3, <3>5, FieldNames
  <2>3. CASE session.mode # "bootstrap" /\ T.id # "MinGW"
    <3>1. user = WithBuildcc(u, kScriptOptions)
      BY <1>2, <1>9, <2>3 DEF UserWithBuildcc
    <3> QED BY <1>7, <3>1
  <2> QED BY <2>1, <2>2, <2>3
<1>11. GetsUser("UserInsert", user)
  BY <1>1, <1>3, <1>9, <1>10 DEF GetsUser, UserSteps, UserInsert
<1> QED BY <1>2, <1>10, <1>11, UserIs

(* It is given files of the libraries in BUILDCC_HOME, and keeps what it *)
(* links.                                                                *)
LEMMA UserLibsIs ==
  ASSUME TargetsInv, UserLibs \/ UserLibsUnsaved
  PROVE  \E user : /\ UserGets("UserLibs", user)
                   /\ user["libs"] = inputs["user"]["libs"]
                   /\ Passed(inputs["user"], user)
<1>1. At("UserLibs") /\ Go /\ commands' = commands
  BY DEF UserLibs, UserLibsUnsaved, Do
<1>2. PICK u : u = inputs["user"]
  OBVIOUS
<1>3. "user" \in DOMAIN inputs /\ IsGiven(u)
  BY <1>1, <1>2, UserKnown
<1>4. PICK lib_files : lib_files = session.lib_files
  OBVIOUS
<1>5. IsList(lib_files)
  BY <1>4, SessionIs DEF TargetsInv, PlanInv, IsSession
<1>6. PICK C, H : /\ C = {file \in ToSet(lib_files) : IsValidSource(T.config, file.ext)}
                  /\ H = {file \in ToSet(lib_files) : IsValidHeader(T.config, file.ext)}
  OBVIOUS
<1>7. PICK sources, headers :
        sources = Kept(lib_files, C) /\ headers = Kept(lib_files, H)
  OBVIOUS
<1>8. /\ IsList(sources) /\ ToSet(sources) \subseteq C
      /\ IsList(headers)
  <2>1. sources \in Seq(ToSet(lib_files) \cap C)
    BY <1>5, <1>7, KeptAre
  <2>2. headers \in Seq(ToSet(lib_files) \cap H)
    BY <1>5, <1>7, KeptAre
  <2>3. IsList(sources) /\ ToSet(sources) \subseteq ToSet(lib_files) \cap C
    BY <2>1, ListOf
  <2> QED BY <2>2, <2>3, ListOf
<1>9. PICK dirs : dirs = [i \in DOMAIN headers |-> headers[i].dirs]
  OBVIOUS
<1>10. IsList(dirs)
  <2>1. dirs = [i \in DOMAIN headers |-> dirs[i]]
    BY <1>9
  <2> QED BY <1>8, <2>1, MappedList
<1>11. PICK listed : GaveUser(UserTargetWithLibs(listed), {})
  BY DEF UserLibs, UserLibsUnsaved
<1>12. PICK user : user = UserTargetWithLibs(listed)
  OBVIOUS
<1> DEFINE header == <<"script", kLibDirs>>
<1>25. PICK dir, lists :
         /\ dir = <<"script", "">>
         /\ lists = IF session.name \in listed THEN <<header>> ELSE <<>>
  OBVIOUS
<1>26. IsList(lists)
  <2>1. PICK h : h = header
    OBVIOUS
  <2>2. <<h>> \in Seq({h}) /\ <<>> \in Seq({h})
    OBVIOUS
  <2>3. lists \in Seq({h})
    BY <1>25, <2>1, <2>2
  <2> QED BY <2>3, ListOf
<1>13. user = [u EXCEPT !.include_dirs = Append(@, dir) \o dirs,
                        !.headers = @ \o lists \o headers,
                        !.sources = @ \o sources]
  BY <1>2, <1>4, <1>6, <1>7, <1>9, <1>12, <1>25 DEF UserTargetWithLibs
<1>14. u = [f \in Fields |-> u[f]] /\ \A f \in Fields : IsList(u[f])
  BY <1>3 DEF IsGiven, Lists
<1> DEFINE Set == {"include_dirs", "headers", "sources"}
<1>15. /\ user = [f \in Fields |-> user[f]]
       /\ \A f \in Fields \ Set : user[f] = u[f]
       /\ user["include_dirs"] = Append(u["include_dirs"], dir) \o dirs
       /\ user["headers"] = u["headers"] \o lists \o headers
       /\ user["sources"] = u["sources"] \o sources
  BY <1>13, <1>14, FieldNames
<1>16. ASSUME NEW f \in Fields, NEW s, NEW more, IsList(s), IsList(more),
              ToSet(u[f]) \subseteq ToSet(s), user[f] = s \o more
       PROVE  IsList(user[f]) /\ ToSet(u[f]) \subseteq ToSet(user[f])
  <2>1. IsList(s \o more) /\ ToSet(s \o more) = ToSet(s) \cup ToSet(more)
    BY <1>16, Joined
  <2> QED BY <1>16, <2>1
<1>17. IsList(user["include_dirs"])
       /\ ToSet(u["include_dirs"]) \subseteq ToSet(user["include_dirs"])
  <2>1. PICK s : s = Append(u["include_dirs"], dir)
    OBVIOUS
  <2>2. "include_dirs" \in Fields /\ IsList(u["include_dirs"])
    BY <1>14, FieldNames
  <2>3. IsList(s) /\ ToSet(s) = ToSet(u["include_dirs"]) \cup {dir}
    BY <2>1, <2>2, Added
  <2> QED BY <1>10, <1>15, <1>16, <2>1, <2>2, <2>3
<1>18. IsList(user["headers"]) /\ ToSet(u["headers"]) \subseteq ToSet(user["headers"])
  <2>1. PICK s : s = u["headers"] \o lists
    OBVIOUS
  <2>2. "headers" \in Fields /\ IsList(u["headers"])
    BY <1>14, FieldNames
  <2>3. IsList(s) /\ ToSet(s) = ToSet(u["headers"]) \cup ToSet(lists)
    BY <1>26, <2>1, <2>2, Joined
  <2> QED BY <1>8, <1>15, <1>16, <2>1, <2>2, <2>3
<1>19. IsList(user["sources"])
       /\ ToSet(user["sources"]) = ToSet(u["sources"]) \cup ToSet(sources)
  <2>1. IsList(u["sources"]) /\ "sources" \in Fields
    BY <1>14, FieldNames
  <2>2. PICK old : old = u["sources"]
    OBVIOUS
  <2>3. IsList(old \o sources) /\ ToSet(old \o sources) = ToSet(old) \cup ToSet(sources)
    BY <1>8, <2>1, <2>2, Joined
  <2>4. user["sources"] = u["sources"] \o sources
    BY <1>15
  <2> QED BY <2>2, <2>3, <2>4
<1>20. AreSources(user.sources)
  <2>1. SUFFICES ASSUME NEW file \in ToSet(user["sources"])
                 PROVE  IsValidSource(DefaultConfig, file.ext)
    BY DEF AreSources
  <2>2. CASE file \in ToSet(u["sources"])
    BY <1>3, <2>2 DEF IsGiven, AreSources
  <2>3. CASE file \in C
    <3>1. IsValidSource(T.config, file.ext)
      BY <1>6, <2>3
    <3>2. PICK ext : ext = file.ext
      OBVIOUS
    <3>3. "UserLibs" \in Constructing
      BY DEF Constructing
    <3> QED BY <1>1, <3>1, <3>2, <3>3, SourcesAgree
  <2> QED BY <1>8, <1>19, <2>1, <2>2, <2>3
<1>21. IsGiven(user)
  <2>1. \A f \in Fields : IsList(user[f])
    BY <1>14, <1>15, <1>17, <1>18, <1>19
  <2> QED BY <1>15, <1>20, <2>1 DEF IsGiven, Lists
<1>22. user["libs"] = u["libs"] /\ user["external_libs"] = u["external_libs"]
  BY <1>15, FieldNames
<1>23. Passed(u, user)
  BY <1>17, <1>18, <1>22 DEF Passed
<1>24. GetsUser("UserLibs", user)
  BY <1>1, <1>3, <1>11, <1>12, <1>21 DEF GetsUser, UserSteps
<1> QED BY <1>2, <1>22, <1>23, <1>24, UserIs

(* It is built as it is. *)
LEMMA BuildUserIs ==
  ASSUME TargetsInv, BuildUser
  PROVE  BuildGives("BuildUser", "user", inputs["user"])
<1>1. At("BuildUser") /\ "BuildUser" \in Verifying
  BY DEF BuildUser, Build, Do, Verifying
<1>2. PICK type : Build("BuildUser", session.name, "user", inputs["user"], type)
  BY DEF BuildUser
<1>3. "user" \in DOMAIN inputs /\ IsGiven(inputs["user"])
  BY <1>1, UserKnown
<1>4. Gives("BuildUser") = {} /\ Makes("BuildUser") = {"user"}
  BY DEF Gives, Makes
<1>5. Builds("BuildUser", session.name, "user", inputs["user"], type)
  BY <1>1, <1>2, <1>3, <1>4 DEF Builds
<1> QED BY <1>5, BuildIs

-----------------------------------------------------------------------------
(* The targets and the commands. *)

(* Every step that changes the targets or the commands is sound. *)
LEMMA ChangingIsSound ==
  ASSUME TargetsInv, Changing
  PROVE  \E step, given, made : Sound(step, given, made)
<1>1. ASSUME NEW step, NEW user, UserGets(step, user)
      PROVE  \E given : Sound(step, given, <<>>)
  BY <1>1 DEF UserGets
<1>2. CASE BuildVerifier
  BY <1>2, BuildVerifierIs
<1>3. CASE NewPackage
  BY <1>3, NewPackageIs
<1>4. CASE HeaderOnlyCbs
  BY <1>4, HeaderOnlyIs
<1>5. CASE BuildTpl
  BY <1>5, BuildTplIs
<1>6. CASE BuildBuildcc
  BY <1>6, BuildBuildccIs
<1>7. CASE NewUser
  BY <1>1, <1>7, NewUserIs
<1>8. CASE UserInputs
  BY <1>1, <1>8, UserInputsIs
<1>9. CASE UserInsert
  BY <1>1, <1>9, UserInsertIs
<1>10. CASE UserLibs \/ UserLibsUnsaved
  BY <1>1, <1>10, UserLibsIs
<1>11. CASE BuildUser
  BY <1>11, BuildUserIs DEF BuildGives
<1> QED BY <1>2, <1>3, <1>4, <1>5, <1>6, <1>7, <1>8, <1>9, <1>10, <1>11 DEF Changing

(* A step gives what is its to give, and what was given before, anew. *)
GoesOn(step, given, made) ==
  /\ Sets(step, given, made)
  /\ Gives(step) \subseteq DOMAIN given
  /\ DOMAIN given \subseteq Gives(step) \cup DOMAIN inputs
  /\ DOMAIN made = Makes(step)
  /\ \A n \in DOMAIN given : IsGiven(given[n])
  /\ \A n \in DOMAIN made : MadeOf(made[n], Dir)

(* So every step goes on. *)
LEMMA GoesOnIs ==
  ASSUME TargetsInv, Changing \/ \E step : Quiet(step)
  PROVE  \E step, given, made : GoesOn(step, given, made)
<1>1. ASSUME NEW step, Quiet(step) PROVE GoesOn(step, <<>>, <<>>)
  BY <1>1 DEF Quiet, GoesOn
<1>2. CASE Changing
  <2>1. PICK step, given, made : Sound(step, given, made)
    BY <1>2, ChangingIsSound
  <2>2. GoesOn(step, given, made)
    BY <2>1 DEF Sound, GoesOn
  <2> QED BY <2>2
<1> QED BY <1>1, <1>2

(* The targets and the commands are those of the past steps, and well *)
(* given.                                                             *)
LEMMA KeysGo ==
  ASSUME PlanInv, KeysInv, GivenInv, NEW step, NEW given, NEW made,
         GoesOn(step, given, made)
  PROVE  KeysInv' /\ GivenInv'
<1>1. /\ IsOver(given, inputs, inputs') /\ IsOver(made, commands, commands')
      /\ Past' = Past \cup {step}
  BY GoneOn DEF GoesOn, Sets
<1>2. DOMAIN inputs' = DOMAIN given \cup DOMAIN inputs
  BY <1>1 DEF IsOver
<1>3. DOMAIN inputs' = UNION {Gives(x) : x \in Past'}
  <2>1. DOMAIN inputs = UNION {Gives(x) : x \in Past}
    BY DEF KeysInv
  <2>2. DOMAIN inputs' = Gives(step) \cup DOMAIN inputs
    BY <1>2 DEF GoesOn
  <2> QED BY <1>1, <2>1, <2>2
<1>4. DOMAIN commands' = UNION {Makes(x) : x \in Past'}
  <2>1. DOMAIN commands = UNION {Makes(x) : x \in Past}
    BY DEF KeysInv
  <2>2. DOMAIN commands' = Makes(step) \cup DOMAIN commands
    BY <1>1 DEF GoesOn, IsOver
  <2> QED BY <1>1, <2>1, <2>2
<1>5. ASSUME NEW n \in DOMAIN inputs' PROVE IsGiven(inputs'[n])
  <2>1. CASE n \in DOMAIN given
    BY <1>1, <2>1 DEF IsOver, GoesOn
  <2>2. CASE n \in DOMAIN inputs \ DOMAIN given
    <3>1. inputs'[n] = inputs[n]
      BY <1>1, <2>2 DEF IsOver
    <3> QED BY <2>2, <3>1 DEF GivenInv
  <2> QED BY <1>2, <2>1, <2>2
<1> QED BY <1>3, <1>4, <1>5 DEF KeysInv, GivenInv

(* The commands are of the verified directory. *)
LEMMA CommandsGo ==
  ASSUME CommandsInv, NEW step, NEW given, NEW made, GoesOn(step, given, made)
  PROVE  CommandsInv'
<1>1. IsOver(made, commands, commands') /\ Dir' = Dir
  BY DEF GoesOn, Sets, Dir, T
<1>2. SUFFICES ASSUME NEW n \in DOMAIN commands' PROVE MadeOf(commands'[n], Dir)
  BY <1>1 DEF CommandsInv, MadeOf
<1>3. CASE n \in DOMAIN made
  BY <1>1, <1>3 DEF IsOver, GoesOn
<1>4. CASE n \in DOMAIN commands \ DOMAIN made
  <2>1. commands'[n] = commands[n]
    BY <1>1, <1>4 DEF IsOver
  <2> QED BY <1>4, <2>1 DEF CommandsInv, MadeOf
<1> QED BY <1>1, <1>2, <1>3, <1>4 DEF IsOver

(* No command is there before the toolchain is verified. *)
LEMMA NoneBefore ==
  ASSUME PlanInv, KeysInv, At("ConstructToolchain") \/ At("Verify")
  PROVE  commands' = commands => CommandsInv'
<1>1. \A y \in Verifying : y \notin Past
  BY NotYet, Order DEF PlanInv, Constructing
<1>2. \A x \in Past : Makes(x) = {}
  BY <1>1 DEF Makes, Verifying
<1>3. DOMAIN commands = {}
  BY <1>2 DEF KeysInv
<1> QED BY <1>3 DEF CommandsInv

(* The toolchain is constructed and verified, and nothing is given or made. *)
LEMMA ToolchainStep ==
  ASSUME ConstructToolchain \/ VerifyToolchain
  PROVE  /\ \E step \in {"ConstructToolchain", "Verify"} : At(step) /\ Go
         /\ inputs' = inputs /\ commands' = commands
BY DEF ConstructToolchain, VerifyToolchain, ToolchainIs, Do

(* One step per case. *)
LEMMA TargetsNext ==
  ASSUME TargetsInv, CommandsInv, [Next]_vars
  PROVE  KeysInv' /\ GivenInv' /\ CommandsInv'
<1> USE DEF TargetsInv
<1>1. ASSUME Resting, UNCHANGED <<toolchain, inputs, commands>>
      PROVE  KeysInv' /\ GivenInv' /\ CommandsInv'
  <2>1. Past' = Past
    BY <1>1, RestIs
  <2>2. KeysInv' /\ GivenInv'
    BY <1>1, <2>1 DEF KeysInv, GivenInv
  <2>3. CommandsInv'
    BY <1>1 DEF CommandsInv, Dir, T
  <2> QED BY <2>2, <2>3
<1>2. CASE UNCHANGED vars
  BY <1>1, <1>2 DEF vars, process, Resting
<1>3. CASE Still
  BY <1>1, <1>3 DEF Still
<1>4. CASE Changing \/ \E step : Quiet(step)
  <2>1. PICK step, given, made : GoesOn(step, given, made)
    BY <1>4, GoesOnIs
  <2> QED BY <2>1, KeysGo, CommandsGo
<1>5. CASE ConstructToolchain \/ VerifyToolchain
  <2>1. PICK step \in {"ConstructToolchain", "Verify"} : At(step) /\ Go
    BY <1>5, ToolchainStep
  <2>2. inputs' = inputs /\ commands' = commands
    BY <1>5, ToolchainStep
  <2>3. Past' = Past \cup {step}
    BY <2>1, GoneOn
  <2>4. Gives(step) = {} /\ Makes(step) = {}
    BY DEF Gives, Makes
  <2>5. UNION {Gives(x) : x \in Past'} = UNION {Gives(x) : x \in Past}
    BY <2>3, <2>4
  <2>6. UNION {Makes(x) : x \in Past'} = UNION {Makes(x) : x \in Past}
    BY <2>3, <2>4
  <2>7. KeysInv' /\ GivenInv'
    BY <2>2, <2>5, <2>6 DEF KeysInv, GivenInv
  <2>8. CommandsInv'
    BY <2>1, <2>2, NoneBefore
  <2> QED BY <2>7, <2>8
<1>6. CASE NextSession
  <2>1. Past' = {} /\ inputs' = <<>> /\ commands' = <<>>
    BY <1>6, PlanNextSession DEF NextSession
  <2> QED BY <2>1 DEF KeysInv, GivenInv, CommandsInv
<1> QED BY <1>2, <1>3, <1>4, <1>5, <1>6, StepCases

(* No targets at first. *)
LEMMA TargetsInit == ASSUME Init PROVE KeysInv /\ GivenInv /\ CommandsInv
<1>1. Past = {} /\ inputs = <<>> /\ commands = <<>>
  BY PlanInit DEF Init
<1>2. DOMAIN inputs = {} /\ DOMAIN commands = {}
  BY <1>1
<1> QED BY <1>1, <1>2 DEF KeysInv, GivenInv, CommandsInv

-----------------------------------------------------------------------------
(* The links. *)

(* The targets that are linked, or link. *)
Linked == {"libtpl", "libbuildcc", "user"}

(* Nothing that is linked changes. *)
LinksRest == \A n \in Linked \cap DOMAIN inputs : inputs'[n] = inputs[n]

(* Then the links stay. *)
LEMMA LinksStay ==
  ASSUME TargetsInv, LinksInv, LinksRest,
         \A x \in {"NewPackage", "BuildBuildcc", "NewUser", "UserInsert"} :
           x \in Past' <=> x \in Past
  PROVE  LinksInv'
<1>1. /\ "NewPackage" \in Past
           => {"libtpl", "libbuildcc"} \subseteq Linked \cap DOMAIN inputs
      /\ "NewUser" \in Past => "user" \in Linked \cap DOMAIN inputs
  BY KeysAre DEF Linked
<1>2. /\ "NewPackage" \in Past => inputs'["libtpl"] = inputs["libtpl"]
                                  /\ inputs'["libbuildcc"] = inputs["libbuildcc"]
      /\ "NewUser" \in Past => inputs'["user"] = inputs["user"]
  BY <1>1 DEF LinksRest
<1>3. /\ "BuildBuildcc" \in Past => "NewPackage" \in Past
      /\ "UserInsert" \in Past => "NewPackage" \in Past /\ "NewUser" \in Past
  BY PastOf, Order DEF TargetsInv, PlanInv
<1> QED BY <1>2, <1>3 DEF LinksInv, Passed

(* How a step goes on that gives some of what is linked. *)
StepGives(step, given) ==
  /\ At(step) /\ IsOver(given, inputs, inputs') /\ Past' = Past \cup {step}

(* So do the sound steps. *)
LEMMA SoundStep ==
  ASSUME TargetsInv, NEW step, NEW given, NEW made, Sound(step, given, made)
  PROVE  StepGives(step, given)
<1>1. At(step) /\ Go /\ IsOver(given, inputs, inputs')
  BY DEF Sound, Sets
<1>2. Past' = Past \cup {step}
  BY <1>1, GoneOn DEF TargetsInv
<1> QED BY <1>1, <1>2 DEF StepGives

(* What the links are when a library or a target is given. *)
LEMMA NamesAre ==
  ASSUME TargetsInv
  PROVE  /\ "NewPackage" \in Past => {"libtpl", "libbuildcc"} \subseteq DOMAIN inputs
         /\ "NewUser" \in Past => "user" \in DOMAIN inputs
         /\ "BuildBuildcc" \in Past => "NewPackage" \in Past
         /\ "UserInsert" \in Past
              => {"NewPackage", "NewUser", "BuildBuildcc"} \subseteq Past
<1>1. /\ "BuildBuildcc" \in Past => "NewPackage" \in Past
      /\ "UserInsert" \in Past => "NewPackage" \in Past
      /\ "UserInsert" \in Past => "NewUser" \in Past
      /\ "UserInsert" \in Past => "BuildBuildcc" \in Past
  BY PastOf, Order DEF TargetsInv, PlanInv
<1> QED BY <1>1, KeysAre

(* The libraries are created before any of them is linked. *)
LEMMA LinksNewPackage ==
  ASSUME TargetsInv, LinksInv, NewPackage
  PROVE  LinksInv'
<1>1. PICK given :
        /\ Sound("NewPackage", given, <<>>)
        /\ {"libtpl", "libbuildcc"} \subseteq DOMAIN given
        /\ given["libtpl"]["libs"] = <<>> /\ given["libtpl"]["external_libs"] = <<>>
        /\ given["libbuildcc"]["libs"] = <<>>
        /\ "user" \notin DOMAIN given
  BY NewPackageIs
<1>2. StepGives("NewPackage", given)
  BY <1>1, SoundStep
<1>3. /\ inputs'["libtpl"] = given["libtpl"]
      /\ inputs'["libbuildcc"] = given["libbuildcc"]
      /\ "user" \in DOMAIN inputs => inputs'["user"] = inputs["user"]
      /\ Past' = Past \cup {"NewPackage"}
  BY <1>1, <1>2 DEF StepGives, IsOver
<1>4. "BuildBuildcc" \notin Past /\ "UserInsert" \notin Past
  BY <1>2, NotYet, Order DEF StepGives, TargetsInv, PlanInv
<1>5. "NewUser" \in Past
        => inputs["user"].libs = <<>> /\ inputs'["user"] = inputs["user"]
  BY <1>3, <1>4, NamesAre DEF LinksInv
<1>6. /\ "BuildBuildcc" \notin Past' /\ "UserInsert" \notin Past'
      /\ "NewUser" \in Past' => "NewUser" \in Past
  BY <1>3, <1>4
<1> QED BY <1>1, <1>3, <1>5, <1>6 DEF LinksInv

(* libtpl is given its files before it is linked. *)
LEMMA LinksBuildTpl ==
  ASSUME TargetsInv, LinksInv, BuildTpl
  PROVE  LinksInv'
<1>1. PICK given, made :
        /\ Sound("BuildTpl", given, made) /\ DOMAIN given = {"libtpl"}
        /\ given["libtpl"]["libs"] = inputs["libtpl"]["libs"]
        /\ given["libtpl"]["external_libs"] = inputs["libtpl"]["external_libs"]
  BY BuildTplIs
<1>2. StepGives("BuildTpl", given)
  BY <1>1, SoundStep
<1>3. /\ inputs'["libtpl"] = given["libtpl"]
      /\ "libbuildcc" \in DOMAIN inputs => inputs'["libbuildcc"] = inputs["libbuildcc"]
      /\ "user" \in DOMAIN inputs => inputs'["user"] = inputs["user"]
      /\ Past' = Past \cup {"BuildTpl"}
  BY <1>1, <1>2 DEF StepGives, IsOver
<1>4. "BuildBuildcc" \notin Past
  BY <1>2, NotYet, Order DEF StepGives, TargetsInv, PlanInv
<1>5. "UserInsert" \notin Past
  BY <1>4, NamesAre
<1>6. /\ "BuildBuildcc" \notin Past' /\ "UserInsert" \notin Past'
      /\ "NewUser" \in Past' <=> "NewUser" \in Past
      /\ "NewPackage" \in Past' <=> "NewPackage" \in Past
  BY <1>3, <1>4, <1>5
<1>7. "NewPackage" \in Past =>
        /\ inputs'["libtpl"].libs = <<>> /\ inputs'["libtpl"].external_libs = <<>>
        /\ inputs'["libbuildcc"].libs = <<>>
  BY <1>1, <1>3, <1>4, NamesAre DEF LinksInv
<1>8. "NewUser" \in Past => inputs'["user"].libs = <<>>
  BY <1>3, <1>5, NamesAre DEF LinksInv
<1> QED BY <1>6, <1>7, <1>8 DEF LinksInv

(* libbuildcc links libtpl. *)
LEMMA LinksBuildBuildcc ==
  ASSUME TargetsInv, LinksInv, BuildBuildcc
  PROVE  LinksInv'
<1>1. PICK given, made :
        /\ Sound("BuildBuildcc", given, made) /\ DOMAIN given = {"libbuildcc"}
        /\ given["libbuildcc"]["libs"] = Append(inputs["libbuildcc"]["libs"], "libtpl")
        /\ ToSet(inputs["libtpl"]["include_dirs"])
             \subseteq ToSet(given["libbuildcc"]["include_dirs"])
        /\ ToSet(inputs["libtpl"]["headers"])
             \subseteq ToSet(given["libbuildcc"]["headers"])
  BY BuildBuildccIs
<1>2. StepGives("BuildBuildcc", given)
  BY <1>1, SoundStep
<1>3. "NewPackage" \in Past /\ "BuildBuildcc" \notin Past /\ "UserInsert" \notin Past
  <2>1. "NewPackage" \in Past /\ "UserInsert" \notin Past
    BY <1>2, PastOf, NotYet, Order DEF StepGives, TargetsInv, PlanInv
  <2>2. "BuildBuildcc" \notin Past
    BY <1>2, AtIs DEF StepGives, TargetsInv
  <2> QED BY <2>1, <2>2
<1>4. /\ inputs'["libbuildcc"] = given["libbuildcc"]
      /\ inputs'["libtpl"] = inputs["libtpl"]
      /\ "user" \in DOMAIN inputs => inputs'["user"] = inputs["user"]
      /\ Past' = Past \cup {"BuildBuildcc"}
  BY <1>1, <1>2, <1>3, NamesAre DEF StepGives, IsOver
<1>5. /\ inputs["libtpl"].libs = <<>> /\ inputs["libtpl"].external_libs = <<>>
      /\ inputs["libbuildcc"].libs = <<>>
  BY <1>3 DEF LinksInv
<1>6. inputs'["libbuildcc"].libs = <<"libtpl">>
  BY <1>1, <1>4, <1>5
<1>7. Passed(inputs["libtpl"], inputs'["libbuildcc"])
  <2>1. ToSet(inputs["libtpl"]["external_libs"]) = {}
    BY <1>5 DEF ToSet
  <2> QED BY <1>1, <1>4, <2>1 DEF Passed
<1>8. "NewUser" \in Past => inputs'["user"].libs = <<>>
  BY <1>3, <1>4, NamesAre DEF LinksInv
<1>9. "UserInsert" \notin Past' /\ ("NewUser" \in Past' <=> "NewUser" \in Past)
  BY <1>3, <1>4
<1> QED BY <1>4, <1>5, <1>6, <1>7, <1>8, <1>9 DEF LinksInv, Passed

(* What a step gives the user. *)
LEMMA LinksUser ==
  ASSUME TargetsInv, NEW step, NEW user, UserGets(step, user)
  PROVE  /\ At(step) /\ Past' = Past \cup {step}
         /\ inputs'["user"] = user
         /\ "NewPackage" \in Past => inputs'["libtpl"] = inputs["libtpl"]
                                     /\ inputs'["libbuildcc"] = inputs["libbuildcc"]
<1>1. PICK given :
        Sound(step, given, <<>>) /\ DOMAIN given = {"user"} /\ given["user"] = user
  BY DEF UserGets
<1>2. StepGives(step, given)
  BY <1>1, SoundStep
<1> QED BY <1>1, <1>2, NamesAre DEF StepGives, IsOver

(* The libraries stay, and the user is given. *)
LEMMA LinksOfUser ==
  ASSUME TargetsInv, LinksInv, NEW step, NEW user, UserGets(step, user),
         step \in UserSteps, step # "NewUser" => "NewUser" \in Past,
         user.libs
           = IF "UserInsert" \in Past' THEN <<"libbuildcc", "libtpl">> ELSE <<>>,
         "UserInsert" \in Past' => Passed(inputs["libbuildcc"], user)
                                   /\ "NewPackage" \in Past
  PROVE  LinksInv'
<1>1. /\ At(step) /\ Past' = Past \cup {step}
      /\ inputs'["user"] = user
      /\ "NewPackage" \in Past => inputs'["libtpl"] = inputs["libtpl"]
                                  /\ inputs'["libbuildcc"] = inputs["libbuildcc"]
  BY LinksUser
<1>2. /\ "NewPackage" \in Past' <=> "NewPackage" \in Past
      /\ "BuildBuildcc" \in Past' <=> "BuildBuildcc" \in Past
  BY <1>1 DEF UserSteps
<1>3. "NewPackage" \in Past' =>
        /\ inputs'["libtpl"].libs = <<>> /\ inputs'["libtpl"].external_libs = <<>>
        /\ inputs'["libbuildcc"].libs
             = IF "BuildBuildcc" \in Past' THEN <<"libtpl">> ELSE <<>>
  BY <1>1, <1>2 DEF LinksInv
<1>4. "BuildBuildcc" \in Past' => Passed(inputs'["libtpl"], inputs'["libbuildcc"])
  BY <1>1, <1>2, NamesAre DEF LinksInv
<1>5. "UserInsert" \in Past' => Passed(inputs'["libbuildcc"], inputs'["user"])
  BY <1>1
<1>6. inputs'["user"].libs
        = IF "UserInsert" \in Past' THEN <<"libbuildcc", "libtpl">> ELSE <<>>
  BY <1>1
<1> QED BY <1>3, <1>4, <1>5, <1>6 DEF LinksInv, Passed

(* The user is created before it links anything. *)
LEMMA LinksNewUser ==
  ASSUME TargetsInv, LinksInv, NewUser
  PROVE  LinksInv'
<1>1. PICK user : UserGets("NewUser", user) /\ user["libs"] = <<>>
  BY NewUserIs
<1>2. At("NewUser") /\ Past' = Past \cup {"NewUser"}
  BY <1>1, LinksUser
<1>3. "UserInsert" \notin Past'
  BY <1>2, NotYet, Order DEF TargetsInv, PlanInv
<1> QED BY <1>1, <1>3, LinksOfUser DEF UserSteps

(* It is given its inputs before it links anything. *)
LEMMA LinksUserInputs ==
  ASSUME TargetsInv, LinksInv, UserInputs
  PROVE  LinksInv'
<1>1. PICK user : UserGets("UserInputs", user) /\ user["libs"] = inputs["user"]["libs"]
  BY UserInputsIs
<1>2. At("UserInputs") /\ Past' = Past \cup {"UserInputs"}
  BY <1>1, LinksUser
<1>3. "UserInsert" \notin Past /\ "NewUser" \in Past
  BY <1>2, NotYet, PastOf, Order DEF TargetsInv, PlanInv
<1>4. user.libs = <<>>
  BY <1>1, <1>3 DEF LinksInv
<1> QED BY <1>1, <1>2, <1>3, <1>4, LinksOfUser DEF UserSteps

(* A sequence of the elements of two. *)
Joins(s, p, q, S, n, m) ==
  /\ s \in Seq(S) /\ Len(s) = n + m
  /\ \A i \in 1..n : s[i] = p[i]
  /\ \A i \in 1..m : s[n + i] = q[i]

(* So is what joins them. *)
LEMMA JoinIs ==
  ASSUME NEW S, NEW n \in Nat, NEW m \in Nat, NEW p, NEW q,
         p \in [1..n -> S], Len(p) = n, q \in [1..m -> S], Len(q) = m
  PROVE  Joins(p \o q, p, q, S, n, m)
<1>1. p \in Seq(S) /\ q \in Seq(S)
  OBVIOUS
<1>2. p \o q \in Seq(S) /\ Len(p \o q) = n + m
  BY <1>1
<1>3. \A i \in 1..n : (p \o q)[i] = p[i]
  BY <1>1
<1>4. \A i \in 1..m : (p \o q)[n + i] = q[i]
  BY <1>1
<1> QED BY <1>2, <1>3, <1>4 DEF Joins

(* Two sequences of one element each. *)
LEMMA OneAndOne ==
  ASSUME NEW S, NEW p \in Seq(S), NEW q \in Seq(S), Len(p) = 1, Len(q) = 1
  PROVE  /\ p \o q \in Seq(S) /\ Len(p \o q) = 2
         /\ (p \o q)[1] = p[1] /\ (p \o q)[2] = q[1]
<1>1. p \in [1..1 -> S] /\ q \in [1..1 -> S]
  OBVIOUS
<1>2. PICK s : s = p \o q
  OBVIOUS
<1>3. Joins(s, p, q, S, 1, 1)
  BY <1>1, <1>2, JoinIs
<1>4. s \in Seq(S) /\ Len(s) = 2 /\ s[1] = p[1] /\ s[1 + 1] = q[1]
  BY <1>3 DEF Joins
<1> QED BY <1>2, <1>4

(* As UserInsert makes it. *)
LEMMA PairOf == ASSUME NEW a, NEW b PROVE Append(<<>>, a) \o <<b>> = <<a, b>>
<1>1. PICK S : S = {a, b}
  OBVIOUS
<1>2. <<>> \in Seq(S) /\ <<a>> \in Seq(S) /\ <<b>> \in Seq(S) /\ <<a, b>> \in Seq(S)
  BY <1>1
<1>3. Append(<<>>, a) = <<a>>
  BY <1>1, <1>2
<1>4. PICK p, q, r : p = <<a>> /\ q = <<b>> /\ r = <<a, b>>
  OBVIOUS
<1>5. /\ p \in Seq(S) /\ Len(p) = 1 /\ p[1] = a
      /\ q \in Seq(S) /\ Len(q) = 1 /\ q[1] = b
      /\ r \in Seq(S) /\ Len(r) = 2 /\ r[1] = a /\ r[2] = b
  BY <1>2, <1>4
<1>6. PICK s : s = p \o q
  OBVIOUS
<1>7. s \in Seq(S) /\ Len(s) = 2 /\ s[1] = a /\ s[2] = b
  BY <1>5, <1>6, OneAndOne
<1>8. s = r
  BY <1>5, <1>7
<1> QED BY <1>3, <1>4, <1>6, <1>8

(* It links libbuildcc, and then what libbuildcc links. *)
LEMMA LinksUserInsert ==
  ASSUME TargetsInv, LinksInv, UserInsert
  PROVE  LinksInv'
<1>1. PICK user : /\ UserGets("UserInsert", user)
                  /\ user["libs"] = Append(inputs["user"]["libs"], "libbuildcc")
                                      \o inputs["libbuildcc"]["libs"]
                  /\ Passed(inputs["libbuildcc"], user)
  BY UserInsertIs
<1>2. At("UserInsert") /\ Past' = Past \cup {"UserInsert"}
  BY <1>1, LinksUser
<1>3. "NewUser" \in Past /\ "BuildBuildcc" \in Past /\ "NewPackage" \in Past
  BY <1>2, PastOf, Order DEF TargetsInv, PlanInv
<1>4. "UserInsert" \notin Past
  BY <1>2, AtIs DEF TargetsInv
<1>5. inputs["user"].libs = <<>> /\ inputs["libbuildcc"].libs = <<"libtpl">>
  BY <1>3, <1>4 DEF LinksInv
<1>6. user.libs = <<"libbuildcc", "libtpl">>
  <2>1. PICK a, b : a = "libbuildcc" /\ b = "libtpl"
    OBVIOUS
  <2> QED BY <1>1, <1>5, <2>1, PairOf
<1> QED BY <1>1, <1>2, <1>3, <1>6, LinksOfUser DEF UserSteps

(* It keeps what it links and what that needs. *)
LEMMA LinksUserLibs ==
  ASSUME TargetsInv, LinksInv, UserLibs \/ UserLibsUnsaved
  PROVE  LinksInv'
<1>1. PICK user : /\ UserGets("UserLibs", user)
                  /\ user["libs"] = inputs["user"]["libs"]
                  /\ Passed(inputs["user"], user)
  BY UserLibsIs
<1>2. At("UserLibs") /\ Past' = Past \cup {"UserLibs"}
  BY <1>1, LinksUser
<1>3. "NewUser" \in Past /\ "UserInsert" \in Past
  BY <1>2, PastOf, Order DEF TargetsInv, PlanInv
<1>4. "NewPackage" \in Past
  BY <1>3, NamesAre
<1>5. user.libs = <<"libbuildcc", "libtpl">>
  BY <1>1, <1>3 DEF LinksInv
<1>6. Passed(inputs["libbuildcc"], user)
  BY <1>1, <1>3 DEF LinksInv, Passed
<1> QED BY <1>1, <1>2, <1>3, <1>4, <1>5, <1>6, LinksOfUser DEF UserSteps

(* The steps after which the links differ. *)
LinkSteps == {"NewPackage", "BuildBuildcc", "NewUser", "UserInsert"}

(* One step per case. *)
LEMMA LinksNext ==
  ASSUME TargetsInv, LinksInv, [Next]_vars
  PROVE  LinksInv'
<1>0. ASSUME NEW step, NEW given, At(step), Go, IsOver(given, inputs, inputs'),
             \A n \in DOMAIN given \cap Linked : given[n] = inputs[n],
             step \notin LinkSteps
      PROVE  LinksInv'
  <2>1. Past' = Past \cup {step}
    BY <1>0, GoneOn DEF TargetsInv
  <2>2. LinksRest
    BY <1>0 DEF IsOver, LinksRest
  <2> QED BY <1>0, <2>1, <2>2, LinksStay DEF LinkSteps
<1>1. ASSUME Resting, inputs' = inputs
      PROVE  LinksInv'
  <2>1. Past' = Past /\ LinksRest
    BY <1>1, RestIs DEF LinksRest
  <2> QED BY <2>1, LinksStay
<1>2. CASE UNCHANGED vars
  BY <1>1, <1>2 DEF vars, process, Resting
<1>3. CASE Still
  BY <1>1, <1>3 DEF Still
<1>4. ASSUME NEW step, Quiet(step) PROVE LinksInv'
  <2>1. At(step) /\ Go /\ IsOver(<<>>, inputs, inputs')
    BY <1>4 DEF Quiet, Sets
  <2>2. step \notin LinkSteps
    <3>1. step \notin {"NewPackage", "NewUser"}
      BY <1>4 DEF Quiet, Gives, HeaderOnly
    <3>2. step # "BuildBuildcc"
      BY <1>4 DEF Quiet, Makes
    <3> QED BY <1>4, <3>1, <3>2 DEF Quiet, LinkSteps
  <2> QED BY <1>0, <2>1, <2>2
<1>5. CASE ConstructToolchain \/ VerifyToolchain
  <2>1. PICK step \in {"ConstructToolchain", "Verify"} : At(step) /\ Go
    BY <1>5, ToolchainStep
  <2>2. IsOver(<<>>, inputs, inputs')
    BY <1>5, ToolchainStep, OverNothing
  <2> QED BY <1>0, <2>1, <2>2 DEF LinkSteps
<1>6. CASE NextSession
  <2>1. Past' = {}
    BY <1>6, PlanNextSession
  <2> QED BY <2>1 DEF LinksInv
<1>7. CASE BuildVerifier
  <2>1. PICK made : Sound("BuildVerifier", <<>>, made)
    BY <1>7, BuildVerifierIs
  <2>2. At("BuildVerifier") /\ Go /\ IsOver(<<>>, inputs, inputs')
    BY <2>1 DEF Sound, Sets
  <2> QED BY <1>0, <2>2 DEF LinkSteps
<1>8. CASE HeaderOnlyCbs
  <2>1. PICK given : Sound("HeaderOnly", given, <<>>) /\ DOMAIN given = HeaderOnly
    BY <1>8, HeaderOnlyIs
  <2>2. At("HeaderOnly") /\ Go /\ IsOver(given, inputs, inputs')
    BY <2>1 DEF Sound, Sets
  <2>3. DOMAIN given \cap Linked = {}
    BY <2>1 DEF HeaderOnly, Linked
  <2> QED BY <1>0, <2>2, <2>3 DEF LinkSteps
<1>9. CASE BuildUser
  <2>1. PICK given, made : /\ Sound("BuildUser", given, made)
                           /\ DOMAIN given = {"user"} /\ given["user"] = inputs["user"]
    BY <1>9, BuildUserIs DEF BuildGives
  <2>2. At("BuildUser") /\ Go /\ IsOver(given, inputs, inputs')
    BY <2>1 DEF Sound, Sets
  <2> QED BY <1>0, <2>1, <2>2 DEF LinkSteps
<1>10. CASE Changing
  BY <1>7, <1>8, <1>9, <1>10, LinksNewPackage, LinksBuildTpl, LinksBuildBuildcc,
     LinksNewUser, LinksUserInputs, LinksUserInsert, LinksUserLibs DEF Changing
<1> QED BY <1>2, <1>3, <1>4, <1>5, <1>6, <1>10, StepCases

(* No step is taken at first. *)
LEMMA LinksInit == ASSUME Init PROVE LinksInv
BY PlanInit DEF LinksInv

(* The toolchain, the targets, the commands and the links. *)
LinkedInv == TargetsInv /\ CommandsInv /\ LinksInv

(* Of every behaviour. *)
LEMMA TargetsHold == Spec => []LinkedInv
<1>1. Init => LinkedInv
  BY PlanInit, ToolInit, TargetsInit, LinksInit DEF LinkedInv, TargetsInv
<1>2. LinkedInv /\ [Next]_vars => LinkedInv'
  <2>1. SUFFICES ASSUME LinkedInv, [Next]_vars PROVE LinkedInv'
    OBVIOUS
  <2>2. TargetsInv /\ CommandsInv /\ LinksInv
    BY <2>1 DEF LinkedInv
  <2>3. PlanInv' /\ ToolInv'
    BY <2>1, <2>2, PlanNext, ToolNext DEF TargetsInv
  <2>4. KeysInv' /\ GivenInv' /\ CommandsInv'
    BY <2>1, <2>2, TargetsNext
  <2>5. LinksInv'
    BY <2>1, <2>2, LinksNext
  <2> QED BY <2>3, <2>4, <2>5 DEF LinkedInv, TargetsInv
<1> QED BY <1>1, <1>2, PTL DEF Spec

(* A command was made after the verification. *)
LEMMA UseVerified ==
  ASSUME LinkedInv
  PROVE  CommandsUseVerified
<1> USE DEF LinkedInv, TargetsInv
<1>1. SUFFICES ASSUME NEW n \in DOMAIN commands
               PROVE  /\ toolchain # {} /\ Dir \in ToSet(session.paths)
                      /\ OfDir(commands[n].link, Dir)
                      /\ \A file \in DOMAIN commands[n].objects :
                           OfDir(commands[n].objects[file], Dir)
  BY DEF CommandsUseVerified
<1>2. PICK y \in Past : n \in Makes(y)
  BY <1>1 DEF KeysInv
<1>3. y \in Verifying
  BY <1>2 DEF Makes, Verifying
<1>4. "Verify" \in Past /\ "ConstructToolchain" \in Past
  BY <1>2, <1>3, PastOf, Order DEF PlanInv, Constructing
<1>5. PICK t : toolchain = {t} /\ OfPaths(t)
  BY <1>4 DEF ToolInv, OfPaths
<1>6. T = t
  BY <1>5, UniqueIs
<1>7. Dir \in ToSet(session.paths)
  BY <1>5, <1>6 DEF OfPaths, Dir, Tools
<1> QED BY <1>1, <1>5, <1>7 DEF CommandsInv

(* Every command names executables of the directory this process has *)
(* verified, although the bootstrap creates its targets before it    *)
(* verifies the toolchain.                                           *)
THEOREM CommandsAreOfVerified == Spec => []CommandsUseVerified
<1>1. LinkedInv => CommandsUseVerified
  BY UseVerified
<1> QED BY TargetsHold, <1>1, PTL

(* What links a library links what the library links. *)
LEMMA LinksAll ==
  ASSUME LinkedInv
  PROVE  LinksWhatItUses
<1> USE DEF LinkedInv, TargetsInv
<1> DEFINE Uses1(n, i) ==
             /\ \A d \in ToSet(inputs[inputs[n].libs[i]].libs) :
                  \E j \in DOMAIN inputs[n].libs : i < j /\ inputs[n].libs[j] = d
             /\ \A f \in {"external_libs", "include_dirs", "headers"} :
                  ToSet(inputs[inputs[n].libs[i]][f]) \subseteq ToSet(inputs[n][f])
<1>1. SUFFICES ASSUME NEW n \in DOMAIN commands \cap DOMAIN inputs,
                      NEW i \in DOMAIN inputs[n].libs
               PROVE  Uses1(n, i)
  BY DEF LinksWhatItUses
<1>2. n \in Linked
  BY <1>1 DEF KeysInv, Makes, Gives, Linked, HeaderOnly
<1>3. CASE n = "libtpl"
  <2>1. "NewPackage" \in Past
    BY <1>1, <1>3 DEF KeysInv, Gives, HeaderOnly
  <2> QED BY <1>1, <1>3, <2>1 DEF LinksInv
<1>4. CASE n = "libbuildcc"
  <2>1. "NewPackage" \in Past
    BY <1>1, <1>4 DEF KeysInv, Gives, HeaderOnly
  <2>2. "BuildBuildcc" \in Past /\ inputs[n].libs = <<"libtpl">> /\ i = 1
    BY <1>1, <1>4, <2>1 DEF LinksInv
  <2>3. inputs["libtpl"].libs = <<>> /\ Passed(inputs["libtpl"], inputs["libbuildcc"])
    BY <2>1, <2>2 DEF LinksInv
  <2>4. inputs[n].libs[i] = "libtpl" /\ ToSet(inputs["libtpl"].libs) = {}
    BY <2>2, <2>3 DEF ToSet
  <2> QED BY <1>4, <2>3, <2>4 DEF Passed
<1>5. CASE n = "user"
  <2>1. "NewUser" \in Past
    BY <1>1, <1>5 DEF KeysInv, Gives, HeaderOnly
  <2>2. "UserInsert" \in Past /\ inputs[n].libs = <<"libbuildcc", "libtpl">>
    BY <1>1, <1>5, <2>1 DEF LinksInv
  <2>3. "NewPackage" \in Past /\ "BuildBuildcc" \in Past
    BY <2>2, NamesAre
  <2>4. /\ inputs["libtpl"].libs = <<>> /\ inputs["libbuildcc"].libs = <<"libtpl">>
        /\ Passed(inputs["libtpl"], inputs["libbuildcc"])
        /\ Passed(inputs["libbuildcc"], inputs["user"])
    BY <2>2, <2>3 DEF LinksInv
  <2>5. CASE i = 1
    <3>1. inputs[n].libs[i] = "libbuildcc"
          /\ ToSet(inputs["libbuildcc"].libs) = {"libtpl"}
      BY <2>2, <2>4, <2>5 DEF ToSet
    <3>2. 2 \in DOMAIN inputs[n].libs /\ i < 2 /\ inputs[n].libs[2] = "libtpl"
      BY <2>2, <2>5
    <3> QED BY <1>5, <2>4, <3>1, <3>2 DEF Passed
  <2>6. CASE i = 2
    <3>1. inputs[n].libs[i] = "libtpl" /\ ToSet(inputs["libtpl"].libs) = {}
      BY <2>2, <2>4, <2>6 DEF ToSet
    <3> QED BY <1>5, <2>4, <3>1 DEF Passed
  <2>7. i \in {1, 2}
    BY <1>1, <2>2
  <2> QED BY <2>5, <2>6, <2>7
<1> QED BY <1>2, <1>3, <1>4, <1>5 DEF Linked

(* When the executor starts, a target that links a library links what *)
(* that library links too, after it, and has its headers.             *)
THEOREM LibrariesAreLinkedInOrder == Spec => []LinksWhatItUses
<1>1. LinkedInv => LinksWhatItUses
  BY LinksAll
<1> QED BY TargetsHold, <1>1, PTL

-----------------------------------------------------------------------------
(* The whole invariant, and the types. *)

(* The first process. *)
LEMMA SessionsInit == Init => SessionsInv
<1> SUFFICES ASSUME Init PROVE SessionsInv
  OBVIOUS
<1>1. sessions = 1 /\ MaxSessions \in Nat \ {0}
  BY SessionsAssumption DEF Init
<1> QED BY <1>1 DEF SessionsInv

(* A process starts another only below the bound. *)
LEMMA SessionsNext == SessionsInv /\ [Next]_vars => SessionsInv'
<1> SUFFICES ASSUME SessionsInv, [Next]_vars PROVE SessionsInv'
  OBVIOUS
<1>1. CASE sessions' = sessions
  BY <1>1 DEF SessionsInv
<1>2. CASE UNCHANGED vars
  BY <1>1, <1>2 DEF vars
<1>3. ASSUME NEW step, Quiet(step) PROVE sessions' = sessions
  BY <1>3 DEF Quiet, Sets, Go
<1>4. CASE Changing
  BY <1>1, <1>4, ChangingIs DEF Go
<1>5. CASE ConstructToolchain \/ VerifyToolchain
  BY <1>1, <1>5, ToolchainStep DEF Go
<1>6. CASE Still
  BY <1>1, <1>6 DEF Still
<1>7. CASE NextSession
  <2>1. sessions < MaxSessions /\ sessions' = sessions + 1
    BY <1>7 DEF NextSession
  <2> QED BY <2>1, SessionsAssumption DEF SessionsInv
<1> QED BY <1>1, <1>2, <1>3, <1>4, <1>5, <1>6, <1>7, StepCases

(* The header is written for the target of the session. *)
LEMMA DirsNext == DiskInv /\ DirsInv /\ [Next]_vars => DirsInv'
<1> SUFFICES ASSUME DiskInv, DirsInv, [Next]_vars PROVE DirsInv'
  OBVIOUS
<1>1. CASE UNCHANGED vars
  BY <1>1 DEF vars, DirsInv
<1>2. ASSUME NEW step, Moved(step) PROVE DirsInv'
  <2>1. lib_dirs' \subseteq lib_dirs \cup {session.name}
    BY <1>2 DEF Moved, MovedDisk, Cleaned
  <2>2. session.name \in Builders
    BY BuildIn DEF DiskInv, OutputInv, MainInv
  <2> QED BY <2>1, <2>2 DEF DirsInv
<1>3. CASE Ended
  BY <1>3 DEF Ended, Exit, DirsInv
<1>4. CASE Worked
  BY <1>4 DEF Worked, Executor, Finish, DirsInv
<1>5. CASE NextSession
  BY <1>5 DEF NextSession, DirsInv
<1> QED BY <1>1, <1>2, <1>3, <1>4, <1>5, NextCases

(* All of the invariant, of every behaviour. *)
LEMMA InvariantHolds == Spec => []IInv
<1>1. Spec => []SessionsInv
  BY SessionsInit, SessionsNext, PTL DEF Spec
<1>2. Init => DirsInv
  BY DEF Init, DirsInv
<1>3. Spec => []DirsInv
  BY DiskHolds, DirsNext, <1>2, PTL DEF Spec
<1>4. DiskInv /\ LinkedInv /\ SessionsInv /\ DirsInv => IInv
  BY DEF DiskInv, OutputInv, MainInv, LinkedInv, TargetsInv, IInv
<1> QED BY DiskHolds, TargetsHold, <1>1, <1>3, <1>4, PTL

(* What is registered. *)
LEMMA GraphTypes ==
  ASSUME IInv
  PROVE  R!TypeOK
<1> USE DEF IInv
<1>1. build \subseteq Builders /\ edges \subseteq build \X build
  BY BuildIn, EdgesIn
<1>2. tests = {} /\ testing = {}
  BY DEF DoneInv
<1>3. phase \in R!Phases
  BY DEF PhaseInv, R!Phases
<1>4. /\ ver \in [Builders -> 0..MaxSaved] /\ DOMAIN out = Builders
      /\ task \in [Builders -> R!Steps] /\ taskState \in {"SUCCESS", "FAILURE"}
      /\ \A b \in Builders : task[b] # "none" => b \in build
  BY DEF TaskInv, R!Steps
<1> QED BY <1>1, <1>2, <1>3, <1>4 DEF R!TypeOK

(* The types follow from the invariant. *)
LEMMA TypesHold ==
  ASSUME IInv
  PROVE  TypeOK
<1> USE DEF IInv
<1>1. session \in Sessions /\ sessions \in 1..MaxSessions
  BY DEF PlanInv, SessionsInv
<1>2. outcome \in {"running", "ok", "failed", "fatal", "killed"}
  BY DEF PlanInv
<1>3. outcome = "ok" => todo = <<>> /\ "Reg" \in up
  <2>1. SUFFICES ASSUME outcome = "ok" PROVE todo = <<>> /\ "Reg" \in up
    OBVIOUS
  <2>2. todo = <<>>
    BY <2>1 DEF PlanInv
  <2>3. Left = {}
    BY <2>2 DEF Left, ToSet
  <2>4. "Reg::Init" \in Past
    BY <2>3 DEF Past, MainSteps, StartSteps
  <2>5. "Reg" \in up
    BY <2>4 DEF DoneInv, Provides
  <2> QED BY <2>2, <2>5
<1>4. \A t \in toolchain : t.id = session.id
  BY DEF ToolInv, IsHostToolchain
<1>5. DOMAIN commands \subseteq DOMAIN inputs \cup {"verify"}
  <2>1. SUFFICES ASSUME NEW n \in DOMAIN commands, n # "verify"
                 PROVE  n \in DOMAIN inputs
    OBVIOUS
  <2>2. PICK y \in Past : n \in Makes(y)
    BY <2>1 DEF KeysInv
  <2>3. CASE y \in {"BuildTpl", "BuildBuildcc"}
    <3>1. "NewPackage" \in Past
      BY <2>2, <2>3, PastOf, Order DEF PlanInv
    <3> QED BY <2>2, <2>3, <3>1, NamesAre DEF Makes, TargetsInv
  <2>4. CASE y = "BuildUser"
    <3>1. "NewUser" \in Past
      BY <2>2, <2>4, PastOf, Order DEF PlanInv
    <3> QED BY <2>2, <2>4, <3>1, NamesAre DEF Makes, TargetsInv
  <2> QED BY <2>1, <2>2, <2>3, <2>4 DEF Makes
<1>6. built \subseteq build /\ missed \in BOOLEAN
  BY DEF CommandsFileInv
<1>7. verifier.made <= verifier.file /\ lib_dirs \subseteq Builders
  BY DEF MadeInv, VerifierIs, DirsInv
<1>8. R!TypeOK
  BY GraphTypes
<1> QED BY <1>1, <1>2, <1>3, <1>4, <1>5, <1>6, <1>7, <1>8 DEF TypeOK

(* The variables have their types; what is built is registered; a      *)
(* process that ends well is through its main and has initialised the  *)
(* register; and every command but that of the verification program is *)
(* of a target that was given.                                         *)
THEOREM BuildExeTypes == Spec => []TypeOK
<1>1. IInv => TypeOK
  BY TypesHold
<1> QED BY InvariantHolds, <1>1, PTL

=============================================================================
