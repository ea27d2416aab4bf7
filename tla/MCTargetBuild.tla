---------------------------- MODULE MCTargetBuild ----------------------------
EXTENDS TargetBuildInvariant, TLC
CONSTANTS s1, s2
MCSources == {s1, s2}
Symmetric == Permutations(MCSources)
=============================================================================
