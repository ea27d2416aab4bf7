\* Three builders, any dependencies between different ones and one of a
\* builder on itself, two runs.
CONSTANTS
  gen = gen
  lib = lib
  exe = exe
  Builders <- MCBuilders
  Uses <- MCUses
  DepCalls <- AllCalls
  TestCalls = {exe}
  Edited = {gen, lib}
  MaxSaved = 1
SPECIFICATION FairSpec
INVARIANTS TypeOK NoLongerCycle SearchEnds TestsRunFresh
PROPERTIES BuiltFromFresh RunEnds
CHECK_DEADLOCK FALSE
