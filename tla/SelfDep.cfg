\* A script may also call Dep for a builder and itself.
CONSTANTS
  gen = gen
  lib = lib
  exe = exe
  Builders <- MCBuilders
  Uses <- MCUses
  DepCalls <- MCSelf
  TestCalls = {exe}
  Edited = {}
  MaxSaved = 0
SPECIFICATION Spec
INVARIANT Acyclic
CHECK_DEADLOCK FALSE
