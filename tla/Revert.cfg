\* A script edited back and forth between runs that are never killed.
CONSTANTS
  s1 = s1
  s2 = s2
  Sources <- MCSources
  First = {s1}
  Edited = {"pchs", "pch_object_flags", "sources"}
  Reverts = {"pch_object_flags", "sources"}
  MidRun = {}
  Interrupts = FALSE
  MaxVersion = 1
  MaxSaved = 1
SPECIFICATION Spec
INVARIANTS NoMissedRebuild SuccessIsClean HonestInv
