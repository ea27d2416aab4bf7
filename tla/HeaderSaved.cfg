\* A header is saved while a run is going on.
CONSTANTS
  s1 = s1
  s2 = s2
  Sources <- MCSources
  First = {s1}
  Edited = {"headers", "pchs"}
  Reverts = {}
  MidRun = {"headers"}
  Interrupts = FALSE
  MaxVersion = 2
  MaxSaved = 1
SPECIFICATION Spec
INVARIANT NoMissedRebuild
