\* The list of PCH files may become empty again.
CONSTANTS
  s1 = s1
  s2 = s2
  Sources <- MCSources
  First = {s1}
  Edited = {"pchs"}
  Reverts = {"pchs"}
  MidRun = {}
  Interrupts = FALSE
  MaxVersion = 1
  MaxSaved = 1
SPECIFICATION Spec
INVARIANT PathChangeRebuilds
