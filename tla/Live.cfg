\* Runs that are never killed, under the fairness of the executor.
CONSTANTS
  s1 = s1
  s2 = s2
  Sources <- MCSources
  First <- MCSources
  Edited = {"pchs"}
  Reverts = {}
  MidRun = {}
  Interrupts = FALSE
  MaxVersion = 1
  MaxSaved = 1
SPECIFICATION FairSpec
PROPERTIES RunEnds NoRedundantCompile
