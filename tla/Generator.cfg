\* Two ids, edits of lists, blobs and inputs; either runs are killed or
\* values go back to earlier ones.
CONSTANTS
  i1 = i1
  i2 = i2
  Ids <- MCIds
  Edited <- MCEdited
  Troubles = {"kill", "revert"}
  MaxVersion = 2
  MaxSaved = 1
SPECIFICATION FairSpec
INVARIANTS TypeOK NoMissedGenerate NoSpuriousGenerate GenerateInv
PROPERTIES ImplementsContract RunEnds NoRedundantGenerate
