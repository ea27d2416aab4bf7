\* An id that had no blob handler gets one.
CONSTANTS
  i1 = i1
  i2 = i2
  Ids <- MCIds
  Edited <- BlobEdited
  Troubles = {"kill"}
  MaxVersion = 1
  MaxSaved = 1
SPECIFICATION Spec
INVARIANT StoredBlobsVerify
