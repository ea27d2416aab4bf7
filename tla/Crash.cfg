\* Runs killed, files saved while a run goes on, tasks that fail: nothing
\* reverts, so the schema on disk must never vouch for stale outputs.
CONSTANTS
  s1 = s1
  s2 = s2
  Sources <- MCSources
  First <- MCSources
  Edited = {"pchs"}
  Reverts = {}
  MidRun = {"pchs", "sources"}
  Interrupts = TRUE
  MaxVersion = 2
  MaxSaved = 1
SPECIFICATION Spec
SYMMETRY Symmetric
INVARIANTS TypeOK NoMissedRebuild SuccessIsClean NoSpuriousRebuild SkipInv
PROPERTY ImplementsContract
