\* Two scripts one after the other, each with calls in any order, some of
\* them after Build.
CONSTANTS
  Kinds <- MCKinds
  Dirs <- MCDirs
  InfoInputs <- MCInfo
  Calls <- MCCalls
  DirHeaders <- MCHeaders
  Options <- MCOptions
  MaxCalls = 2
  MaxProcesses = 2
SPECIFICATION Spec
CHECK_DEADLOCK FALSE
INVARIANTS TypeOK GenericIsSpecialized ObjectsDistinct EverySourceCompiled CommandsCurrent
PROPERTY CommandsConstructed
