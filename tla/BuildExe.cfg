\* Three processes in a row, each killed or failing anywhere, with the inputs of
\* a library edited between them.
CONSTANTS
  Sessions <- MCSessions
  Host <- MCHost
  Edited = {"libtpl"}
  MaxSessions = 3
  MaxSaved = 5
SPECIFICATION Spec
INVARIANTS TypeOK CommandsUseVerified LinksWhatItUses RunsFresh
INVARIANTS RunsMadeByVerified CompileCommandsCurrent OrderIsRight
CHECK_DEADLOCK FALSE
