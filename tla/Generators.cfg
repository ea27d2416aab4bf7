\* Three processes in a row, each with any of the scripts.
CONSTANTS
  Generators <- MCGeneratorSet
  Kind <- MCKind
  Deps <- MCDeps
  Scripts <- MCScripts
  Identifiers <- MCIdentifiers
  Saved = {"in"}
  MaxProcesses = 3
SPECIFICATION Spec
INVARIANTS TypeOK OutputsCurrent RunsNothingAgain
CHECK_DEADLOCK FALSE
