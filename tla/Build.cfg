SPECIFICATION Spec
CONSTANTS
  Stock <- MCStock  OrgLine = 201  Edits <- MCEdits
INVARIANTS CleanBuilds EveryReadPatched NothingUndeclared NothingCutOff
CHECK_DEADLOCK FALSE
