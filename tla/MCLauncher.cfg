SPECIFICATION Spec
CONSTANT FaultModels <- Faults
INVARIANTS
  OwnExitIsClean
  PublishedIsFinal
CHECK_DEADLOCK FALSE
