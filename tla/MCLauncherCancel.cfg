SPECIFICATION Spec
CONSTANT FaultModels <- OwnFaults
INVARIANT CanceledTreeIsStopped
CHECK_DEADLOCK FALSE
