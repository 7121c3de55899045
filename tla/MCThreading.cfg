\* Every order of the threads, and every start that can fail; the process ends.
CONSTANTS
  Sizes <- Rounds
  Faults = {"malloc", "pthread_create"}
SPECIFICATION Spec
CHECK_DEADLOCK FALSE
INVARIANTS UsedBlocksAreLive RoundsAreSettled WaitsAreForRunners
PROPERTIES MainReturns
