SPECIFICATION Spec
CONSTANTS
  Kernels <- MCKernels
  Machines <- MCMachines
  Configs <- MCConfigs
  Dates <- MCDates
  MaxAttempts = 2
INVARIANTS TypeOK ListComplete EnteredAsAsked BestMode EpochOfClock
CHECK_DEADLOCK FALSE
