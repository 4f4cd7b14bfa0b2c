SPECIFICATION FairSpec
CONSTANTS
  DefaultDelay = 1
  MaxDelay = 2
  Second = 2
  TIMER_INTERVAL = 1
  Int32Modulus = 16
  UintnModulus = 32
  NoConfig = NoConfig
  Files <- MCFiles
  Machines <- MCMachines
  KeyBufferSize = 1
  LowestDefaultOS <- MCLowestDefaultOS
  MaxBoots = 2
INVARIANTS TypeOK TimerOwnership CountdownOnlyUnattended SelectedRowBoots SavedConfigUsable CountdownTakesDelay AssertExplained
PROPERTIES ImplementsAutoBoot CountdownEnds
CHECK_DEADLOCK FALSE
