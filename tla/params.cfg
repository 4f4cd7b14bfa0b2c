SPECIFICATION Spec
CONSTANTS
  Kernels <- MCKernels
  Machines <- MCMachines
  Configs <- MCConfigs
  Modes <- MCModes
  DescriptorSize = 48
  Slack = 144
  MaxAttempts = 2
INVARIANTS TypeOK TagsDisjoint TagsComplete RequestsMet HeaderObeyed
CHECK_DEADLOCK FALSE
