SPECIFICATION Spec
CONSTANTS
  Pages <- MCPages
  KernelType = "KernelAndModules"
  Memories <- MCMemories
  MapsOf <- BlockMaps
  Slack = 3
  Growth = 1
  MaxInterference = 2
INVARIANTS TypeOK KernelMapExact NoOverrun Coalesced QuietExit OwnPagesKept
PROPERTIES ImplementsKernelView
CHECK_DEADLOCK FALSE
