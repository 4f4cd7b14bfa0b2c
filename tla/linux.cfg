SPECIFICATION Spec
CONSTANTS
  Pages <- MCPages
  Memories <- MCMemories
  MapsOf <- BlockMaps
  Growth = 1
  Headers <- MCHeaders
  Slack = 1
  E820Max = 3
  MaxInterference = 1
INVARIANTS TypeOK MapsTrue OnlyTailLost QuietExit
CHECK_DEADLOCK FALSE
