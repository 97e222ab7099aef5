SPECIFICATION FairSpec
CONSTANTS
  a = a
  b = b
  c = c
  None = None
  Items <- ThreeItems
  Place <- PlaceSome
  Attached <- CmdExec
  MainItems <- OneItem
  ExecItems <- ItemB
  PlayItems <- ItemC
  PlaySlot = 2
  Apart = TRUE
  NSlots = 2
  Broken <- ItemC
  Before <- OneItem
  MaxCalls = 3
INVARIANTS OneStart NoDoubleStart NoLockCycle StopIdReads
PROPERTIES StartTaken CallsReturn
CHECK_DEADLOCK FALSE
