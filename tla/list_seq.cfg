SPECIFICATION Spec
CONSTANTS
  a = a
  b = b
  c = c
  x = x
  y = y
  None = None
  Items <- MCSteps
  List <- MCStepList
  AudioItems <- MCStepAudio
  Delay <- MCStepDelay
  Loops = 1
  Random = TRUE
  PlayList = FALSE
  PlaySlot = 1
  NSlots = 2
  Failing <- FirstFails
  Removable <- TwoLeave
  Heard = FALSE
  Prompt = FALSE
  MaxUser = 1
PROPERTIES InOrder
CHECK_DEADLOCK FALSE
