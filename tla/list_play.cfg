SPECIFICATION FairSpec
CONSTANTS
  a = a
  b = b
  c = c
  x = x
  y = y
  None = None
  Items <- MCTracks
  List <- MCTrackList
  AudioItems <- MCTracks
  Delay <- MCTrackDelay
  Loops = 2
  Random = FALSE
  PlayList = TRUE
  PlaySlot = 1
  NSlots = 1
  Failing <- FirstFails
  Removable <- SecondLeaves
  Heard = TRUE
  Prompt = TRUE
  MaxUser = 3
INVARIANTS WaitIsAnswered
PROPERTIES Ended NoneSkipped InOrder
CHECK_DEADLOCK FALSE
