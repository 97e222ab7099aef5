SPECIFICATION FairSpec
CONSTANTS
  s = s
  t = t
  Scripts <- MCScripts
  Scenes <- MCScenes
  MaxExec = 2
  MaxTime = 8
  Late = 1
  MaxUser = 3
  Sound = TRUE
  Prompt = TRUE
INVARIANTS LoopsExact OneAtATime CancelDarkens
PROPERTIES PassReturns Ends
CHECK_DEADLOCK FALSE
