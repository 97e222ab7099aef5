SPECIFICATION FairSpec
CONSTANTS
  Full = 5
  TargetValue = 4
  ToValues = {0, 1, 3, 5}
  Steps = {0, 2, 3}
  Scale = 6
  Overlap = FALSE
  MaxCalls = 4
CHECK_DEADLOCK FALSE
INVARIANTS
  Converges
  BlackDarkens
  FadeOccurs
PROPERTIES
  FadeImplemented
  FadeEnds
