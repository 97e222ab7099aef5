SPECIFICATION FairSpec
CONSTANTS
  o1 = o1
  o2 = o2
  o3 = o3
  o4 = o4
  cmd = cmd
  curve = curve
  Rows <- MCRows
  Kind <- MCKind
  Fx <- MCFx
  Plans <- MCPlans
  From <- MCFrom
  Interval = 2
  MaxTime = 6
  Sound = TRUE
  Prompt = TRUE
INVARIANTS NeverPast OnStage CurvesFollowed
PROPERTIES  Pauses Plays
CHECK_DEADLOCK FALSE
