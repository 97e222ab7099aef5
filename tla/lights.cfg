SPECIFICATION FairSpec
CONSTANTS
  a = a
  b = b
  c = c
  d = d
  None = None
  Scene = {a, b, d}
  Played = {a}
  Cued = {b}
  MaxExecuters = 1
  Copy = {c}
  Origin <- MCOrigin
  TargetValue = 3
  Calm = TRUE
INVARIANTS LitIsListed AbandonedReturns
PROPERTIES DroppedIsDark CopyFreed
