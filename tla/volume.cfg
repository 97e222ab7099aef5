SPECIFICATION FairSpec
CONSTANTS
  a1 = a1
  a2 = a2
  Items = {a1, a2}
  InitVol <- Vols
  FadeIn <- Ins
  FadeOut <- Outs
  Held = {a1, a2}
  Hooks = {a1, a2, None}
  MaxVolume = 3
  Levels = {0, 2}
  Times = {0, 2}
  MaxCalls = 2
  None = None
CHECK_DEADLOCK FALSE
INVARIANT OwnFade
PROPERTIES
  PickUp
  HeldEnds
