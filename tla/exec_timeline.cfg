SPECIFICATION Spec
CONSTANTS
  e1 = e1
  e2 = e2
  e3 = e3
  u1 = u1
  f1 = f1
  f2 = f2
  f3 = f3
  f4 = f4
  f5 = f5
  Exec = {e1, e2}
  Fx = {f1, f2}
  FxKind <- TimeLineAndScript
  Attached = {"STOP_ALL", "START_FX", "STOP_ALL_SEQ_AND_SCRIPTS"}
  Users = {u1}
  NoExec = NoExec
  NoFx = NoFx
  MaxPosted = 1
  MaxAudioMsg = 1
SYMMETRY Symmetry
INVARIANTS
  TypeOK
  PointersLive
  UseCountExact
  DeletedIsDoomed
