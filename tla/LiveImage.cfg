SPECIFICATION Spec
CONSTANTS
  Threads = {t1}
  Views = {v1}
  Slots = {s1, s2}
  MaxFrames = 2
  NoView = NoView
  NoSlot = NoSlot
INVARIANTS
  TypeOK
  FlushOnItsWay
  ViewsCatchUp
  StagingExclusive
  OnscreenCountRight
PROPERTIES
  EveryFrameShown
  SlotsReleased
