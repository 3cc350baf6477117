SPECIFICATION DeskSpec
CONSTANTS
  MaxAwakes = 3
  MaxTimers = 3
  Timeouts = {0, 1, 4, 33}
  Second = 2
  Minute = 5
  Word = 64
  Ping = 3
  MaxQueued = 1
CHECK_DEADLOCK FALSE
INVARIANTS
  SafeUnlessHasty
  ButtonTells
  PanelAgrees
  EndsOnlyUnused
  EndsInTime
PROPERTIES
  QuitEnds
  ButtonReturns
  LoopStops
  PreviewRests
