SPECIFICATION Spec
CONSTANTS
  Ws = {w1, w2}
  Mjpeg = {m1}
  Encoder = "jpeg"
  KeyInt = 4
  Env = {"rejoin", "capfail"}
CHECK_DEADLOCK FALSE
INVARIANTS
  TurnAlive
PROPERTIES
  Rests
  WorkerStops
