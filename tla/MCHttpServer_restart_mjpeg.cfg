SPECIFICATION Spec
CONSTANTS
  Ctx = {c1, c2, c3}
  Req = {r1, r2, r3}
  None = None
  Kinds = {"mjpeg", "stream"}
  Env = {"stop"}
  MaxQueue = 3
  MaxCloseWrites = 2
SYMMETRY Symmetry
INVARIANTS
  StopClosesAll
