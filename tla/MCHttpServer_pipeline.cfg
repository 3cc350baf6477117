SPECIFICATION Spec
CONSTANTS
  Ctx = {c1, c2}
  Req = {r1, r2, r3}
  None = None
  Kinds = {"page", "stream"}
  Env = {"pipeline"}
  MaxQueue = 3
  MaxCloseWrites = 2
SYMMETRY Symmetry
INVARIANTS
  PlainUnderWay
