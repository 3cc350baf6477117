SPECIFICATION Spec
CONSTANTS
  Session = {s1, s2}
  Consumer = {c1, c2}
  Frame = {f1, f2}
  NoFrame = NoFrame
  None = None
  Env = {"fail", "late", "restart"}
CHECK_DEADLOCK FALSE
SYMMETRY Symmetry
INVARIANTS Exclusive NoLostWakeup
