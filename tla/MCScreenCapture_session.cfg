SPECIFICATION Spec
CONSTANTS
  Session = {s1, s2}
  Consumer = {c1}
  Frame = {f1, f2}
  NoFrame = NoFrame
  None = None
  Env = {}
CHECK_DEADLOCK FALSE
PROPERTIES
  Handoff
  CaptureReturns
  StopFrees
