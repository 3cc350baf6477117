SPECIFICATION Spec
CONSTANTS
  Ws = {w1, w2}
  Mjpeg = {m1, m2}
  Encoder = "h264"
  KeyInt = 4
  Env = {}
CHECK_DEADLOCK FALSE
INVARIANTS
  NoRace
  Decodable
  KeyPrompt
PROPERTIES
  KeyArrives
