SPECIFICATION HurriedSpec
CONSTANTS
  Ctx = {c1, c2}
  Req = {r1, r2, r3}
  None = None
  Kinds = {"page", "mjpeg", "stream", "test"}
  Env = {"eof", "timeout", "refuse"}
  MaxQueue = 3
  MaxCloseWrites = 2
INVARIANTS
  NoFault
  PlainUnderWay
  WsServed
PROPERTIES
  ClosedIsFreed
