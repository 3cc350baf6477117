SPECIFICATION HurriedSpec
CONSTANTS
  Ctx = {c1, c2}
  Req = {r1, r2, r3}
  None = None
  Kinds = {"page", "mjpeg", "stream"}
  Env = {"eof", "abort", "close", "pipeline", "burst", "binary", "timeout", "refuse", "stop"}
  MaxQueue = 2
  MaxCloseWrites = 2
SYMMETRY Symmetry
INVARIANTS
  ReqsCounted
  ContextOutlivesRequests
  ClientsAlive
  RegistryLive
  PlainInOnePlace
  OnlyHurried
  RunningWhileWatched
