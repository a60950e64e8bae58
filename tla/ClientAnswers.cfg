CONSTANTS
  Lifetime = 3
  Margin = 1
  DefaultTTL = 1
  Conditions = {"up", "refuses", "hangs"}
  NoToken = NoToken
  Deadline = 1
  PollsPerTick = 2
  Retrying = TRUE
  p = p
  Paths = {p}

SPECIFICATION FairClientSpec
INVARIANTS ClientTypeOK CachedTokenIsAlive
PROPERTIES OutageTolerated TimeoutRidesAlong PollsEnd AnsweredWithoutHang
PROPERTIES AnsweredViaFallback
