CONSTANTS
  Lifetime = 2
  Margin = 1
  DefaultTTL = 1
  Conditions = {"up", "hangs"}
  NoToken = NoToken
  Deadline = 1
  PollsPerTick = 2
  Retrying = TRUE
  Paths = {}

SPECIFICATION FairClientSpec
PROPERTIES AnsweredFromFile
