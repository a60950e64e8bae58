CONSTANTS
  FlagSets = {NoFlags, a}
  NoFlags = NoFlags
  Absent = Absent
  Actions = {"NOP"}
  MaxVersion = 0
  MinUptime = 3
  Grace = 1
  Slack = 0
  KnownOutcomes = {TRUE, FALSE}
  Writers = {w1, w2}
  None = None
  Disks = {"ok", "wedged"}
  a = a
  w1 = w1
  w2 = w2

SPECIFICATION FairSpec
PROPERTIES FileConverges PendingRestartHappens
