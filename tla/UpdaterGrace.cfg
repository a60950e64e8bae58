CONSTANTS
  FlagSets = {NoFlags, a}
  NoFlags = NoFlags
  Absent = Absent
  Actions = {"NOP"}
  MaxVersion = 0
  MinUptime = 3
  Grace = 1
  Slack = 0
  KnownOutcomes = {TRUE, FALSE}
  Writers = {w1}
  None = None
  Disks = {"ok"}
  a = a
  w1 = w1

SPECIFICATION FairSpec
PROPERTIES FlagsReachAgent
