CONSTANTS
  FlagSets = {NoFlags}
  NoFlags = NoFlags
  Absent = Absent
  Actions = {"NOP", "UPDATE", "RESTART"}
  MaxVersion = 2
  MinUptime = 2
  Grace = 0
  Slack = 0
  KnownOutcomes = {TRUE, FALSE}
  Writers = {w1, w2}
  None = None
  Disks = {"ok", "failing", "wedged"}
  w1 = w1
  w2 = w2

SPECIFICATION FairSpec
INVARIANTS AckSurvivesRestart
PROPERTIES VersionCatchesUp PollLoopReturns
