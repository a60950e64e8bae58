CONSTANTS
  FlagSets = {NoFlags, a}
  NoFlags = NoFlags
  Absent = Absent
  Actions = {"NOP", "RESTART"}
  MaxVersion = 0
  MinUptime = 3
  Grace = 1
  Slack = 1
  KnownOutcomes = {TRUE, FALSE}
  Writers = {w1, w2}
  None = None
  Disks = {"ok", "failing"}
  a = a
  w1 = w1
  w2 = w2

SPECIFICATION Spec
INVARIANTS TypeOK
PROPERTIES SettledRestartIsDue NoHeaderOnlyFile DeliveryIsFinal
SYMMETRY WriterSymmetry
