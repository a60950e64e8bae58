CONSTANTS
  TTL = 2
  MaxPending = 2
  NoData = NoData

SPECIFICATION FairSpec
INVARIANTS TypeOK PendingExact FallbackIsConsistent
PROPERTIES StaleOnlyInOutage IdsCatchUp ReadsDrain
