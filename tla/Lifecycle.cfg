CONSTANTS
  a1 = a1
  a2 = a2
  Agents = {a1, a2}
  Configs <- MCConfigs

SPECIFICATION FairSpec
INVARIANTS TypeOK FewLatePolls
PROPERTIES ExitIsGraceful SignalEndsProcess AgentsIndependent
