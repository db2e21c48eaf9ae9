SPECIFICATION FairSpec
CONSTANTS
  t1 = t1
  t2 = t2
  Workers = {t1, t2}
  Difficulties = {9, 10}
  MaxConnections = 1
  MaxMissions = 2
CHECK_DEADLOCK FALSE
INVARIANTS
  SentIncreasing
  BestIsSent
  ReadyOnlyBetweenMissions
PROPERTIES
  CtrlCExits
  MissionsEnd
