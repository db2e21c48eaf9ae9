SPECIFICATION Spec
CONSTANTS
  c1 = c1
  c2 = c2
  p1 = p1
  p2 = p2
  None = None
  Clients = {c1, c2}
  Pubkeys = {p1, p2}
  Wallet <- TwoWallets
  Diffs = {1, 2}
  MinDifficulty = 1
  SubmitLimit = 2
  CheckLimit = 2
  WaitLimit = 1
  Reward = 2
  MaxLandings = 1
  MaxClaims = 1
  MaxReadies = 2
  MaxQueue = 2
  Faults = {"rpc", "delay"}
CHECK_DEADLOCK FALSE
INVARIANTS
  TypeOK
  BestHashIsBest
  BestIsFrozen
  PauseIsHeld
