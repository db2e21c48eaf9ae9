SPECIFICATION FairSpec
CONSTANTS
  c1 = c1
  c2 = c2
  p1 = p1
  p2 = p2
  None = None
  Clients = {c1, c2}
  Pubkeys = {p1, p2}
  Wallet <- TwoWallets
  Diffs = {1}
  MinDifficulty = 1
  SubmitLimit = 2
  CheckLimit = 2
  WaitLimit = 1
  Reward = 2
  MaxLandings = 1
  MaxClaims = 0
  MaxReadies = 2
  MaxQueue = 1
  Faults = {"rpc", "confirmation"}
CHECK_DEADLOCK FALSE
PROPERTIES
  MiningResumes
  MinersAreServed
