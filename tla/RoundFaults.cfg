SPECIFICATION Spec
CONSTANTS
  c1 = c1
  c2 = c2
  p1 = p1
  p2 = p2
  None = None
  Clients = {c1}
  Pubkeys = {p1}
  Wallet <- OneWallet
  Diffs = {1}
  MinDifficulty = 1
  SubmitLimit = 2
  CheckLimit = 2
  WaitLimit = 1
  Reward = 2
  MaxLandings = 2
  MaxClaims = 0
  MaxReadies = 3
  MaxQueue = 2
  Faults = {"rpc", "confirmation", "notification", "disconnect"}
CHECK_DEADLOCK FALSE
INVARIANTS
  SettledIsLanded
PROPERTIES
  ImplementsRoundLife
