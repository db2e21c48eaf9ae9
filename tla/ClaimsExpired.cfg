SPECIFICATION Spec
CONSTANTS
  m1 = m1
  m2 = m2
  r1 = r1
  r2 = r2
  r3 = r3
  None = None
  Miners = {m1, m2}
  Requests = {r1, r2, r3}
  Miner <- OwnRequests
  Amounts = {2}
  InitialBalance = 3
  MaxRequests = 1
  MaxTxs = 2
  MaxRestarts = 1
  MaxCredits = 0
  MaxLost = 0
  Faults = {"outage"}
CHECK_DEADLOCK FALSE
INVARIANTS
  ExpiredDidNotLand
