SPECIFICATION Spec
CONSTANTS
  m1 = m1
  m2 = m2
  m3 = m3
  receiver = receiver
  Miners = {m1, m2, m3}
  Receiver = receiver
  Enrolled = {m1, m2}
  RoundResults <- MCResults
  NoRow = NoRow
  BatchSize = 2
  MaxRounds = 3
  MaxRows = 5
  MaxFaults = 1
  Faults = {"connection"}
CHECK_DEADLOCK FALSE
INVARIANTS
  OneRowPerChallenge
