SPECIFICATION FairSpec
CONSTANTS
  m1 = m1
  m2 = m2
  receiver = receiver
  h1 = h1
  h2 = h2
  NoRow = NoRow
  Pubkeys = {m1, m2, receiver}
  Receiver = receiver
  Disabled = {m2}
  Handlers = {h1, h2}
  MaxRequests = 3
  MaxFaults = 2
  Faults = {"connection", "statement", "answer", "crash"}
CHECK_DEADLOCK FALSE
INVARIANTS
  TypeOK
  AtMostOneBalance
  SuccessCanBePaid
  EnrolledCompletely
PROPERTIES
  StartsAgain
