SPECIFICATION Spec
CONSTANTS
  a1 = a1
  a2 = a2
  Addrs = {a1, a2}
  MaxConns = 2
  SlowPing = 15
  Step = 15
INVARIANTS
  SocketsAreRead
  AnsweringAreKept
  RegisteredAreHeard
  SilentAreRemoved
