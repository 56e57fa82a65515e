SPECIFICATION FairSpec
CONSTANTS
  a = a
  b = b
  c = c
  ab = ab
  bc = bc
  Coros = {a, b, c}
  Channels = {ab, bc}
  Senders <- LineSenders
  Receivers <- LineReceivers
  None = None
  MaxSends = 3
INVARIANTS
  NobodyStranded
PROPERTIES
  SyncOnReturn
  RendezvousSpec
  Delivered
\* Coroutines whose peers have stopped sending wait for ever.
CHECK_DEADLOCK FALSE
