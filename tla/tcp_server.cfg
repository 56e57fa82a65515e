SPECIFICATION FairSpec
CONSTANTS
  Clients = {k1, k2, k3}
  Scheds = {s1, s2}
  MaxFds = 2
  None = None
INVARIANTS
  OneOwner
  OwnSocket
PROPERTY Served
\* Nothing is left to do when all clients came and went.
CHECK_DEADLOCK FALSE
