SPECIFICATION Spec
CONSTANTS
  Clients = {k1, k2, k3}
  Scheds = {s1, s2}
  MaxFds = 2
  None = None
INVARIANT NoLeak
CHECK_DEADLOCK FALSE
