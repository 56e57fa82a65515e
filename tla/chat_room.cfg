SPECIFICATION Spec
CONSTANTS
  k1 = k1
  k2 = k2
  k3 = k3
  t1 = t1
  t2 = t2
  Clients = {k1, k2, k3}
  Threads = {t1, t2}
  Home <- MCHome
  SndBuf = 3
  Scripts <- Talk
  None = None
INVARIANTS
  NoDangling
  BroadcastsIntact
  SameOrder
PROPERTY EverybodyHears
\* Clients have nothing more to say, or a thread has entered a foreign scheduler.
CHECK_DEADLOCK FALSE
