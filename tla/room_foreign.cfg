SPECIFICATION Spec
CONSTANTS
  k1 = k1
  k2 = k2
  k3 = k3
  t1 = t1
  t2 = t2
  Clients = {k1, k2}
  Threads = {t1, t2}
  Home <- TwoHomes
  SndBuf = 3
  Scripts <- Silence
  None = None
INVARIANT OwnThread
\* The model stops at the foreign switch.
CHECK_DEADLOCK FALSE
