SPECIFICATION Spec
CONSTANTS
  k1 = k1
  k2 = k2
  k3 = k3
  t1 = t1
  t2 = t2
  Clients = {k1, k2}
  Threads = {t1, t2}
  Home <- OneHome
  SndBuf = 3
  Scripts <- OneText
  None = None
INVARIANT NoSelfDeadlock
\* A suspended broadcast may stop its thread for ever.
CHECK_DEADLOCK FALSE
