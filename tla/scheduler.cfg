SPECIFICATION CooperativeSpec
CONSTANTS
  c1 = c1
  c2 = c2
  f1 = f1
  f2 = f2
  Coros = {c1, c2}
  Fds = {f1, f2}
  Events = {"in"}
  Access <- SharedAccess
  Posters = {p1, p2}
  PipeFd = pipeFd
  None = None
  PipeCap = 1
  MaxEvents = 2
  MaxInt = 1
  IdleWait = 1
  MaxTime = 2
INVARIANTS
  OnePlace
  NoLostCoroutine
  WaiterIsArmed
  NoLostPost
  NoOversleep
  NothingLeaks
PROPERTIES
  SleepHonoured
  ExecutorSafety
  PostedRuns
  SleeperRuns
  WaiterRuns
CHECK_DEADLOCK FALSE
