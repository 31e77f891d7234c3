CONSTANTS
  low = low
  mid = mid
  urgent = urgent
  Idle = idle
  Thread <- MCThread
  MaxPrio = 3
  InitPrio <- MCInitPrio
  Queue = {m1, m2}
  Main = urgent
  InitReady <- MCInitReady
  None = none
  Calls = {"take", "release", "sleep"}
  HoldMax = 1
  Timeouts = {"forever"}
SPECIFICATION Spec
INVARIANT PriorityRestored
