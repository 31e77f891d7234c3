CONSTANTS
  low = low
  mid = mid
  urgent = urgent
  Idle = idle
  Thread <- MCThread
  MaxPrio = 3
  InitPrio <- MCInitPrio
  Queue = {m1}
  Main = urgent
  InitReady <- MCInitReady
  None = none
  Calls = {"take", "release", "detach", "sleep"}
  HoldMax = 2
  Timeouts = {"none", "timed", "forever"}
SPECIFICATION Spec
INVARIANT TypeOK
INVARIANT KernelConsistent
INVARIANT OwnershipExact
INVARIANT ExclusiveHold
INVARIANT NoInversion
INVARIANT PlainPriorityRestored
PROPERTY HandedToHighest
