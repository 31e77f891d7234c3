CONSTANTS
  main = main
  peer = peer
  urgent = urgent
  Idle = idle
  Thread <- MCThread
  MaxPrio = 2
  InitPrio <- MCInitPrio
  Queue = {}
  Main = main
  InitTick <- MCInitTick
  Calls <- AllCalls
  NewPrio = {0, 1}
  MaxLock = 1
  EndInUse = FALSE
SPECIFICATION Spec
INVARIANT TypeOK
INVARIANT KernelConsistent
INVARIANT ControlConsistent
PROPERTY PreemptedRightly
PROPERTY FreedByIdle
