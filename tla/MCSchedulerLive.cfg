CONSTANTS
  main = main
  peer = main
  urgent = urgent
  Idle = idle
  Thread <- MCThread
  MaxPrio = 2
  InitPrio <- MCInitPrio
  Queue = {}
  Main = main
  InitTick <- MCInitTick
  Calls <- AllCalls
  NewPrio = {0, 1}
  MaxLock = 1
  EndInUse = FALSE
SPECIFICATION FairSpec
PROPERTY PriorityServed
