CONSTANTS
  main = main
  peer = peer
  urgent = urgent
  Idle = idle
  Thread <- MCThread
  MaxPrio = 2
  InitPrio <- EqualPrio
  Queue = {}
  Main = main
  InitTick <- MCInitTick
  Calls = {"startup"}
  NewPrio = {0, 1}
  MaxLock = 1
  EndInUse = FALSE
SPECIFICATION Spec
PROPERTY ExpiredGoesLast
