CONSTANTS
  main = main
  Worker = worker
  Idle = idle
  Thread <- MCThread
  MaxPrio = 1
  InitPrio <- MCInitPrio
  Queue = {sync}
  SyncList = sync
  Main = main
  InitReady <- MCInitReady
  Calls = {"dowork", "submit", "urgent", "cancel", "sync"}
  Work = {w1}
  NoWork = nowork
SPECIFICATION Spec
INVARIANT HandlerHasQueue
