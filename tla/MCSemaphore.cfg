CONSTANTS
  main = main
  peer = peer
  urgent = urgent
  Idle = idle
  Thread <- MCThread
  MaxPrio = 2
  InitPrio <- MCInitPrio
  Queue = {sem}
  Sem = sem
  Main = urgent
  InitReady <- MCInitReady
  Calls = {"take", "release", "irqrelease", "reset", "detach", "sleep"}
  ValueMax = 2
  InitValue = {0, 1}
  ResetArg = {0, 3, 4}
  Timeouts = {"none", "timed", "forever"}
  DetachTimed = FALSE
SPECIFICATION FairSpec
INVARIANT TypeOK
INVARIANT KernelConsistent
INVARIANT WaitersListed
INVARIANT NoIdlePermit
PROPERTY KeepsPromise
PROPERTY FifoServed
