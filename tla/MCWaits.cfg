CONSTANTS
  main = main
  peer = peer
  urgent = urgent
  b0 = b0
  b1 = b1
  Idle = idle
  Thread <- MCThread
  MaxPrio = 2
  InitPrio <- MCInitPrio
  Queue = {ev, mp, co}
  EventList = ev
  PoolList = mp
  DoneList = co
  Main = urgent
  InitReady <- MCInitReady
  Calls = {"evrecv", "evsend", "irqevent", "evreset", "evdetach", "alloc", "free", "irqfree", "mpdetach", "wait", "done", "irqdone"}
  Timeouts = {"none", "timed"}
  Junk = junk
  Bit = {b0, b1}
  Requests <- MCRequests
  SentBits <- MCSentBits
  Flags = {"fifo"}
  Blocks = 2
  EventUsers = {main, peer}
  PoolUsers = {peer, urgent}
  DoneUsers = {main}
SPECIFICATION Spec
INVARIANT TypeOK
INVARIANT WaitersListed
INVARIANT NoMissedEvent
INVARIANT NoIdleBlock
INVARIANT NoSleepOnDone
PROPERTY BitsConsumedOnce
