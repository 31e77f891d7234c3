CONSTANTS
  main = main
  peer = peer
  urgent = urgent
  Idle = idle
  Thread <- MCThread
  MaxPrio = 2
  InitPrio <- MCInitPrio
  Queue = {rx, tx}
  Receivers = rx
  Senders = tx
  Main = urgent
  InitReady <- MCInitReady
  Calls = {"send", "recv", "urgent", "irqsend", "reset", "detach"}
  Size = 2
  Plain = {a}
  Express = {u}
  Junk = junk
  Flags = {"prio"}
  Timeouts = {"timed", "forever"}
SPECIFICATION Spec
INVARIANT TypeOK
INVARIANT WaitersListed
INVARIANT NoStrandedMail
INVARIANT NoIdleSlot
PROPERTY KeepsOrder
