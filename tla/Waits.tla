------------------------------- MODULE Waits -------------------------------
(***************************************************************************)
(* An event, a memory pool and a completion used by the same threads: they *)
(* share each thread's list node, timer and error number, and the          *)
(* scheduler.                                                              *)
(***************************************************************************)
EXTENDS Event, Mempool, Completion

ASSUME WaitsAssumption ==
  EventList # PoolList /\ PoolList # DoneList /\ EventList # DoneList

objects == << events, flag, eventOpen, free, poolOpen, done >>
vars == << k, pc, job, events, flag, eventOpen, free, poolOpen, done >>

Init == IpcInit /\ NoJobs /\ EventInit /\ PoolInit /\ CompletionInit

ThreadStep(t) ==
  \/ EventStep(t) /\ UNCHANGED << poolvars, done >>
  \/ PoolStep(t) /\ UNCHANGED << eventvars, done >>
  \/ CompletionStep(t) /\ UNCHANGED << eventvars, poolvars >>
  \/ CallFails(t) /\ job[t].op # "wait" /\ UNCHANGED objects
  \/ (DoSchedule(t) \/ Sleep(t) \/ SleepReturns(t)) /\ UNCHANGED << job, objects >>

IrqStep ==
  \/ EventIrq /\ UNCHANGED << poolvars, done >>
  \/ IrqFree /\ UNCHANGED << eventvars, done >>
  \/ IrqDone /\ UNCHANGED << eventvars, poolvars >>

ClockStep == (Tick \/ \E x \in Thread : TickTimeout(x)) /\ UNCHANGED << job, objects >>

Next == (\E t \in Thread : ThreadStep(t)) \/ IrqStep \/ ClockStep

Spec == Init /\ [][Next]_vars

-----------------------------------------------------------------------------
(* Properties *)

EventArgs == [bits : (SUBSET Bit) \ {{}}, mode : {"and", "or"}, clear : BOOLEAN]

TypeOK ==
  /\ k \in KernelType
  /\ pc \in [Thread -> IpcPC \cup {"done"}]
  /\ job \in [Thread -> JobType({"evrecv", "evdetach", "alloc", "mpdetach", "wait"}, EventArgs)]
  /\ EventType /\ PoolType /\ done \in BOOLEAN

(***************************************************************************)
(* A thread stands in the list of the object it waits for and in no other, *)
(* and its one timer runs exactly while it waits for a limited time,       *)
(* whatever it waited for before and however that wait ended.              *)
(***************************************************************************)
WaitersListed ==
  /\ Waiting(EventList) = BlockedIn("evrecv")
  /\ Waiting(PoolList) = BlockedIn("alloc")
  /\ Waiting(DoneList) = BlockedIn("wait")
  /\ \A t \in Waiting(EventList) \cup Waiting(PoolList) \cup Waiting(DoneList) :
       job[t].wait = "timed" <=> t \in k.armed

(***************************************************************************)
(* Bits are consumed once: when one send wakes several threads, each gets  *)
(* what it asked for, and bits that a thread clears are neither left in    *)
(* the event nor given to a thread behind it in the list.                  *)
(***************************************************************************)
GetsBits(t) ==
  /\ job[t].op = "evrecv"
  /\ k.stat[t] = "suspend" /\ k'.stat[t] # "suspend" /\ k'.err[t] = "ok"

Ahead(t, u) ==
  \E i, j \in DOMAIN k.wait[EventList] :
    i < j /\ k.wait[EventList][i] = t /\ k.wait[EventList][j] = u

ConsumedOnce ==
  \A t \in {u \in Thread : GetsBits(u)} :
    LET asked == job[t].arg
        got   == job'[t].arg.bits
    IN  /\ got # {} /\ got \subseteq asked.bits
        /\ asked.mode = "and" => got = asked.bits
        /\ asked.clear => /\ got \cap events' = {}
                          /\ \A u \in Thread : GetsBits(u) /\ Ahead(t, u)
                               => got \cap job'[u].arg.bits = {}

BitsConsumedOnce == [][ConsumedOnce]_vars
=============================================================================
