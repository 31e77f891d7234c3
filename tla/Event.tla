------------------------------- MODULE Event -------------------------------
(***************************************************************************)
(* An event object of ipc.c: a set of bits that threads wait for.  What a  *)
(* waiting thread asked for (thread->event_set and thread->event_info) is  *)
(* the argument of its job: the bits, whether it needs all or any of them, *)
(* and whether they are cleared when it gets them.                         *)
(***************************************************************************)
EXTENDS Jobs

CONSTANTS
  EventList,  \* the event's suspend list, one of Queue
  EventUsers, \* the threads that call rt_event_recv
  Bit,        \* the bits of event->set
  Requests,   \* what rt_event_recv is called with
  SentBits,   \* what rt_event_send is called with
  Flags       \* the flags rt_event_init is called with

ASSUME EventAssumption ==
  /\ EventList \in Queue /\ EventUsers \subseteq Thread
  /\ Requests \subseteq [bits : (SUBSET Bit) \ {{}}, mode : {"and", "or"}, clear : BOOLEAN]
  /\ SentBits \subseteq (SUBSET Bit) \ {{}}
  /\ Flags \subseteq {"fifo", "prio"}

VARIABLES
  events,     \* event->set
  flag,       \* event->parent.parent.flag
  eventOpen   \* the event is initialised and nobody is detaching it

eventvars == << events, flag, eventOpen >>

EventInit == events = {} /\ flag \in Flags /\ eventOpen = TRUE

InEvent(t, f) == InCall(t, f) /\ eventOpen

-----------------------------------------------------------------------------
(* rt_event_recv *)

Satisfied(r, set) ==
  IF r.mode = "and" THEN r.bits \subseteq set ELSE r.bits \cap set # {}

RecvNow(t, r) ==
  /\ InEvent(t, "evrecv") /\ t \in EventUsers
  /\ Satisfied(r, events)
  /\ events' = IF r.clear THEN events \ r.bits ELSE events
  /\ k' = [k EXCEPT !.err[t] = "ok"]
  /\ UNCHANGED << pc, job, flag, eventOpen >>

RecvFails(t, r) ==
  /\ InEvent(t, "evrecv") /\ t \in EventUsers /\ "none" \in Timeouts
  /\ ~ Satisfied(r, events)
  /\ k' = [k EXCEPT !.err[t] = "timeout"]
  /\ UNCHANGED << pc, job, eventvars >>

RecvWaits(t, r, timeout) ==
  /\ InEvent(t, "evrecv") /\ t \in EventUsers
  /\ ~ Satisfied(r, events)
  /\ BlockOn(t, EventList, flag, "evrecv", timeout, r)
  /\ UNCHANGED eventvars

(* the call returns with the bits in thread->event_set *)
RecvReturns(t) ==
  /\ \E timeout \in {"none", "timed", "forever"} : GoesOn(t, "evrecv", timeout, job[t].arg)
  /\ Goto(t, "run")
  /\ Done(t)
  /\ UNCHANGED << k, eventvars >>

-----------------------------------------------------------------------------
(***************************************************************************)
(* rt_event_send looks at the waiters in the order of the list; z holds    *)
(* what the scan has changed so far.  A thread that gets its bits and      *)
(* clears them hides them from the threads behind it.                      *)
(***************************************************************************)
Offered_NotCleared(z, t) ==
  LET r   == z.job[t].arg
      got == r.bits \cap z.events
  IN  IF ~ Satisfied(r, z.events) THEN z
      ELSE [k |-> Resume(z.k, t), events |-> z.events,
            job |-> [z.job EXCEPT ![t].arg.bits = got]]

Offered(z, t) ==
  LET r   == z.job[t].arg
      got == r.bits \cap z.events
  IN  IF ~ Satisfied(r, z.events) THEN z
      ELSE [k      |-> Resume(z.k, t),
            events |-> IF r.clear THEN z.events \ got ELSE z.events,
            job    |-> [z.job EXCEPT ![t].arg.bits = got]]

Sent_FirstOnly(bits) ==
  LET z == [k |-> k, events |-> events \cup bits, job |-> job]
  IN  IF k.wait[EventList] = << >> THEN z ELSE Offered(z, Head(k.wait[EventList]))

Sent(bits) ==
  LET after[n \in 0 .. Len(k.wait[EventList])] ==   \* once n threads have been looked at
        IF n = 0 THEN [k |-> k, events |-> events \cup bits, job |-> job]
        ELSE Offered(after[n - 1], k.wait[EventList][n])
  IN  after[Len(k.wait[EventList])]

Send(t, bits) ==
  LET z == Sent(bits)
  IN  /\ InEvent(t, "evsend")
      /\ k' = z.k /\ events' = z.events /\ job' = z.job
      /\ Goto(t, IF z.k # k THEN "sched" ELSE "run")
      /\ UNCHANGED << flag, eventOpen >>

(* the same in an interrupt handler, which reaches rt_schedule at once *)
IrqSend(bits) ==
  LET z == Sent(bits)
  IN  /\ "irqevent" \in Calls /\ eventOpen
      /\ k' = IF z.k # k THEN Schedule(z.k) ELSE k
      /\ events' = z.events /\ job' = z.job
      /\ UNCHANGED << pc, flag, eventOpen >>

(* rt_event_control(RT_IPC_CMD_RESET) *)
ResetEvent(t) ==
  /\ InEvent(t, "evreset")
  /\ k' = ResumeAll(k, EventList)
  /\ events' = {}
  /\ Goto(t, "sched")
  /\ UNCHANGED << job, flag, eventOpen >>

-----------------------------------------------------------------------------
(***************************************************************************)
(* rt_event_detach, rt_event_delete.  As _ipc_list_resume_all tests the    *)
(* list with interrupts enabled, no waiter may time out meanwhile.         *)
(***************************************************************************)
DetachEvent(t) ==
  /\ InEvent(t, "evdetach")
  /\ NobodyInside({"evrecv"}) /\ Waiting(EventList) \cap k.armed = {}
  /\ BeginFlush(t, "evdetach")
  /\ eventOpen' = FALSE
  /\ UNCHANGED << events, flag >>

(* rt_event_init or rt_event_create, once the old event is gone *)
InitEvent(t) ==
  /\ InCall(t, "evdetach") /\ ~ eventOpen
  /\ \A u \in Thread : job[u].op # "evdetach"
  /\ events' = {} /\ eventOpen' = TRUE
  /\ UNCHANGED << k, pc, job, flag >>

-----------------------------------------------------------------------------
EventStep(t) ==
  \/ RecvReturns(t) \/ ResetEvent(t) \/ DetachEvent(t) \/ InitEvent(t)
  \/ FlushStep(t, EventList, "evdetach") /\ UNCHANGED eventvars
  \/ \E bits \in SentBits : Send(t, bits)
  \/ \E r \in Requests :
       RecvNow(t, r) \/ RecvFails(t, r) \/ \E timeout \in Timeouts : RecvWaits(t, r, timeout)

EventIrq == \E bits \in SentBits : IrqSend(bits)

EventType ==
  /\ events \subseteq Bit
  /\ flag \in Flags
  /\ eventOpen \in BOOLEAN

(***************************************************************************)
(* No event is missed: a thread is never left waiting for bits that are    *)
(* all (or, for an OR request, in part) set, in whatever order the sends,  *)
(* the interrupts and the calls that start to wait come, and whichever     *)
(* waiters one send wakes.                                                 *)
(***************************************************************************)
NoMissedEvent ==
  \A t \in Waiting(EventList) :
    LET r == job[t].arg
    IN  IF r.mode = "and" THEN r.bits \ events # {} ELSE r.bits \cap events = {}
=============================================================================
