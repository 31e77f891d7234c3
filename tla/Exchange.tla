------------------------------ MODULE Exchange ------------------------------
(***************************************************************************)
(* What the mailbox and the message queue of ipc.c share: receivers wait   *)
(* for content in one list, senders for room in another.                   *)
(*                                                                         *)
(* The loops of the functions that block are one section per round: the    *)
(* first begins in application code, a later one where rt_schedule has     *)
(* returned (pc "woken") with the arguments kept in job[t].                *)
(***************************************************************************)
EXTENDS Jobs

CONSTANTS
  Receivers,   \* parent.suspend_thread, one of Queue
  Senders,     \* suspend_sender_thread, another one
  Size,        \* mb->size, mq->max_msgs
  Plain,       \* the contents that are sent
  Express,     \* the contents that are sent as urgent
  Flags        \* the flags the object is initialised with

(***************************************************************************)
(* As entry is less than the size where it is incremented, and the size at *)
(* most RT_MB_ENTRY_MAX and RT_MQ_ENTRY_MAX, the overflow branches of the  *)
(* functions that send are never taken and not modelled.                   *)
(***************************************************************************)
EntryMax == 65535

ASSUME ExchangeAssumption ==
  /\ Receivers \in Queue /\ Senders \in Queue /\ Receivers # Senders
  /\ Size \in Nat \ {0} /\ Size <= EntryMax
  /\ Junk \notin Plain \cup Express
  /\ Flags \subseteq {"fifo", "prio"}

Mail == Plain \cup Express

VARIABLES
  entry,   \* mb->entry, mq->entry
  flag,    \* parent.parent.flag
  stage    \* "open", then the list that a detach empties, then "gone"

exvars == << flag, stage, job >>

ExchangeInit ==
  /\ IpcInit
  /\ flag \in Flags
  /\ stage = "open"
  /\ NoJobs

-----------------------------------------------------------------------------
(* t calls op, or goes on in it after it was woken without an error. *)
Round(t, op, timeout, m) ==
  \/ InCall(t, op) /\ stage = "open" /\ timeout \in Timeouts
  \/ GoesOn(t, op, timeout, m)

(* The end of a call that succeeds: the first thread of list q is woken. *)
Wakes_OnEdge(q) ==
  k.wait[q] # << >> /\ Returning(IF q = Receivers THEN "recv" ELSE "send") = {}

Wakes(q) == k.wait[q] # << >>

WakeAndReturn(t, q) ==
  /\ k' = IF Wakes(q) THEN ResumeFirst(k, q) ELSE k
  /\ Goto(t, IF Wakes(q) THEN "sched" ELSE "run")
  /\ Done(t)
  /\ UNCHANGED << flag, stage >>

(* The same in an interrupt handler, which reaches rt_schedule at once *)
WakeFromIrq(q) ==
  /\ k' = IF Wakes(q) THEN Schedule(ResumeFirst(k, q)) ELSE k
  /\ UNCHANGED << pc, exvars >>

(* The waiters of both lists fail; rt_schedule comes next. *)
FailWaiters(t) ==
  /\ InCall(t, "reset") /\ stage = "open"
  /\ k' = ResumeAll(ResumeAll(k, Receivers), Senders)
  /\ Goto(t, "sched")
  /\ UNCHANGED exvars

-----------------------------------------------------------------------------
(***************************************************************************)
(* The functions that detach and delete empty the list of the receivers    *)
(* and then that of the senders.  Nobody uses the object afterwards, so it *)
(* is not detached while a thread is between two sections of a call or,    *)
(* once woken, on its way back into a loop, nor, as _ipc_list_resume_all   *)
(* tests the lists with interrupts enabled, while a waiter may time out.   *)
(***************************************************************************)
StartDetach(t) ==
  /\ InCall(t, "detach") /\ stage = "open"
  /\ NobodyInside({"send", "urgent", "recv"})
  /\ (Waiting(Receivers) \cup Waiting(Senders)) \cap k.armed = {}
  /\ stage' = "receivers"
  /\ Goto(t, "test")
  /\ UNCHANGED << k, flag, job >>

Swept == IF stage = "receivers" THEN Receivers ELSE Senders

SweepNext(t) ==
  /\ t = k.cur /\ pc[t] = "test"
  /\ stage = "receivers" /\ k.wait[Receivers] = << >>
  /\ stage' = "senders"
  /\ UNCHANGED << k, pc, flag, job >>

Sweep(t) ==
  /\ stage = "receivers" => k.wait[Receivers] # << >>
  /\ TestList(t, Swept)
  /\ stage' = IF k.wait[Swept] = << >> THEN "gone" ELSE stage
  /\ UNCHANGED << flag, job >>

FlushWaiter(t) == FlushOne(t, Swept) /\ UNCHANGED exvars

(* The object is initialised or created again. *)
Reopen(t) ==
  /\ InCall(t, "detach") /\ stage = "gone"
  /\ stage' = "open"
  /\ UNCHANGED << k, pc, flag, job >>

-----------------------------------------------------------------------------
(* The steps that leave the content of the object alone *)
WaiterStep(t) ==
  \/ CallFails(t) /\ UNCHANGED << flag, stage >>
  \/ SweepNext(t) \/ Sweep(t) \/ FlushWaiter(t)
  \/ (DoSchedule(t) \/ Sleep(t) \/ SleepReturns(t)) /\ UNCHANGED exvars

ClockStep ==
  (Tick \/ \E x \in Thread : TickTimeout(x)) /\ UNCHANGED exvars

-----------------------------------------------------------------------------
ExchangeType ==
  /\ k \in KernelType
  /\ flag \in Flags
  /\ stage \in {"open", "receivers", "senders", "gone"}
  /\ job \in [Thread -> JobType({"send", "urgent", "recv"}, Mail)]

(***************************************************************************)
(* A thread suspended in a receive or a send stands in the list of its     *)
(* side, where a send or a receive finds it, and has its timer running     *)
(* when it waits for a limited time.                                       *)
(***************************************************************************)
WaitersListed ==
  /\ Waiting(Receivers) = BlockedIn("recv")
  /\ Waiting(Senders) = BlockedIn("send")
  /\ \A t \in Waiting(Receivers) \cup Waiting(Senders) :
       job[t].wait = "timed" <=> t \in k.armed
=============================================================================
