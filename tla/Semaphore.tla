----------------------------- MODULE Semaphore -----------------------------
(***************************************************************************)
(* A semaphore of ipc.c, taken and released by threads and released by     *)
(* interrupts, over the kernel state of module Kernel.                     *)
(***************************************************************************)
EXTENDS Ipc

CONSTANTS
  Sem,          \* the semaphore's suspend list, one of Queue
  ValueMax,     \* RT_SEM_VALUE_MAX, the largest rt_uint16_t
  InitValue,    \* the values rt_sem_init is called with
  ResetArg,     \* the arguments of RT_IPC_CMD_RESET
  Timeouts,     \* the kinds of timeout: "none", "timed", "forever"
  DetachTimed   \* whether a semaphore with timed waiters may be detached

ASSUME SemaphoreAssumption ==
  /\ Sem \in Queue
  /\ ValueMax \in Nat
  /\ InitValue \subseteq 0 .. ValueMax
  /\ ResetArg \subseteq Nat
  /\ Timeouts \subseteq {"none", "timed", "forever"}
  /\ DetachTimed \in BOOLEAN

VARIABLES
  value,    \* sem->value
  flag,     \* sem->parent.parent.flag
  open,     \* the object is initialised and nobody is detaching it
  arrived   \* the waiting threads in the order they came (history variable)

semvars == << value, flag, open, arrived >>
vars == << k, pc, value, flag, open, arrived >>

Init ==
  /\ IpcInit
  /\ value \in InitValue
  /\ flag \in {"fifo", "prio"}
  /\ open = TRUE
  /\ arrived = << >>

-----------------------------------------------------------------------------
(* rt_sem_take, and rt_sem_trytake with timeout "none" *)

TakeNow(t) ==
  /\ InCall(t, "take") /\ open
  /\ value > 0
  /\ value' = value - 1
  /\ UNCHANGED << k, pc, flag, open, arrived >>

TakeFails(t) ==
  /\ InCall(t, "take") /\ open
  /\ value = 0 /\ "none" \in Timeouts
  /\ UNCHANGED vars

TakeWaits(t, timeout) ==
  /\ InCall(t, "take") /\ open
  /\ value = 0 /\ timeout \in Timeouts \ {"none"}
  /\ k' = WaitOn(k, Sem, t, flag, timeout)
  /\ Goto(t, "block")
  /\ arrived' = Append(arrived, t)
  /\ UNCHANGED << value, flag, open >>

(* the call returns thread->error *)
TakeReturns(t) ==
  /\ t = k.cur /\ pc[t] = "woken"
  /\ Goto(t, "run")
  /\ UNCHANGED << k, semvars >>

-----------------------------------------------------------------------------
(***************************************************************************)
(* rt_sem_release: the first waiter is resumed, or the value incremented;  *)
(* at RT_SEM_VALUE_MAX the call fails with -RT_EFULL and changes nothing.  *)
(***************************************************************************)
Wakes == k.wait[Sem] # << >>

ReleaseStep_CountedToo ==
  /\ value' = IF value < ValueMax THEN value + 1 ELSE value
  /\ arrived' = IF Wakes THEN Unlinked(arrived, Head(k.wait[Sem])) ELSE arrived

ReleaseStep ==
  /\ value' = IF ~ Wakes /\ value < ValueMax THEN value + 1 ELSE value
  /\ arrived' = IF Wakes THEN Unlinked(arrived, Head(k.wait[Sem])) ELSE arrived

Release(t) ==
  /\ InCall(t, "release") /\ open
  /\ ReleaseStep
  /\ k' = IF Wakes THEN ResumeFirst(k, Sem) ELSE k
  /\ Goto(t, IF Wakes THEN "sched" ELSE "run")
  /\ UNCHANGED << flag, open >>

(* the same in an interrupt handler, which reaches rt_schedule at once *)
IrqRelease ==
  /\ "irqrelease" \in Calls /\ open
  /\ ReleaseStep
  /\ k' = IF Wakes THEN Schedule(ResumeFirst(k, Sem)) ELSE k
  /\ UNCHANGED << pc, flag, open >>

(* rt_sem_control(RT_IPC_CMD_RESET): the argument is cast to rt_uint16_t *)
ResetValue_Wide(v) == v
ResetValue(v) == v % (ValueMax + 1)

Reset(t, v) ==
  /\ InCall(t, "reset") /\ open
  /\ k' = ResumeAll(k, Sem)
  /\ value' = ResetValue(v)
  /\ arrived' = << >>
  /\ Goto(t, "sched")
  /\ UNCHANGED << flag, open >>

-----------------------------------------------------------------------------
(***************************************************************************)
(* rt_sem_detach and rt_sem_delete: _ipc_list_resume_all tests the list    *)
(* with interrupts enabled and wakes one thread per section; there is no   *)
(* rt_schedule at the end.                                                 *)
(***************************************************************************)
Detach(t) ==
  /\ InCall(t, "detach") /\ open
  /\ DetachTimed \/ Waiting(Sem) \cap k.armed = {}
  /\ open' = FALSE
  /\ Goto(t, "test")
  /\ UNCHANGED << k, value, flag, arrived >>

FlushWaiter(t) ==
  /\ FlushOne(t, Sem)
  /\ arrived' = Unlinked(arrived, Head(k.wait[Sem]))
  /\ UNCHANGED << value, flag, open >>

(* rt_sem_init or rt_sem_create, once the old semaphore is gone *)
Initialise(t, v) ==
  /\ InCall(t, "detach") /\ ~ open
  /\ \A u \in Thread : pc[u] \notin {"test", "flush"}
  /\ value' = v
  /\ open' = TRUE
  /\ UNCHANGED << k, pc, flag, arrived >>

-----------------------------------------------------------------------------
ThreadStep(t) ==
  \/ TakeNow(t) \/ TakeFails(t) \/ TakeReturns(t) \/ Release(t)
  \/ Detach(t) \/ FlushWaiter(t)
  \/ \E timeout \in Timeouts : TakeWaits(t, timeout)
  \/ \E v \in ResetArg : Reset(t, v)
  \/ \E v \in InitValue : Initialise(t, v)
  \/ (DoSchedule(t) \/ Sleep(t) \/ SleepReturns(t) \/ TestList(t, Sem)) /\ UNCHANGED semvars

ClockStep ==
  \/ Tick /\ UNCHANGED semvars
  \/ \E x \in Thread :
       /\ TickTimeout(x)
       /\ arrived' = Unlinked(arrived, x)
       /\ UNCHANGED << value, flag, open >>

Next == (\E t \in Thread : ThreadStep(t)) \/ IrqRelease \/ ClockStep

Spec == Init /\ [][Next]_vars

(***************************************************************************)
(* The interrupt that releases keeps coming: weak fairness of IrqRelease,  *)
(* with the condition under which it has an effect spelled out.            *)
(***************************************************************************)
ReleaseHasEffect == open /\ (Wakes \/ value < ValueMax)

FairSpec == Spec /\ ([]<>(~ ReleaseHasEffect) \/ []<><< IrqRelease >>_vars)

-----------------------------------------------------------------------------
(* Properties *)

TypeOK ==
  /\ k \in KernelType
  /\ pc \in [Thread -> IpcPC]
  /\ value \in 0 .. ValueMax
  /\ flag \in {"fifo", "prio"}
  /\ open \in BOOLEAN
  /\ arrived \in Seq(Thread)

(***************************************************************************)
(* The lists, the priority bitmap, the timers and the status of the        *)
(* threads agree, whatever comes between the sections of the calls.        *)
(***************************************************************************)
KernelConsistent == KernelInv(k, {})

(***************************************************************************)
(* No waiter is forgotten: a thread suspended in rt_sem_take is in the     *)
(* suspend list, where a release finds it, and nobody else is.             *)
(***************************************************************************)
Blocked(t) == pc[t] \in {"block", "woken"} /\ k.stat[t] = "suspend"

WaitersListed == \A t \in Thread : Blocked(t) <=> t \in Waiting(Sem)

(***************************************************************************)
(* No thread waits while a permit is there: a release that comes at any    *)
(* point between the sections of a take is not lost.                       *)
(***************************************************************************)
NoIdlePermit == value > 0 => k.wait[Sem] = << >>

(***************************************************************************)
(* Waiters are served in the order of arrival, or of priority and then     *)
(* arrival; each call to take ends in one outcome; and no permit is lost   *)
(* or made when a release, a timeout, a reset and a detach race for the    *)
(* same waiter: the semaphore implements SemaphoreSpec.                    *)
(***************************************************************************)
Outcome ==
  [t \in Thread |->
     IF pc[t] \notin {"block", "woken"} THEN "none"
     ELSE IF k.stat[t] = "suspend" THEN "waiting"
     ELSE IF k.err[t] = "ok" THEN "granted" ELSE k.err[t]]

Promise == INSTANCE SemaphoreSpec WITH
  Rank <- InitPrio, Value <- 0 .. ValueMax,
  permits <- value, line <- arrived, outcome <- Outcome

KeepsPromise == Promise!Spec

(***************************************************************************)
(* With FIFO order no waiter starves while releases keep coming, even from *)
(* an interrupt: a thread that comes later cannot take its permit.         *)
(***************************************************************************)
FifoServed ==
  \A t \in Thread : flag = "fifo" /\ Blocked(t) ~> ~ Blocked(t) \/ ~ open
=============================================================================
