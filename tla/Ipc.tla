-------------------------------- MODULE Ipc --------------------------------
(***************************************************************************)
(* What the IPC objects of ipc.c share: the suspend lists, waking one or   *)
(* all of their threads, and the threads and interrupts around the calls.  *)
(*                                                                         *)
(* A step is one section with interrupts disabled.  pc[t] is the point     *)
(* between two sections where thread t is:                                 *)
(*   "run"    in application code, may call any function                   *)
(*   "sched"  about to call rt_schedule, then back to application code     *)
(*   "block"  has suspended itself on an object, about to call rt_schedule *)
(*   "woken"  rt_schedule has returned, looks at thread->error             *)
(*   "nap"    in rt_thread_sleep, about to call rt_schedule                *)
(*   "slept"  in rt_thread_sleep, rt_schedule has returned                 *)
(*   "test"   in _ipc_list_resume_all, at the test of the loop             *)
(*   "flush"  in _ipc_list_resume_all, the list was not empty              *)
(* The modules of the objects add their own points.                        *)
(***************************************************************************)
EXTENDS Kernel

CONSTANTS
  Main,       \* the thread that runs first
  InitReady,  \* the ready lists once all the threads have been started
  Calls       \* the functions the threads and the interrupts call

ASSUME IpcAssumption ==
  /\ Main \in Thread \ {Idle}
  /\ InitReady \in [Prio -> Seq(Thread)]
  /\ \A p \in Prio : /\ IsInjective(InitReady[p])
                     /\ Range(InitReady[p]) = {t \in Thread \ {Main} : InitPrio[t] = p}

VARIABLES
  k,   \* the kernel state
  pc   \* where each thread is

IpcInit ==
  /\ k = [Boot(Main) EXCEPT
            !.stat  = [t \in Thread |-> IF t = Main THEN "running" ELSE "ready"],
            !.ready = InitReady,
            !.group = {p \in Prio : Range(InitReady[p]) # {}}]
  /\ pc = [t \in Thread |-> "run"]

-----------------------------------------------------------------------------
(* Suspend lists *)

(* _ipc_list_suspend *)
SuspendOn_LinkedFirst(s, q, t, flag) ==
  Suspend([s EXCEPT !.wait[q] = IF flag = "fifo" THEN InsertedBefore(@, t)
                                                 ELSE InsertedByKey(@, s.prio, t)], t)

SuspendOn(s, q, t, flag) ==
  [Suspend(s, t) EXCEPT !.wait[q] = IF flag = "fifo" THEN InsertedBefore(@, t)
                                                     ELSE InsertedByKey(@, s.prio, t)]

(***************************************************************************)
(* The waiting branch of the functions that block: thread->error is reset, *)
(* the thread suspended on list q and, unless it waits forever, its timer  *)
(* started.                                                                *)
(***************************************************************************)
WaitOn_TimerFirst(s, q, t, flag, timeout) ==
  LET z == [s EXCEPT !.err[t] = "ok"]
  IN  SuspendOn(IF timeout = "timed" THEN StartTimer(z, t) ELSE z, q, t, flag)

WaitOn(s, q, t, flag, timeout) ==
  LET z == SuspendOn([s EXCEPT !.err[t] = "ok"], q, t, flag)
  IN  IF timeout = "timed" THEN StartTimer(z, t) ELSE z

(* _ipc_list_resume *)
ResumeFirst(s, q) == Resume(s, Head(s.wait[q]))

(* one round of _ipc_list_resume_all: thread->error = -RT_ERROR *)
ResumeFailed(s, t) == Resume([s EXCEPT !.err[t] = "error"], t)

(* _ipc_list_resume_all, called with interrupts disabled *)
ResumeAll(s, q) ==
  LET after[n \in 0 .. Len(s.wait[q])] ==   \* once n threads have been woken
        IF n = 0 THEN s ELSE ResumeFailed(after[n - 1], s.wait[q][n])
  IN  after[Len(s.wait[q])]

Waiting(q) == Range(k.wait[q])

-----------------------------------------------------------------------------
(* Threads and interrupts *)

(* t executes application code and calls f. *)
InCall(t, f) ==
  /\ f \in Calls
  /\ t = k.cur /\ t # Idle
  /\ pc[t] = "run"

Goto(t, point) == pc' = [pc EXCEPT ![t] = point]

(* rt_schedule at the end of a section *)
AfterSchedule ==
  [p \in {"sched", "block", "nap"} |->
     IF p = "block" THEN "woken" ELSE IF p = "nap" THEN "slept" ELSE "run"]

DoSchedule(t) ==
  /\ t = k.cur
  /\ pc[t] \in DOMAIN AfterSchedule
  /\ k' = Schedule(k)
  /\ Goto(t, AfterSchedule[pc[t]])

(* rt_thread_sleep: a timeout is the normal way to wake *)
Sleep(t) ==
  /\ InCall(t, "sleep")
  /\ k' = StartTimer(Suspend([k EXCEPT !.err[t] = "ok"], t), t)
  /\ Goto(t, "nap")

SleepReturns(t) ==
  /\ t = k.cur /\ pc[t] = "slept"
  /\ k' = [k EXCEPT !.err[t] = IF @ = "timeout" THEN "ok" ELSE @]
  /\ Goto(t, "run")

(***************************************************************************)
(* The loop of _ipc_list_resume_all when interrupts are enabled: the test  *)
(* of the list is outside the section that wakes its first thread.         *)
(***************************************************************************)
TestList(t, q) ==
  /\ t = k.cur /\ pc[t] = "test"
  /\ Goto(t, IF k.wait[q] = << >> THEN "run" ELSE "flush")
  /\ UNCHANGED k

FlushOne(t, q) ==
  /\ t = k.cur /\ pc[t] = "flush"
  /\ k' = ResumeFailed(k, Head(k.wait[q]))
  /\ Goto(t, "test")

(***************************************************************************)
(* rt_tick_increase when the current thread's slice is used up; a thread's *)
(* slice may end at any tick, and the other ticks change nothing here.     *)
(***************************************************************************)
Tick ==
  /\ k' = Schedule([k EXCEPT !.yield = @ \cup {k.cur}])
  /\ UNCHANGED pc

(* rt_timer_check finds a thread's timer due and calls _thread_timeout. *)
TickTimeout(x) ==
  /\ x \in k.armed
  /\ k' = Timeout(k, x)
  /\ UNCHANGED pc

-----------------------------------------------------------------------------
(* The points of a thread that every object has *)
IpcPC == {"run", "sched", "block", "woken", "nap", "slept", "test", "flush"}
=============================================================================
