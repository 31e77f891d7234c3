----------------------------- MODULE Scheduler -----------------------------
(***************************************************************************)
(* Threads that use the thread API in any order, the tick interrupt and    *)
(* the idle thread, over the kernel state of module Kernel.                *)
(*                                                                         *)
(* A step is one section with interrupts disabled, or one test that a call *)
(* makes with interrupts enabled; between two steps of a call the tick     *)
(* interrupt, or an interrupt that resumes a thread, may come in (but not  *)
(* one into the other).  pc[t] is the point between two steps where t is:  *)
(*   "run"     in application code, may call any function                  *)
(*   "sched"   about to call rt_schedule, then back to application code    *)
(*   "block"   in rt_thread_sleep, about to call rt_schedule               *)
(*   "wake"    in rt_thread_sleep, rt_schedule has returned                *)
(*   "started" in rt_thread_startup, the status is set                     *)
(*   "start"   the same, rt_thread_resume has tested the status            *)
(*   "resume"  in rt_thread_resume, the status is tested                   *)
(*   "remove"  in rt_thread_delete, the status is tested                   *)
(*   "close"   in rt_thread_delete, about to close the thread              *)
(*   "reap"    in rt_defunct_execute, the first defunct thread is read     *)
(*   "dead"    the control block is closed or not started                  *)
(* Only the thread k.cur takes steps.                                      *)
(***************************************************************************)
EXTENDS Kernel

CONSTANTS
  Main,         \* the thread that runs first
  InitTick,     \* the time slice of each thread
  Calls,        \* the functions the threads call
  NewPrio,      \* the priorities that a priority change asks for
  MaxLock,      \* bound on the nesting of rt_enter_critical
  EndInUse      \* whether a thread may end while it is in use: its timer
                \* runs, or another thread is starting, resuming or deleting it

ASSUME SchedulerAssumption ==
  /\ Main \in Thread \ {Idle}
  /\ InitTick \in [Thread -> Nat \ {0}]
  /\ NewPrio \subseteq Prio
  /\ MaxLock \in Nat
  /\ EndInUse \in BOOLEAN

VARIABLES
  k,        \* the kernel state
  pc,       \* where each thread is
  target,   \* the thread that t's unfinished call works on
  slice     \* thread->remaining_tick

vars == << k, pc, target, slice >>

PC == {"run", "sched", "block", "wake", "started", "start", "resume",
       "remove", "close", "reap", "dead"}

InDelete == {"remove", "close"}
InStart  == {"started", "start", "resume"}

(***************************************************************************)
(* The threads that the calls at these points work on.  Those that         *)
(* rt_thread_delete has taken out of their list and not closed yet are in  *)
(* no list, whatever their status.                                         *)
(***************************************************************************)
TargetsOf(at, tgt, points) == {tgt[t] : t \in {u \in Thread : at[u] \in points}}

RemovedBy(at, tgt) == TargetsOf(at, tgt, {"close"})
DoomedBy(at, tgt)  == TargetsOf(at, tgt, InDelete)

Removed == RemovedBy(pc, target)
Doomed  == DoomedBy(pc, target)
InUse   == TargetsOf(pc, target, InDelete \cup InStart)

Init ==
  /\ k = Boot(Main)
  /\ pc = [t \in Thread |-> IF t \in {Main, Idle} THEN "run" ELSE "dead"]
  /\ target = [t \in Thread |-> t]
  /\ slice = InitTick

(***************************************************************************)
(* t executes application code and calls f.  The idle thread makes no      *)
(* calls but rt_defunct_execute.                                           *)
(***************************************************************************)
InCall(t, f) ==
  /\ f \in Calls
  /\ t = k.cur /\ t # Idle
  /\ pc[t] = "run"

(* A function that blocks is not called with the scheduler locked. *)
MayBlock == k.lock = 0

Goto(t, point) == pc' = [pc EXCEPT ![t] = point]

(* A call on another thread begins, and ends. *)
Begin(t, x, point) == Goto(t, point) /\ target' = [target EXCEPT ![t] = x]
End(t, point)      == Begin(t, t, point)

-----------------------------------------------------------------------------
(* Thread context *)

(***************************************************************************)
(* rt_schedule, reached from a function or called by the application.      *)
(***************************************************************************)
DoSchedule(t) ==
  /\ t = k.cur
  /\ pc[t] \in {"sched", "block"}
  /\ k' = Schedule(k)
  /\ pc' = [pc EXCEPT ![t] = IF @ = "block" THEN "wake"
                             ELSE IF k.stat[t] = "close" THEN "dead" ELSE "run"]
  /\ UNCHANGED << target, slice >>

CallSchedule(t) ==
  /\ InCall(t, "schedule")
  /\ Goto(t, "sched")
  /\ UNCHANGED << k, target, slice >>

(***************************************************************************)
(* rt_thread_startup: the status is set, then rt_thread_resume tests it,   *)
(* both with interrupts enabled, and has a section; rt_schedule follows    *)
(* whether or not the test let the section be reached.                     *)
(***************************************************************************)
CallStartup(t, x) ==
  /\ InCall(t, "startup")
  /\ k.stat[x] = "init" /\ x \notin Doomed
  /\ k' = Startup(k, x)
  /\ pc' = [pc EXCEPT ![t] = "started", ![x] = "run"]
  /\ target' = [target EXCEPT ![t] = x]
  /\ UNCHANGED slice

StartupTests(t) ==
  /\ t = k.cur /\ pc[t] = "started"
  /\ IF k.stat[target[t]] = "suspend"
     THEN Goto(t, "start") /\ UNCHANGED target
     ELSE End(t, "sched")
  /\ UNCHANGED << k, slice >>

(* rt_thread_yield: interrupts stay disabled across rt_schedule *)
YieldStep(t) ==
  /\ k' = Schedule([k EXCEPT !.yield = @ \cup {t}])
  /\ slice' = [slice EXCEPT ![t] = InitTick[t]]

CallYield(t) ==
  /\ InCall(t, "yield")
  /\ YieldStep(t)
  /\ UNCHANGED << pc, target >>

(* rt_thread_sleep, and the sleeping branch of rt_thread_delay_until *)
SleepStep(t) ==
  k' = StartTimer(Suspend([k EXCEPT !.err[t] = "ok"], t), t)

CallSleep(t) ==
  /\ InCall(t, "sleep") /\ MayBlock
  /\ EndInUse \/ t \notin Doomed
  /\ SleepStep(t)
  /\ Goto(t, "block")
  /\ UNCHANGED << target, slice >>

(* the end of rt_thread_sleep: a timeout is the normal way to wake *)
SleepReturns(t) ==
  /\ t = k.cur /\ pc[t] = "wake"
  /\ k' = [k EXCEPT !.err[t] = IF @ = "timeout" THEN "ok" ELSE @]
  /\ Goto(t, "run")
  /\ UNCHANGED << target, slice >>

(* rt_thread_suspend(rt_thread_self()), which the caller follows by rt_schedule *)
CallSuspend(t) ==
  /\ InCall(t, "suspend") /\ MayBlock
  /\ k' = Suspend(k, t)
  /\ Goto(t, "sched")
  /\ UNCHANGED << target, slice >>

(***************************************************************************)
(* rt_thread_resume: the test, with interrupts enabled, and the section,   *)
(* which goes on with a thread that may have woken in between.             *)
(***************************************************************************)
CallResume(t, x) ==
  /\ InCall(t, "resume")
  /\ k.stat[x] = "suspend" /\ x \notin Doomed
  /\ Begin(t, x, "resume")
  /\ UNCHANGED << k, slice >>

Resumes(t) ==
  /\ t = k.cur /\ pc[t] \in {"start", "resume"}
  /\ k' = ResumeSection(k, target[t])
  /\ End(t, IF pc[t] = "start" THEN "sched" ELSE "run")
  /\ UNCHANGED slice

(* rt_thread_resume in an interrupt, which calls rt_schedule at its end *)
IrqResume(x) ==
  /\ "resume" \in Calls
  /\ k.stat[x] = "suspend" /\ x \notin Doomed
  /\ k' = Schedule(Resume(k, x))
  /\ UNCHANGED << pc, target, slice >>

(* rt_thread_control(RT_THREAD_CTRL_CHANGE_PRIORITY) *)
CallChangePriority(t, x, p) ==
  /\ InCall(t, "priority")
  /\ x # Idle /\ k.stat[x] \notin {"init", "close"} /\ x \notin Doomed
  /\ k' = ChangePriority(k, x, p)
  /\ UNCHANGED << pc, target, slice >>

(* rt_enter_critical *)
CallEnterCritical(t) ==
  /\ InCall(t, "critical")
  /\ k.lock < MaxLock
  /\ k' = [k EXCEPT !.lock = @ + 1]
  /\ UNCHANGED << pc, target, slice >>

(***************************************************************************)
(* rt_exit_critical: the nesting count never goes below zero, and the      *)
(* outermost exit makes up for the calls of rt_schedule that did nothing.  *)
(***************************************************************************)
ExitPoint == IF k.lock - 1 <= 0 THEN "sched" ELSE "run"

CallExitCritical(t) ==
  /\ InCall(t, "critical")
  /\ k' = [k EXCEPT !.lock = IF @ - 1 <= 0 THEN 0 ELSE @ - 1]
  /\ Goto(t, ExitPoint)
  /\ UNCHANGED << target, slice >>

(***************************************************************************)
(* rt_thread_delete (rt_thread_detach is the same) of another thread: two  *)
(* tests of its status with interrupts enabled, rt_schedule_remove_thread  *)
(* unless it was never started, and the closing section.  The two tests    *)
(* are one step: a thread that closes between them is removed like one     *)
(* that closes after them.  The caller may go on with rt_schedule:         *)
(* RT_THREAD_CTRL_CLOSE does.                                              *)
(***************************************************************************)
Deletable_ClosedToo(x) == TRUE
Deletable(x) == k.stat[x] # "close"

CallDelete(t, x) ==
  /\ InCall(t, "delete")
  /\ x \notin {t, Idle} \cup Doomed /\ pc[x] \notin InDelete /\ t \notin Doomed
  /\ Deletable(x)
  /\ EndInUse \/ x \notin k.armed \cup InUse
  /\ Begin(t, x, IF k.stat[x] = "init" THEN "close" ELSE "remove")
  /\ UNCHANGED << k, slice >>

DeleteRemoves(t) ==
  /\ t = k.cur /\ pc[t] = "remove"
  /\ k' = RemoveThread(k, target[t])
  /\ Goto(t, "close")
  /\ UNCHANGED << target, slice >>

DeleteCloses(t) ==
  /\ t = k.cur /\ pc[t] = "close"
  /\ k' = Close(k, target[t])
  /\ \E next \in {"run", "sched"} :
       pc' = [pc EXCEPT ![t] = next, ![target[t]] = "dead"]
  /\ target' = [target EXCEPT ![t] = t, ![target[t]] = target[t]]
  /\ UNCHANGED slice

(* The entry function returns: _thread_exit up to its rt_schedule *)
CallExit(t) ==
  /\ InCall(t, "exit") /\ MayBlock
  /\ EndInUse \/ t \notin InUse
  /\ k' = Close(RemoveThread(k, t), t)
  /\ Goto(t, "sched")
  /\ UNCHANGED << target, slice >>

(***************************************************************************)
(* rt_defunct_execute in the idle thread: it reads the first defunct       *)
(* thread with interrupts enabled; the section takes that thread out of    *)
(* the list, and its control block becomes free.                           *)
(***************************************************************************)
IdleReads ==
  /\ k.cur = Idle /\ pc[Idle] = "run"
  /\ k.defunct # << >>
  /\ Begin(Idle, Head(k.defunct), "reap")
  /\ UNCHANGED << k, slice >>

Reaped_First(x) == [k EXCEPT !.defunct = Tail(@)]
Reaped(x)       == Unlink(k, x)

IdleReaps ==
  /\ k.cur = Idle /\ pc[Idle] = "reap"
  /\ k' = Reaped(target[Idle])
  /\ End(Idle, "run")
  /\ UNCHANGED slice

(* rt_thread_init or rt_thread_create on a control block that is free *)
CallCreate(t, x) ==
  /\ InCall(t, "exit")
  /\ k.stat[x] = "close" /\ x \notin Range(k.defunct)
  /\ k' = Create(k, x)
  /\ slice' = [slice EXCEPT ![x] = InitTick[x]]
  /\ UNCHANGED << pc, target >>

-----------------------------------------------------------------------------
(* Interrupt context *)

(***************************************************************************)
(* rt_tick_increase: the slice of the current thread, whatever its status; *)
(* when it is used up it is reloaded, the thread must yield and the        *)
(* scheduler is called.  The timers that are due follow as TickTimeout.    *)
(***************************************************************************)
TickStep_NotReloaded(t) ==
  /\ slice' = [slice EXCEPT ![t] = @ - 1]
  /\ k' = IF slice[t] = 1 THEN Schedule([k EXCEPT !.yield = @ \cup {t}]) ELSE k

TickStep_NoSchedule(t) ==
  IF slice[t] = 1
  THEN /\ slice' = [slice EXCEPT ![t] = InitTick[t]]
       /\ k' = [k EXCEPT !.yield = @ \cup {t}]
  ELSE /\ slice' = [slice EXCEPT ![t] = @ - 1]
       /\ UNCHANGED k

TickStep(t) ==
  IF slice[t] = 1
  THEN /\ slice' = [slice EXCEPT ![t] = InitTick[t]]
       /\ k' = Schedule([k EXCEPT !.yield = @ \cup {t}])
  ELSE /\ slice' = [slice EXCEPT ![t] = @ - 1]
       /\ UNCHANGED k

Tick ==
  /\ TickStep(k.cur)
  /\ UNCHANGED << pc, target >>

(* rt_timer_check finds a thread's timer due and calls _thread_timeout. *)
TickTimeout(x) ==
  /\ x \in k.armed
  /\ k' = Timeout(k, x)
  /\ UNCHANGED << pc, target, slice >>

-----------------------------------------------------------------------------
ThreadStep(t) ==
  \/ DoSchedule(t) \/ CallSchedule(t) \/ CallYield(t)
  \/ CallSleep(t) \/ SleepReturns(t) \/ CallSuspend(t)
  \/ CallEnterCritical(t) \/ CallExitCritical(t)
  \/ StartupTests(t) \/ Resumes(t)
  \/ DeleteRemoves(t) \/ DeleteCloses(t) \/ CallExit(t)
  \/ \E x \in Thread :
       \/ CallStartup(t, x) \/ CallResume(t, x) \/ CallDelete(t, x)
       \/ CallCreate(t, x)
       \/ \E p \in NewPrio : CallChangePriority(t, x, p)

Next ==
  \/ \E t \in Thread : ThreadStep(t)
  \/ IdleReads \/ IdleReaps
  \/ Tick
  \/ \E x \in Thread : TickTimeout(x) \/ IrqResume(x)

Spec == Init /\ [][Next]_vars

CallGoesOn(t) ==
  \/ DoSchedule(t) \/ SleepReturns(t) \/ StartupTests(t) \/ Resumes(t)
  \/ DeleteRemoves(t) \/ DeleteCloses(t)

(***************************************************************************)
(* The tick interrupt keeps coming, the current thread goes on inside the  *)
(* function it has called, and a thread that locked the scheduler unlocks  *)
(* it, whatever else it calls before.                                      *)
(***************************************************************************)
Fairness ==
  /\ WF_vars(Tick)
  /\ WF_vars(\E t \in Thread : CallGoesOn(t))
  /\ SF_vars(k.lock > 0 /\ \E t \in Thread : CallExitCritical(t))

FairSpec == Spec /\ Fairness

-----------------------------------------------------------------------------
(* Properties *)

TypeOK ==
  /\ k \in KernelType
  /\ pc \in [Thread -> PC]
  /\ target \in [Thread -> Thread]
  /\ slice \in [Thread -> Nat \ {0}]

(***************************************************************************)
(* Ready lists, priority bitmap, wait lists, thread status, timers and the *)
(* defunct list always agree with each other, whatever interrupt comes in  *)
(* between the sections of the thread functions.                           *)
(***************************************************************************)
KernelConsistent == KernelInv(k, Removed)

(***************************************************************************)
(* What holds of the positions at and the targets tgt in kernel state s:   *)
(*   - The thread that executes has been started; when it is not RUNNING   *)
(*     it is on its way to rt_schedule, with the scheduler unlocked.       *)
(*   - The idle thread is ready or running, so rt_schedule always has a    *)
(*     thread to switch to.                                                *)
(*   - A thread that was started has somewhere to go on.                   *)
(*   - A call on another thread can be finished: the caller is alive, and  *)
(*     so is the thread that it starts or resumes.                         *)
(*   - A deletion can be finished: its victim does not execute once it is  *)
(*     removed, has no timer running, and no other call works on it.       *)
(*   - The thread that the idle thread read is still defunct.              *)
(*   - A sleeping thread has its timer running.                            *)
(***************************************************************************)
CurrentGoesOn(s, at) ==
  /\ at[s.cur] # "dead"
  /\ s.stat[s.cur] # "running" => s.lock = 0 /\ at[s.cur] \in {"sched", "block"}

IdleAvailable(s, at) ==
  s.stat[Idle] \in {"ready", "running"} /\ at[Idle] \in {"run", "reap"}

StartedHasPlace(s, at) ==
  \A t \in Thread : s.stat[t] \in {"ready", "suspend", "running"} => at[t] # "dead"

CallsUnbroken(s, at, tgt) ==
  \A t \in Thread : at[t] \in InStart \cup InDelete =>
    /\ s.stat[t] \in {"ready", "running"}
    /\ tgt[t] \notin {t, Idle}
    /\ s.stat[tgt[t]] # "close"
    /\ at[t] # "close" => s.stat[tgt[t]] # "init"

DeletionsDisjoint(s, at, tgt) ==
  /\ s.cur \notin RemovedBy(at, tgt)
  /\ s.armed \cap DoomedBy(at, tgt) = {}
  /\ \A t, u \in Thread : at[t] \in InDelete /\ at[u] \in InStart \cup InDelete =>
       /\ at[tgt[t]] \notin InDelete
       /\ tgt[u] = tgt[t] => u = t

ReapsDefunct(s, at, tgt) ==
  \A t \in Thread : at[t] = "reap" => t = Idle /\ tgt[t] \in Range(s.defunct)

SleepersArmed(s, at) ==
  \A t \in Thread :
    at[t] \in {"block", "wake"} /\ s.stat[t] = "suspend" => t \in s.armed

Control(s, at, tgt) ==
  /\ CurrentGoesOn(s, at)
  /\ IdleAvailable(s, at)
  /\ StartedHasPlace(s, at)
  /\ CallsUnbroken(s, at, tgt)
  /\ DeletionsDisjoint(s, at, tgt)
  /\ ReapsDefunct(s, at, tgt)
  /\ SleepersArmed(s, at)

ControlConsistent == Control(k, pc, target)

(***************************************************************************)
(* A closed thread stays defunct until the idle thread frees it: only the  *)
(* thread that rt_defunct_execute has read, as the first of the list,      *)
(* leaves the list, whoever exits or is deleted before the idle thread     *)
(* goes on, and it is still closed and in no other list.                   *)
(***************************************************************************)
FreedByIdle ==
  [][ \A x \in Thread : x \in Range(k.defunct) /\ x \notin Range(k'.defunct) =>
        /\ k.cur = Idle /\ pc[Idle] = "reap" /\ target[Idle] = x
        /\ k'.stat[x] = "close" /\ \A p \in Prio : x \notin Range(k'.ready[p]) ]_vars

(***************************************************************************)
(* A RUNNING thread loses the processor only to a thread of higher         *)
(* priority, or to one of its own priority when it has to yield: its slice *)
(* is used up, it called rt_thread_yield, or one of these happened while   *)
(* the scheduler was locked.                                               *)
(***************************************************************************)
Displaced ==
  k'.cur # k.cur /\ k.stat[k.cur] = "running" /\ k'.stat[k.cur] = "ready"

MustYield ==
  \/ k.cur \in k.yield
  \/ CallYield(k.cur)
  \/ Tick /\ slice[k.cur] = 1

PreemptedRightly ==
  [][ Displaced =>
        \/ k'.prio[k'.cur] < k'.prio[k.cur]
        \/ k'.prio[k'.cur] = k'.prio[k.cur] /\ MustYield ]_vars

(***************************************************************************)
(* "there is no time slices left(YIELD), inserting thread before ready     *)
(* list" (scheduler.c, rt_schedule_insert_thread): a thread that gives the *)
(* processor away because it has to yield goes behind the other ready      *)
(* threads of its priority.                                                *)
(***************************************************************************)
ExpiredGoesLast ==
  [][ Displaced /\ MustYield => Last(k'.ready[k'.prio[k.cur]]) = k.cur ]_vars

(***************************************************************************)
(* "The thread object will be removed from thread queue" (thread.c,        *)
(* rt_thread_delete): a thread that is closed stands in no ready list, so  *)
(* the scheduler never picks it again.                                     *)
(***************************************************************************)
ClosedUnlinked ==
  \A t \in Thread : k.stat[t] = "close" =>
    \A p \in Prio : t \notin Range(k.ready[p])

(***************************************************************************)
(* A ready thread does not stay outranked: when a lower-priority thread    *)
(* has the processor (after rt_thread_resume or a priority change, which   *)
(* do not call the scheduler), the end of its slice or the unlocking of    *)
(* the scheduler corrects it.                                              *)
(***************************************************************************)
Outranks(t) ==
  k.stat[t] = "ready" /\ t \notin Removed /\ k.prio[t] < k.prio[k.cur]

PriorityServed == \A t \in Thread : Outranks(t) ~> ~ Outranks(t)
=============================================================================
