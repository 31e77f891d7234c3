------------------------------- MODULE Kernel -------------------------------
(***************************************************************************)
(* The scheduler's data and the kernel functions that change it            *)
(* (scheduler.c, thread.c, idle.c; one CPU, RT_USING_SMP is off).          *)
(*                                                                         *)
(* The whole state is one record k, and each C function is an operator     *)
(* from a record to a record, so a handler that calls several of them is a *)
(* composition in the order of the calls.  Every operator here is the body *)
(* of one section with interrupts disabled: it is atomic on one CPU.       *)
(*                                                                         *)
(*   k.stat    the RT_THREAD_STAT_MASK part of thread->stat                *)
(*   k.yield   the threads whose RT_THREAD_STAT_YIELD bit is set           *)
(*   k.prio    thread->current_priority (0 is the highest)                 *)
(*   k.err     thread->error                                               *)
(*   k.ready   rt_thread_priority_table, one list per priority             *)
(*   k.group   rt_thread_ready_priority_group, as the set of its bits      *)
(*   k.cur     rt_current_thread                                           *)
(*   k.lock    rt_scheduler_lock_nest                                      *)
(*   k.wait    the suspend lists of the IPC objects                        *)
(*   k.armed   the threads whose thread_timer is running                   *)
(*   k.defunct _rt_thread_defunct                                          *)
(***************************************************************************)
EXTENDS KList, Integers

CONSTANTS
  Thread,    \* the thread control blocks
  Idle,      \* the idle thread, which never blocks and never ends
  MaxPrio,   \* RT_THREAD_PRIORITY_MAX - 1
  InitPrio,  \* the priority each thread is created with
  Queue      \* the suspend lists of the IPC objects

ASSUME KernelAssumption ==
  /\ Idle \in Thread
  /\ MaxPrio \in Nat
  /\ InitPrio \in [Thread -> 0 .. MaxPrio]

Prio == 0 .. MaxPrio
Stat == {"init", "ready", "suspend", "running", "close"}
Err  == {"ok", "timeout", "error"}

KernelType ==
  [ stat : [Thread -> Stat], yield : SUBSET Thread, prio : [Thread -> Prio],
    err : [Thread -> Err], ready : [Prio -> Seq(Thread)], group : SUBSET Prio,
    cur : Thread, lock : Nat, wait : [Queue -> Seq(Thread)],
    armed : SUBSET Thread, defunct : Seq(Thread) ]

-----------------------------------------------------------------------------
(* Ready lists *)

(***************************************************************************)
(* rt_list_remove(&thread->tlist), whatever list the node stands in.       *)
(***************************************************************************)
Unlink(k, t) ==
  [k EXCEPT !.ready   = [p \in Prio |-> Unlinked(k.ready[p], t)],
            !.wait    = [q \in Queue |-> Unlinked(k.wait[q], t)],
            !.defunct = Unlinked(@, t)]

(* rt_schedule_insert_thread *)
InsertThread_NoGroupBit(k, t) ==
  IF t = k.cur
  THEN [k EXCEPT !.stat[t] = "running"]
  ELSE [k EXCEPT !.stat[t] = "ready",
                 !.ready[k.prio[t]] = InsertedAfter(@, t)]

InsertThread(k, t) ==
  IF t = k.cur
  THEN [k EXCEPT !.stat[t] = "running"]
  ELSE [k EXCEPT !.stat[t] = "ready",
                 !.ready[k.prio[t]] = IF t \in k.yield THEN InsertedBefore(@, t)
                                                       ELSE InsertedAfter(@, t),
                 !.group = @ \cup {k.prio[t]}]

(* rt_schedule_remove_thread *)
RemoveThread(k, t) ==
  LET u == Unlink(k, t)
  IN  IF u.ready[k.prio[t]] = << >>
      THEN [u EXCEPT !.group = @ \ {k.prio[t]}]
      ELSE u

-----------------------------------------------------------------------------
(* rt_schedule *)

(* The current thread keeps the processor. *)
KeepsCpu_YieldIgnored(k, high) ==
  k.stat[k.cur] = "running" /\ k.prio[k.cur] < high

KeepsCpu(k, high) ==
  /\ k.stat[k.cur] = "running"
  /\ \/ k.prio[k.cur] < high
     \/ k.prio[k.cur] = high /\ k.cur \notin k.yield

(* The pending yield of a running thread is consumed by this call. *)
ClearYield(k) ==
  IF k.stat[k.cur] = "running" THEN [k EXCEPT !.yield = @ \ {k.cur}] ELSE k

Stay(k) ==
  LET j == RemoveThread(k, k.cur)
  IN  [j EXCEPT !.stat[k.cur] = "running"]

SwitchTo(k, to) ==
  LET named    == [k EXCEPT !.cur = to]
      requeued == IF k.stat[k.cur] = "running" THEN InsertThread(named, k.cur) ELSE named
      removed  == RemoveThread(requeued, to)
  IN  [removed EXCEPT !.stat[to] = "running"]

(***************************************************************************)
(* Nothing happens while the scheduler is locked or no thread is ready.    *)
(* The first thread of the highest ready priority gets the processor       *)
(* unless the current one keeps it; a preempted thread goes back to its    *)
(* ready list after its yield bit has been cleared.                        *)
(***************************************************************************)
Schedule(k) ==
  IF k.lock # 0 \/ k.group = {} THEN k
  ELSE LET high == Min(k.group)
           to   == IF KeepsCpu(k, high) THEN k.cur ELSE Head(k.ready[high])
           c    == ClearYield(k)
       IN  IF to = k.cur THEN Stay(c) ELSE SwitchTo(c, to)

-----------------------------------------------------------------------------
(* Blocking, waking, ending *)

(* rt_thread_suspend of the current thread *)
Suspend(k, t) ==
  LET j == RemoveThread(k, t)
  IN  [j EXCEPT !.stat[t] = "suspend", !.armed = @ \ {t}]

(***************************************************************************)
(* rt_thread_resume tests the status with interrupts enabled; its section  *)
(* does not test again.  It does not call the scheduler.  Resume is both   *)
(* in one, for a caller that has interrupts disabled.                      *)
(***************************************************************************)
ResumeSection(k, t) ==
  InsertThread([Unlink(k, t) EXCEPT !.armed = @ \ {t}], t)

Resume_TimerKept(k, t) ==
  IF k.stat[t] # "suspend" THEN k ELSE InsertThread(Unlink(k, t), t)

Resume(k, t) ==
  IF k.stat[t] # "suspend" THEN k ELSE ResumeSection(k, t)

(* rt_timer_control(SET_TIME) and rt_timer_start of the thread's timer *)
StartTimer(k, t) == [k EXCEPT !.armed = @ \cup {t}]

(***************************************************************************)
(* _thread_timeout, called by rt_timer_check after it took the one-shot    *)
(* timer out of the timer list.                                            *)
(***************************************************************************)
Timeout(k, t) ==
  LET u == [Unlink(k, t) EXCEPT !.armed = @ \ {t}, !.err[t] = "timeout"]
  IN  Schedule(InsertThread(u, t))

(* rt_thread_control(RT_THREAD_CTRL_CHANGE_PRIORITY) *)
ChangePriority(k, t, p) ==
  IF k.stat[t] = "ready"
  THEN InsertThread([RemoveThread(k, t) EXCEPT !.prio[t] = p], t)
  ELSE [k EXCEPT !.prio[t] = p]

(* rt_thread_startup up to its rt_thread_resume *)
Startup(k, t) == [k EXCEPT !.stat[t] = "suspend", !.yield = @ \ {t}]

(***************************************************************************)
(* The tail of rt_thread_detach, rt_thread_delete and _thread_exit: the    *)
(* timer is detached and the node put first in the defunct list.           *)
(***************************************************************************)
Close(k, t) ==
  [k EXCEPT !.armed = @ \ {t}, !.stat[t] = "close", !.yield = @ \ {t},
            !.defunct = InsertedAfter(@, t)]

(* rt_thread_init or rt_thread_create on a free control block *)
Create(k, t) ==
  [k EXCEPT !.stat[t] = "init", !.yield = @ \ {t}, !.prio[t] = InitPrio[t],
            !.err[t] = "ok"]

(***************************************************************************)
(* rt_system_scheduler_start, after the main thread and the idle thread    *)
(* were started: main runs, the others are not started yet.                *)
(***************************************************************************)
Boot(main) ==
  [ stat  |-> [t \in Thread |-> IF t = main THEN "running"
                                ELSE IF t = Idle THEN "ready" ELSE "init"],
    yield |-> {}, prio |-> InitPrio, err |-> [t \in Thread |-> "ok"],
    ready |-> [p \in Prio |-> IF p = InitPrio[Idle] THEN << Idle >> ELSE << >>],
    group |-> {InitPrio[Idle]}, cur |-> main, lock |-> 0,
    wait  |-> [q \in Queue |-> << >>], armed |-> {}, defunct |-> << >> ]

-----------------------------------------------------------------------------
(***************************************************************************)
(* The consistency of the scheduler's data.  The set out holds the threads *)
(* that rt_thread_delete has already taken out of their list but not yet   *)
(* marked closed.                                                          *)
(***************************************************************************)

(* A thread is in the ready list of its priority exactly when it is READY. *)
ReadyListsExact(k, out) ==
  \A p \in Prio :
    /\ IsInjective(k.ready[p])
    /\ \A t \in Thread : t \in Range(k.ready[p]) <=>
         k.stat[t] = "ready" /\ k.prio[t] = p /\ t \notin out

(* The priority bitmap says which ready lists are not empty. *)
GroupExact(k) == \A p \in Prio : p \in k.group <=> Range(k.ready[p]) # {}

(* A waiter is suspended and waits in one list, once. *)
WaitListsExact(k, out) ==
  /\ \A q \in Queue :
       /\ IsInjective(k.wait[q])
       /\ \A t \in Range(k.wait[q]) : k.stat[t] = "suspend" /\ t \notin out
  /\ \A q, r \in Queue : q # r => Range(k.wait[q]) \cap Range(k.wait[r]) = {}

(* Only the current thread is RUNNING, and it is in no ready list. *)
OneRunning(k) ==
  /\ \A t \in Thread : k.stat[t] = "running" => t = k.cur
  /\ k.stat[k.cur] \in {"running", "suspend", "close"}

(* The assertion at the head of _thread_timeout, before it can be made. *)
ArmedSuspended(k, out) ==
  \A t \in k.armed : k.stat[t] = "suspend" /\ t \notin out

(* The defunct list holds closed threads, once each. *)
DefunctClosed(k) ==
  /\ IsInjective(k.defunct)
  /\ \A t \in Range(k.defunct) : k.stat[t] = "close"

KernelInv(k, out) ==
  /\ k \in KernelType
  /\ ReadyListsExact(k, out)
  /\ GroupExact(k)
  /\ WaitListsExact(k, out)
  /\ OneRunning(k)
  /\ ArmedSuspended(k, out)
  /\ DefunctClosed(k)
=============================================================================
