----------------------------- MODULE WorkQueue -----------------------------
(***************************************************************************)
(* A work queue of components/drivers/ipc/workqueue.c: threads submit work *)
(* to a worker thread, at once or after a delay that a timer measures, and *)
(* cancel it again.  Points of a thread, besides those of module Ipc:      *)
(*   "ack"    the worker, before _workqueue_work_completion                *)
(*   "start"  in _workqueue_submit_work, about to start the delay timer    *)
(*   "sync"   in rt_workqueue_cancel_work_sync, about to wait              *)
(* At "run" the worker is at the head of its loop or, when current is not  *)
(* NoWork, in the function of that work, which may submit work, too.       *)
(***************************************************************************)
EXTENDS Ipc

CONSTANTS
  Work,     \* the work items
  NoWork,   \* RT_NULL, none of Work
  Worker,   \* queue->work_thread, a thread that is neither Main nor Idle
  SyncList  \* the suspend list of queue->sem, whose value is always 0; one of Queue

VARIABLES
  worklist,    \* queue->work_list
  delayed,     \* queue->delayed_list
  current,     \* queue->work_current
  owned,       \* the work whose work->workqueue is the queue, not RT_NULL
  pending,     \* the work with RT_WORK_STATE_PENDING
  submitting,  \* the work with RT_WORK_STATE_SUBMITTING
  ticking,     \* the work whose timer runs
  expired,     \* the work whose timeout handler was called and has not begun
  arg          \* the work a thread is between two sections for

marks == << owned, pending, submitting, ticking >>
vars  == << k, pc, worklist, delayed, current, owned, pending, submitting,
            ticking, expired, arg >>

Init ==
  /\ IpcInit
  /\ worklist = << >> /\ delayed = << >>
  /\ current = NoWork /\ expired = NoWork
  /\ owned = {} /\ pending = {} /\ submitting = {} /\ ticking = {}
  /\ arg = [t \in Thread |-> NoWork]

(* A thread calls f, the worker only from the function of a work. *)
Calling(t, f) == InCall(t, f) /\ (t = Worker => current # NoWork)

(* The test whether the worker has to be resumed *)
WorkerSleeps == current = NoWork /\ k.stat[Worker] = "suspend"

WakeWorker(t) ==
  /\ k' = IF WorkerSleeps THEN Resume(k, Worker) ELSE k
  /\ Goto(t, IF WorkerSleeps THEN "sched" ELSE "run")

-----------------------------------------------------------------------------
(* _workqueue_submit_work without a delay: rt_workqueue_dowork *)
DoWork(t, w) ==
  /\ Calling(t, "dowork")
  /\ delayed' = Unlinked(delayed, w)
  /\ worklist' = IF current # w THEN Append(Unlinked(worklist, w), w) ELSE Unlinked(worklist, w)
  /\ pending' = IF current # w THEN pending \cup {w} ELSE pending \ {w}
  /\ owned' = IF current # w THEN owned \cup {w} ELSE owned
  /\ WakeWorker(t)
  /\ UNCHANGED << current, submitting, ticking, expired, arg >>

(***************************************************************************)
(* With a delay: a timer that was started before is stopped, and started   *)
(* again after the section.                                                *)
(***************************************************************************)
SubmitDelayed(t, w) ==
  /\ Calling(t, "submit")
  /\ worklist' = Unlinked(worklist, w)
  /\ delayed' = Append(Unlinked(delayed, w), w)
  /\ pending' = pending \ {w}
  /\ submitting' = submitting \cup {w}
  /\ ticking' = ticking \ {w}
  /\ owned' = owned \cup {w}
  /\ arg' = [arg EXCEPT ![t] = w]
  /\ Goto(t, "start")
  /\ UNCHANGED << k, current, expired >>

(* rt_timer_start asserts that the timer has not been detached. *)
StartsDelay(t) ==
  /\ t = k.cur /\ pc[t] = "start"
  /\ arg[t] \in submitting
  /\ ticking' = ticking \cup {arg[t]}
  /\ arg' = [arg EXCEPT ![t] = NoWork]
  /\ Goto(t, "run")
  /\ UNCHANGED << k, worklist, delayed, current, owned, pending, submitting, expired >>

(* rt_workqueue_urgent_work *)
UrgentWork(t, w) ==
  /\ Calling(t, "urgent")
  /\ delayed' = Unlinked(delayed, w)
  /\ worklist' = InsertedAfter(Unlinked(worklist, w), w)
  /\ WakeWorker(t)
  /\ UNCHANGED << current, marks, expired, arg >>

-----------------------------------------------------------------------------
(* _workqueue_cancel_work *)
CancelSection(w) ==
  /\ worklist' = Unlinked(worklist, w)
  /\ delayed' = Unlinked(delayed, w)
  /\ pending' = pending \ {w}
  /\ submitting' = submitting \ {w}
  /\ ticking' = ticking \ {w}
  /\ owned' = owned \ {w}

Cancel(t, w) ==
  /\ Calling(t, "cancel")
  /\ CancelSection(w)
  /\ UNCHANGED << k, pc, current, expired, arg >>

(***************************************************************************)
(* rt_workqueue_cancel_work_sync: work_current is tested with interrupts   *)
(* enabled.  The function of a work does not wait for itself.              *)
(***************************************************************************)
CancelSync(t, w) ==
  /\ Calling(t, "sync") /\ t # Worker
  /\ IF current = w
     THEN /\ Goto(t, "sync")
          /\ UNCHANGED << worklist, delayed, marks >>
     ELSE CancelSection(w) /\ UNCHANGED pc
  /\ UNCHANGED << k, current, expired, arg >>

SyncWaits(t) ==
  /\ t = k.cur /\ pc[t] = "sync"
  /\ k' = WaitOn(k, SyncList, t, "fifo", "forever")
  /\ Goto(t, "block")
  /\ UNCHANGED << worklist, delayed, current, marks, expired, arg >>

SyncReturns(t) ==
  /\ t = k.cur /\ pc[t] = "woken"
  /\ Goto(t, "run")
  /\ UNCHANGED << k, worklist, delayed, current, marks, expired, arg >>

-----------------------------------------------------------------------------
(* _workqueue_thread_entry *)
WorkerSuspends ==
  /\ Worker = k.cur /\ pc[Worker] = "run" /\ current = NoWork
  /\ worklist = << >>
  /\ k' = Suspend(k, Worker)
  /\ Goto(Worker, "sched")
  /\ UNCHANGED << worklist, delayed, current, marks, expired, arg >>

WorkerTakes ==
  LET w == Head(worklist)
  IN  /\ Worker = k.cur /\ pc[Worker] = "run" /\ current = NoWork
      /\ worklist # << >>
      /\ worklist' = Tail(worklist)
      /\ current' = w
      /\ pending' = pending \ {w}
      /\ owned' = owned \ {w}
      /\ UNCHANGED << k, pc, delayed, submitting, ticking, expired, arg >>

FunctionReturns ==
  /\ Worker = k.cur /\ pc[Worker] = "run" /\ current # NoWork
  /\ current' = NoWork
  /\ Goto(Worker, "ack")
  /\ UNCHANGED << k, worklist, delayed, marks, expired, arg >>

(***************************************************************************)
(* _workqueue_work_completion releases queue->sem, with the scheduler      *)
(* locked, until nobody waits for it any more.                             *)
(***************************************************************************)
Completion ==
  /\ Worker = k.cur /\ pc[Worker] = "ack"
  /\ k' = FoldLeft(Resume, k, k.wait[SyncList])
  /\ Goto(Worker, "sched")
  /\ UNCHANGED << worklist, delayed, current, marks, expired, arg >>

-----------------------------------------------------------------------------
(* rt_timer_check, interrupts disabled, calls _delayed_work_timeout_handler *)
TimerExpires(w) ==
  /\ w \in ticking
  /\ ticking' = ticking \ {w}
  /\ expired' = w
  /\ UNCHANGED << k, pc, worklist, delayed, current, owned, pending, submitting, arg >>

Handler ==
  LET w == expired
  IN  /\ w \in owned
      /\ submitting' = submitting \ {w}
      /\ delayed' = Unlinked(delayed, w)
      /\ worklist' = IF current # w THEN Append(Unlinked(worklist, w), w)
                                    ELSE Unlinked(worklist, w)
      /\ pending' = IF current # w THEN pending \cup {w} ELSE pending
      /\ k' = IF WorkerSleeps THEN Schedule(Resume(k, Worker)) ELSE k
      /\ expired' = NoWork
      /\ UNCHANGED << pc, current, owned, ticking, arg >>

-----------------------------------------------------------------------------
ThreadStep(t) ==
  \/ \E w \in Work :
       DoWork(t, w) \/ SubmitDelayed(t, w) \/ UrgentWork(t, w) \/ Cancel(t, w) \/ CancelSync(t, w)
  \/ StartsDelay(t) \/ SyncWaits(t) \/ SyncReturns(t)
  \/ DoSchedule(t) /\ UNCHANGED << worklist, delayed, current, marks, expired, arg >>

WorkerStep == WorkerSuspends \/ WorkerTakes \/ FunctionReturns \/ Completion

ClockStep ==
  \/ \E w \in Work : TimerExpires(w)
  \/ Tick /\ UNCHANGED << worklist, delayed, current, marks, expired, arg >>

Next ==
  \/ expired = NoWork /\ ((\E t \in Thread : ThreadStep(t)) \/ WorkerStep \/ ClockStep)
  \/ expired # NoWork /\ Handler

Spec == Init /\ [][Next]_vars

-----------------------------------------------------------------------------
(* Properties *)

(***************************************************************************)
(* RT_ASSERT(queue != RT_NULL) in _delayed_work_timeout_handler holds: a   *)
(* delayed work still belongs to its queue when its timer fires, whatever  *)
(* was submitted, made urgent or cancelled in the meantime.                *)
(***************************************************************************)
HandlerHasQueue == expired # NoWork => expired \in owned
=============================================================================
