# Verification of the RT-Thread kernel in RT-Spark-L

The repository is a board support package for an STM32F407: an application
(`src/stm32f407zgt6/applications`), drivers, packages, and a complete copy of RT-Thread
4.1.1 (`src/rt-thread`). Its own core logic, and the part where a mistake is hard to
reproduce, is the kernel: `src/rt-thread/src/*.c` and the inter-thread tools of
`src/rt-thread/components/drivers/ipc/*.c`. This project models the kernel in TLA+, checks
it with TLC on small instances and proves its central invariants with TLAPS.

The configuration is that of `src/stm32f407zgt6/rtconfig.h`: one CPU (no `RT_USING_SMP`),
32 priorities, no soft timers, no signals, no memheap or slab.

## 1. The system

### How the parts work together

A **thread** is a control block with a status, a priority and one list node (`tlist`). The node
stands in a ready list, in the suspend list of one IPC object, in the defunct list, or
nowhere. The **scheduler** keeps one ready list per priority and a bitmap of the non-empty ones.
`rt_schedule` gives the processor to the first thread of the highest ready priority.
**IPC objects** own suspend lists. A call that must wait takes its thread out of the ready
list, puts it into the object's list, starts the thread's own timer if the wait is limited, and calls
`rt_schedule`. A call that serves a waiter resumes it and calls `rt_schedule`. The **tick
interrupt** counts the time slice of the current thread and then runs the due timers. The timer
of a thread calls `_thread_timeout`, which takes the thread out of whatever list it
waits in. The **idle thread** frees the control blocks of ended threads.

All of this is shared memory. The only mutual exclusion is to disable interrupts, so the
unit of atomicity is *the code between `rt_hw_interrupt_disable` and
`rt_hw_interrupt_enable`*. Between two such sections of one call a tick can resume, time out or
preempt any thread. Most hazards of this code lie there.

### Components

| Component | State | Operations | What makes it correct |
|---|---|---|---|
| Kernel lists (`rtservice.h`) | nodes | insert first, insert last, remove | a node is in at most one list |
| Scheduler (`scheduler.c`) | ready lists, bitmap, current thread, lock count | `rt_schedule`, insert/remove, enter/exit critical | lists, bitmap and status agree; the running thread is displaced only for a reason |
| Threads (`thread.c`) | status, priority, error, timer, defunct list | init, startup, yield, sleep, suspend, resume, control, detach, delete, exit | a thread that is not running executes nothing; a sleeper has an alarm; a closed thread is in no ready list |
| Clock, idle (`clock.c`, `idle.c`) | tick, remaining slice | `rt_tick_increase`, `rt_defunct_execute` | slices end; an outranked thread is corrected; only closed threads are freed |
| Semaphore (`ipc.c`) | value, suspend list | init, take, trytake, release, reset, detach | no permit lost or made; order of service; one outcome per call |
| Mutex (`ipc.c`) | value, owner, hold, original priority, suspend list | init, take, release, detach | exclusion; priority inheritance; the priority is given back |
| Event (`ipc.c`) | set of bits, suspend list | send, recv, reset, detach | a waiter whose condition is met is woken; bits are consumed once |
| Mailbox (`ipc.c`) | ring buffer, entry count, two suspend lists | send, send_wait, urgent, recv, reset, detach | order; nothing stranded on either side |
| Message queue (`ipc.c`) | free list, message list, two suspend lists | same, with the copy outside the sections | conservation of slots; order |
| Timer (`timer.c`) | sorted list, 32-bit tick | start, stop, control, detach, check | fires once, not early, in order, across the wrap |
| Memory pool, small memory (`mempool.c`, `mem.c`) | free blocks | alloc, free | blocks disjoint and conserved; neighbours merged |
| Completion (`drivers/ipc/completion.c`) | flag, suspend list | init, wait, done | nobody sleeps on what is done |
| Work queue (`drivers/ipc/workqueue.c`) | work list, delayed list, current work, flags of the work, timers | dowork, submit with delay, urgent, cancel, cancel and wait, worker, timeout handler | work belongs to its queue while it is submitted |
| Other device IPC (`drivers/ipc`) | flags and rings | data queue, ring buffer, wait queue, pipe | order and conservation of the data |
| Objects, devices, startup (`object.c`, `device.c`, `components.c`) | registries | init, find, open, close | little behaviour of their own |
| Middleware, drivers, HAL, packages, application | — | — | vendored, generated, or without protocols of their own |

What is hard: interleavings of threads, interrupts and timeouts at section boundaries; a
timeout that races a release; tests made outside a section; priorities that change while a
thread stands in a sorted or indexed list; counters of 8, 16 and 32 bits at their limits. `PROJECT.json`
lists every hazard at its line with the properties that cover it, or the reason
why none does yet.

## 2. The modules

| Module | Models | Notes |
|---|---|---|
| `KList` | `rt_list_*`, the sorted walk of `_ipc_list_suspend` | lists as sequences read from the head |
| `Kernel` | the scheduler's data and the sections that change it | operators from kernel record to kernel record |
| `Scheduler` | threads using the thread API, tick, timers, idle | EXTENDS `Kernel` |
| `Ipc` | what all IPC objects share: waiting, waking, sleeping, tick | EXTENDS `Kernel` |
| `Semaphore`, `SemaphoreSpec` | semaphore and its abstract promise | EXTENDS `Ipc`; INSTANCE with refinement mapping |
| `Mutex` | mutexes with priority inheritance | EXTENDS `Ipc` |
| `Jobs` | calls that may have to wait more than once: what a waiting thread needs to go on | EXTENDS `Ipc` |
| `Exchange` | what mailbox and message queue share: rounds of the loops, two lists, detach | EXTENDS `Jobs` |
| `Mailbox` | mailbox: the ring of mails | EXTENDS `Exchange`; refines `MailboxSpec` |
| `MessageQueue` | message queue: linked slots, copies between the sections | EXTENDS `Exchange`; refines `MailboxSpec` |
| `MailboxSpec` | the abstract promise of both: a bounded sequence | no threads, no lists |
| `Event`, `Mempool`, `Completion` | the three objects with one list each | EXTEND `Jobs`, not runnable on their own |
| `Waits` | the three objects used by the same threads | EXTENDS all three |
| `Timer`, `TimerSpec` | the hard timers and the tick; their abstract promise | EXTENDS `KList`; INSTANCE with refinement mapping |
| `WorkQueue` | work queue, worker, delay timers | EXTENDS `Ipc` |
| `MCScheduler`, `MCSemaphore`, `MCMutex`, `MCMailbox`, `MCMessageQueue`, `MCWaits`, `MCWorkQueue` | instances for TLC | one or more `.cfg` each; `Timer` needs none |
| `KernelProofs`, `IpcProofs` | lemmas: lists, kernel operators, waiting and waking | checked by TLAPS |
| `SchedulerProofs`, `SemaphoreProofs`, `MutexProofs`, `TimerProofs` | lemmas and theorems of a component | checked by TLAPS |
| `ExchangeProofs` | lemmas about `Exchange`; theorems of `Mailbox` and of `MessageQueue` | EXTENDS both, hence the prefix `Mq` in the latter |
| `WaitsProofs` | theorems of `Waits` | checked by TLAPS |

### Kernel

The state is one record `k`. Its fields are the C variables: `stat` and `yield` are the two parts of
`thread->stat`, `prio` is `current_priority`, `err` is `thread->error`, `ready` is
`rt_thread_priority_table`, `group` the bitmap (as the set of its bits), `cur` is
`rt_current_thread`, `lock` is `rt_scheduler_lock_nest`, `wait` holds the suspend lists,
`armed` the threads whose `thread_timer` runs, `defunct` is `_rt_thread_defunct`. Each C function that
is one section is an operator (`Schedule`, `Suspend`, `Resume`, `Timeout`, `ChangePriority`, ...), so a
handler that calls three of them composes them in the order of the calls. `rt_schedule`
includes its side effects: it clears the yield bit of a running thread, puts the preempted thread back, and
removes the chosen one. `KernelInv(k, out)` states when the data is consistent; `out` is
the set of threads that `rt_thread_delete` has unlinked but not yet closed.

### Scheduler

A step is one section, or one test that a function makes with interrupts enabled. `pc[t]` is the point
between two steps where thread t is (application code, about to call `rt_schedule`, inside `rt_thread_sleep`,
`rt_thread_startup`, `rt_thread_resume` or `rt_thread_delete`, dead) and `target[t]` the thread that its unfinished call works on.
Only `k.cur` takes thread steps; `Tick`, `TickTimeout` and `IrqResume` are interrupts and can come between any two steps
(one interrupt does not interrupt another). `slice` is `remaining_tick`. The functions that work on another thread:

| Function | Steps |
|---|---|
| `rt_thread_startup` | `CallStartup` sets the status, `StartupTests` is the test of `rt_thread_resume` (line 895), `Resumes` its section, then `DoSchedule` |
| `rt_thread_resume` | `CallResume` is the test, `Resumes` the section, which does not test again |
| `rt_thread_delete`, `rt_thread_detach` | `CallDelete` is the tests (508 and 511, 405 and 408), `DeleteRemoves` is `rt_schedule_remove_thread`, `DeleteCloses` the second section |
| `rt_defunct_execute` | `IdleReads` reads the head of the defunct list, `IdleReaps` takes that thread out |

So a thread may time out, wake by an interrupt, preempt the caller and sleep again between the test and the section. Whether it may also
end there is the constant `EndInUse` (below).

### Ipc and the objects with suspend lists

The same technique with points for waiting (`"block"`, then `"woken"` when
`rt_schedule` has returned). The loop of `_ipc_list_resume_all` is atomic when a RESET command calls it with
interrupts disabled (`ResumeAll`) and one step per test and per waiter when detach and
delete call it with interrupts enabled (`TestList`, `FlushOne`). A tick may end the slice of
the current thread at any time, which includes every slice length. A thread that has a timer
may time out at any time, which includes every tick count and every duration.

- `Semaphore`: `arrived` is a history variable (order of arrival), `open` says that the object may be used.
- `Mutex`: `want[t]` is the argument of the call t is inside of; `held[t][m]` counts
  the takes that returned `RT_EOK` minus the releases, so it is what the callers believe;
  `plain` remembers whether anybody nested mutexes or detached an owned one.
- `Jobs`, `Exchange`: the loops of `rt_mb_send_wait`, `rt_mb_recv`, `rt_mq_send_wait`,
  `rt_mq_recv` and `rt_mp_alloc` are one section per round (`Round`, `AllocRound`); `job[t]` holds
  the arguments while t waits. After waiting, a limited timeout may or may not be used up (`Remaining`).
  `stage` follows a detach from the list of the receivers to that of the senders.
- `Mailbox`: the branch for `RT_MB_ENTRY_MAX` is left out because `entry < size <= 65535` where it is tested.
- `MessageQueue`: `hand[t]` is the slot that t has taken out of a list and copies into or out of with
  interrupts enabled (point `"copy"`). A slot that nobody reads any more is set to `Junk`, which saves
  states and shows when somebody reads it after all.
- `Event`: the bits and options a waiting thread has stored in its control block are the argument of its job.
  `rt_event_send` is a fold over the waiters (`Offered`), so that a waiter that clears bits changes what
  those behind it see.
- `Mempool`: blocks are counted only. The free list is a stack that is touched in the sections alone, so which
  block is taken cannot matter to the protocol. Waiters are put *first* in the list, as in the code.
- `Completion`: `rt_completion_done` tests the flag outside its section (point `"done"`).
- `Waits` composes the last three because a thread has one list node, one timer and one error number for
  all of them; what one wait leaves behind could disturb the next one.

### Timer

Ticks are numbers modulo `TickMax + 1`, and `Since` is the unsigned subtraction of the C code. `phase` follows
the tick interrupt through `rt_timer_check`; the whole loop runs with interrupts disabled, so the only
steps in phase `"call"` are those of the function being called. A timer function may start, stop, detach or
change any timer, its own as well; `demoted` is a history variable, the timers whose own function made them one-shot
and left `RT_TIMER_FLAG_ACTIVATED` set (section 5). `rt_timer_stop` by a thread is two steps (`StopTests`, `StopRemoves`),
between which the timer can fire; for the timers outside `Owned` (a thread's own timer is stopped by
`rt_thread_resume` inside a section) it is one. `TimerSpec` has a countdown per timer and no
list, flags or wrapping clock.

### WorkQueue

The work items are shared by the submitters, the worker and the timers. The flags are sets of work items. The
semaphore of the queue always returns to 0, so only its suspend list (`SyncList`) is kept;
`_workqueue_work_completion` releases it until nobody waits. The timers are abstracted: one that runs may fire
at any time (`TimerExpires`), and its handler comes before any other step, as interrupts are disabled.
Creation, destruction and cancel_all are not modelled.

### Contracts of the application

The guards below are not conditions of the code but of its documentation or its debug
assertions. Each is listed as a hazard.

- A blocking function is not called with the scheduler locked (`RT_DEBUG_SCHEDULER_AVAILABLE`): guard `MayBlock`.
- From the beginning of the call that deletes a thread, nobody else resumes, starts, re-prioritises or deletes it
  (`x \notin Doomed`), and it deletes nobody. A thread is started by one thread only (the assertion at `thread.c:359`).
- With `EndInUse = FALSE` a thread does not end while it is in use: it is not deleted while its timer runs, and neither deleted nor
  at its end while another thread is inside a call that starts, resumes or deletes it; a thread that is being deleted does not start to sleep.
  No comment of the code asks for this, but the code does not work without it: with `EndInUse = TRUE` TLC finds `delete_window` and the
  stale test of `rt_thread_resume` (both in section 5). What may happen to a thread in use is everything but its end.
- An object is not used after its detach began, and not detached while a waiter may time out
  (`_ipc_list_resume_all` tests the list outside the section), nor while a woken thread is
  still on its way back into a loop or copies a message (`NobodyInside`). Blocks of a memory pool that are
  allocated when it is detached are not freed afterwards.
- One thread at a time waits for a completion (asserted at `completion.c:70`).
- A timer of 0 ticks is neither periodic nor started by a timer function: it is due at once, and
  `rt_timer_check` would never leave its loop. A timer is not used after `rt_timer_detach` and not detached while somebody stops it. `rt_tick_set`
  is not called (only the power management does, which is not compiled).

## 3. The runs

| Run | Checks | Instance |
|---|---|---|
| `sched` | `TypeOK`, `KernelConsistent`, `ControlConsistent`, `PreemptedRightly`, `FreedByIdle` | 3 threads of two priorities + idle, all API functions, lock nesting up to 1, slices of 1 and 2 ticks, `EndInUse = FALSE`; about 1 500 000 states |
| `sched_live` | `PriorityServed` | 2 threads + idle with fairness; about 13 000 states |
| `semaphore` | `TypeOK`, `KernelConsistent`, `WaitersListed`, `NoIdlePermit`, `KeepsPromise`, `FifoServed` | 3 threads + idle + interrupt, values 0..2, both flags, resets to 0, 3 and 4; about 210 000 states |
| `mutex` | `TypeOK`, `KernelConsistent`, `OwnershipExact`, `ExclusiveHold`, `NoInversion`, `PlainPriorityRestored`, `HandedToHighest` | 3 threads of 3 priorities + idle, 1 mutex, `HoldMax` 2; about 680 000 states |
| `mailbox` | `TypeOK`, `WaitersListed`, `NoStrandedMail`, `NoIdleSlot`, `KeepsOrder` | 3 threads + idle + interrupt, 2 slots, one ordinary and one urgent mail, no wait and limited wait; about 1 400 000 states |
| `message_queue` | `MqTypeOK`, `SlotsConserved`, `CopyIntact`, `NobodyForgotten`, `MqKeepsOrder` | 3 threads + idle + interrupt, 2 slots, one ordinary and one urgent message, limited and unlimited wait; about 1 400 000 states |
| `waits` | `TypeOK`, `WaitersListed`, `NoMissedEvent`, `NoIdleBlock`, `NoSleepOnDone`, `BitsConsumedOnce` | 3 threads + idle + interrupts; 2 bits, an OR request that clears and an AND request that does not; 2 blocks; about 1 800 000 states |
| `timer` | `ActiveExact`, `OnTime`, `TickEnds`, `TypeOK` | 3 timers, 8 tick values, times 0 and 2; about 620 000 states |
| `round_robin` | `ExpiredGoesLast` is violated | 3 threads of one priority |
| `delete_window` | `ClosedUnlinked` is violated | 2 threads, `EndInUse = TRUE` |
| `nested_mutexes` | `PriorityRestored` is violated | 3 threads, 2 mutexes |
| `delayed_work` | `HandlerHasQueue` is violated | 1 thread, the worker, 1 work item |

What the passing runs show:

- **Consistency** (`KernelConsistent`): a thread is in the ready list of its priority
  exactly when it is READY, the bitmap says which lists are not empty, a waiter is suspended
  and waits in one list, only the current thread is RUNNING, a running timer
  belongs to a suspended thread (the assertion in `_thread_timeout`), and the defunct list holds closed threads. This is
  checked between any two steps. In particular it covers the thread that is resumed
  by an interrupt after it suspended itself and before it reached `rt_schedule`, and the one that has woken after
  `rt_thread_resume` tested its status and is put into the ready list a second time.
- **Control** (`ControlConsistent`): the processor always has a started thread to execute, the idle thread is always
  available, a suspended or closed thread does nothing but reach `rt_schedule`, a sleeper has its timer running, and each
  unfinished start, resume, deletion and reaping still finds its thread in a state that its next section can work on.
- **Freeing** (`FreedByIdle`): a closed thread stays in the defunct list until the idle thread takes out just the one it has read, although threads that
  exit in between are linked in front of it.
- **Preemption** (`PreemptedRightly`, `PriorityServed`): a running thread is displaced only by a
  higher priority, or by an equal one when it has to yield; an outranked ready thread
  does not stay outranked.
- **Semaphore**: it implements `SemaphoreSpec`. No permit is lost or made, however
  release, timeout, reset and detach race for one waiter. Waiters are served in the order the flag
  promises. With FIFO order nobody starves.
- **Mutex**: exclusion as seen by the callers, also when a timeout races a handover; inheritance
  without nesting; restoration of the priority without nesting; handover to the highest waiter.
- **Mailbox**: it implements `MailboxSpec` (a bounded sequence). Each send wakes one receiver
  only, and a third thread may take the mail first. Even so, while a receiver waits there are never more mails than
  receivers on their way, and the same holds for senders and free slots. So a sender and a
  receiver never wait for each other.
- **Message queue**: it implements the same `MailboxSpec`, although each message is copied with interrupts
  enabled. Every slot is in the free list, in the queue or in one thread's hand, once
  (`SlotsConserved`), whatever is sent, received or reset during the copy, and the content of a slot in a hand
  is left alone (`CopyIntact`). As a slot becomes free only in the second section of a receive,
  `NobodyForgotten` states the progress of the senders in terms of the free list.
- **Event, memory pool, completion**: no thread is left waiting for bits that are set; a send that wakes several
  threads gives cleared bits to one of them and leaves none of them set; no block is idle while a thread
  waits and nobody is on the way; nobody sleeps while the completion is done. And a thread stands in the list of
  the object it waits for only, with its timer running exactly when the wait is limited.
- **Timer**: a timer fires in the tick it was set for, once, and never after it was stopped, also across the wrap
  of the tick count; `RT_TIMER_FLAG_ACTIVATED` tells the truth but for a periodic timer that its own function made one-shot, until somebody starts or stops it; every tick
  ends, although timer functions put timers back into the list.

Every property of a passing run has a mutant in `PROJECT.json`: a changed definition of
the kind a slip in the C code would produce, with which TLC finds the property violated.

### Bounds

| Bound | Value | Why it is enough |
|---|---|---|
| threads | 2 or 3 + idle | a victim, a rival and a third that comes in between; `round_robin` needs three |
| priorities | 3, 4 with idle | equal, higher, and in between for inversion |
| `MaxLock` | 1 | inner levels only count; the outermost exit schedules. The proofs hold for every bound |
| `InitTick` | 1, 2 | a slice that ends at once and one that does not |
| `ValueMax`, `HoldMax` | 2 | the limit is reached by releases and nested takes; RESET also uses values above it |
| `Size` | 2 | empty, part, full, and the wrap of both offsets |
| `Plain`, `Express` | one value each | an ordinary mail goes to the end and an urgent one to the front, so a wrong order of the two shows |
| `Timeouts` | two kinds per run | no wait and limited wait (`mailbox`, `waits`), limited and unlimited (`message_queue`), so that each kind is combined with every operation somewhere |
| `EventUsers`, `PoolUsers`, `DoneUsers` | 2, 2 and 1 thread | two waiters compete for bits and for blocks; every thread and interrupt may send, free and complete. A completion has one waiter at a time |
| `Requests` | OR with clear, AND without | a waiter that takes bits away, one that needs them together |
| `Blocks` | 2 | empty, part, full |
| `TickMax`, `Times` | 7; 0 and 2 | half the range is 3, so 2 is the longest legal time; deadlines wrap in a quarter of the runs. The proofs hold for every `TickMax` above 3 |
| timers | 3 | one in front of, one behind and the one whose function runs. The proofs hold for any number |

Deadlock is checked in all runs: the tick is always possible, so there is none by
construction, and the properties above, not the absence of deadlock, carry the meaning.

### Fairness

- `Scheduler!FairSpec`: the tick recurs (hardware timer), the current thread goes on inside
  the function it called (it executes instructions), and a thread that holds the scheduler lock
  releases it (strong fairness, because the thread may do other things between). Nothing is assumed of the application
  besides; in particular nobody has to call a function that schedules.
- `Timer!FairSpec`: a tick interrupt that has begun goes on, and timer functions return. No tick is
  assumed to come, and nothing is assumed of threads.
- `Semaphore!FairSpec`: the releasing interrupt recurs while it has an effect. Threads are
  not assumed to run at all; that a FIFO waiter is served does not depend on it.
  The condition is spelled out instead of using `WF_` because TLC evaluates
  `ENABLED` of the composed kernel operators very slowly.

## 4. The proofs

### Scheduler

`KernelProofs` has the facts about lists (removing, inserting, sorted inserting, heads, order) and
shows for each kernel operator what it does to `KernelInv`.
`SchedulerProofs` has one lemma per action and the theorems. They hold for every set of threads, every
`MaxPrio`, every initial priorities and slices, every `Queue`, every bound `MaxLock` and every choice of
`Calls` and `NewPrio`:

| Theorem | States |
|---|---|
| `SpecIInv` | `EndInUse = FALSE` implies `Spec => []IInv` |
| `TypeCorrect` | ... `Spec => []TypeOK` |
| `KernelAlwaysConsistent` | ... `Spec => []KernelConsistent` |
| `ControlAlwaysConsistent` | ... `Spec => []ControlConsistent` |
| `AlwaysFreedByIdle` | ... `Spec => FreedByIdle` |
| `AlwaysPreemptedRightly` | ... `Spec => PreemptedRightly` |

Assumptions: `KernelAssumption` (the idle thread is a thread, priorities are in range),
`SchedulerAssumption` (main is not idle, slices are positive), and `EndInUse = FALSE`.
The last one is necessary: with `EndInUse = TRUE` TLC finds `ControlConsistent` and `FreedByIdle` violated (section 5).

**The inductive invariant** is `IInv == TypeOK /\ KernelConsistent /\ ControlConsistent`.
`KernelConsistent` alone is not inductive. For instance `Schedule` takes the head of a ready list, which
exists because the idle thread is ready or running (`IdleAvailable`), and it keeps `OneRunning` only because a
current thread that is not RUNNING is at a point where `rt_schedule` comes next with the scheduler unlocked
(`CurrentGoesOn`). `DeleteCloses` links a node into the defunct list, which is safe only
because its victim was not closed or resumed in between (`DeletionsDisjoint`). `Resumes` does not look at the status of its target, so the invariant has to say what the
target can have become since the test: anything but closed or never started (`CallsUnbroken`), and not taken out by a
deletion (`DeletionsDisjoint`). `ControlConsistent` alone is not
inductive either: that a switch leaves the idle thread available, or that a timeout wakes a thread nobody deletes, follows
from the lists and timers being exact.

The argument per action: the kernel lemma gives `KernelInv` of the new record and which
threads changed status (packaged as named predicates, so that the steps stay small); the control
lemmas (`ScheduledControl`, `WokenControl`, `MovedControl`, `StopsControl`, `SameControl`) carry the control
part over for the shapes that occur: the scheduler ran, a thread was woken, the current thread
moved to another point or target, a thread ended, nothing relevant changed. `FreedByIdle` comes along with them: each action lemma also says that the
defunct list only grows, but for `IdleReaps`. The action property `PreemptedRightly` follows from the same
invariant: `ScheduleDisplaces` says which thread `rt_schedule` takes when the current one is RUNNING, and
the action lemmas that no other section changes the current thread (`Quiet`).

### Timer

`TimerProofs` shows, for every set of timers, every `TickMax` above 3 and every set of times below half of
the range (`TimerAssumption`; the asserts of `rt_timer_init` and `RT_TIMER_CTRL_SET_TIME`):

| Theorem | States |
|---|---|
| `TypeCorrect` | `Spec => []TypeOK` |
| `ActiveAlwaysExact` | `Spec => []ActiveExact` |
| `FiresOnTime` | `Spec => OnTime`: every step of `Timer` is a step or a stutter of `TimerSpec` |

`TickMax > 3` is needed because a timer that became due with the last tick is one tick behind,
and half of a smaller range has no room for that.

**The inductive invariant** is `IInv == TypeOK /\ ActiveExact /\ PhaseInv /\ ListGood`. Modulo the
range of the tick no order of deadlines is transitive, so the proof replaces them by their `Distance` from
the current tick, which is -1 for a timer that was due before the current tick began and was not
called yet. `ListGood` says that the
list is sorted by distance and that every distance is below half of the range, and never -1 once
`rt_timer_check` has ended. It is needed for the two steps that look at one timer only and conclude
for all: `CheckEnds` tests the first one (`NoneDue`), and the walk of `rt_timer_start` stops at the first that is due
later. `PhaseInv` says that a timer in the temporary list that is still active is periodic, so that
`rt_timer_check` starts it again, or was made one-shot by its own function (`demoted`); without it `ActiveExact` breaks in `Returns`.

The argument per action: `RemovedKeeps`, `PutKeeps`, `TickKeeps` and `SameKeeps` say what each kind of change does to
`ListGood` and to the ticks that are left (the refinement mapping); with them each action is compared with one action of the promise. The arithmetic
is in `SinceFacts`, `LaterFacts`, `TickDistance` and `DueAfterDistance`, the last of which is that
the unsigned comparison of the C code orders the deadlines in the list by distance.

### What the objects share

`IpcProofs` carries the kernel part over to the IPC objects. `Sound(s, at)` is `KernelInv` together with
`Control`: between two sections the scheduler is not locked, a suspended thread is at a point inside a call that blocks,
and the current thread is RUNNING unless it is about to call `rt_schedule`. Each shared operator has a lemma that says what becomes
of `Sound`, of the sleepers, of the armed timers and of the suspend lists: `WaitOnSound`, `ResumeSound`, `ResumeAllSound`,
`TimeoutSound`, `ScheduleSound`, and one per step of `Ipc` (`StepTick`, `StepSleep`, `StepFlushOne`, ...).
`_ipc_list_resume_all` is written as a recursive function over the waiters, so that its rounds can be reasoned about: `ResumeAllSound`
proves by the least round that goes wrong that all of them are well-behaved (`MinInSet` takes the place of
induction). The last part of the module has the lemmas about an object that keeps calls in `job`: `ListedIn` (a list holds exactly those
suspended in its operation) and `Enough` (while a list is not empty, enough threads are on their way back for what
there is to be had).

### Semaphore

`SemaphoreProofs` holds for every set of threads, all priorities, every `ValueMax`, all `InitValue`, `ResetArg`, `Timeouts`
and `Calls`:

| Theorem | States |
|---|---|
| `SpecIInv` | `DetachTimed = FALSE` implies `Spec => []IInv` |
| `TypeCorrect` | ... `Spec => []TypeOK` |
| `KernelAlwaysConsistent` | ... `Spec => []KernelConsistent` |
| `WaitersAlwaysListed` | ... `Spec => []WaitersListed` |
| `NeverIdlePermit` | ... `Spec => []NoIdlePermit` |
| `PromiseKept` | ... `Spec => KeepsPromise`: every step is a step or a stutter of `SemaphoreSpec` |

The hypothesis is the contract of section 2: `rt_sem_detach` is not called while a waiter may time out. Without it
`_ipc_list_resume_all` can find the list empty in the section that takes its head (a listed hazard), and `IInv` is false.

**The inductive invariant** adds to `Sound` what ties the kernel to the semaphore: the suspend list holds exactly the threads
inside `rt_sem_take`, none of which has an error yet (`Attended`); its order is the order of service of the history variable `arrived`
(`Ordered`; with the flag `prio`, sorted by priority and by arrival among equals); at most one thread empties the list of a closed object, and as no waiter of it has a
timer, the list stays non-empty between the test and the wakeup (`SweepOK`); and a positive value implies that nobody waits.
`NoIdlePermit` is that last conjunct, which is not inductive alone: a release looks at the list and a waiter comes back without looking at the value.

The refinement maps a thread to the outcome its call will have: `"waiting"` while it is suspended, then `"granted"` or the error
that has been written, although the thread has not run yet. `WakesPromise` is the main case: the head of the suspend list is
the waiter whose turn it is in the abstract line. That needs `Ordered` and the lemmas about the order of list members in `KernelProofs`.

### Mutex

`MutexProofs` holds for every set of threads, all priorities, every set of mutexes, every `HoldMax`, `Timeouts` and `Calls`,
without a hypothesis besides the `ASSUME`s of the modules. `MutexAssumption` says that `None` (`RT_NULL`) is neither a thread
nor a mutex.

| Theorem | States |
|---|---|
| `SpecIInv` | `Spec => []IInv` |
| `TypeCorrect` | `Spec => []TypeOK` |
| `KernelAlwaysConsistent` | `Spec => []KernelConsistent` |
| `OwnershipAlwaysExact` | `Spec => []OwnershipExact` |
| `AlwaysExclusive` | `Spec => []ExclusiveHold` |
| `AlwaysDisciplined` | `Spec => [](IInv /\ Disciplined)` |
| `NeverInverted` | `Spec => []NoInversion` |
| `PriorityAlwaysRestored` | `Spec => []PlainPriorityRestored` |
| `AlwaysHandedToHighest` | `Spec => HandedToHighest` |

The first five hold however the threads nest mutexes; the run `mutex` has one mutex only. `IInv` was checked with TLC before it was proved,
with one mutex completely and with two as far as five million states. `Disciplined` was checked with one and two mutexes completely.

**The inductive invariant** `IInv` is about every mutex of `Queue`, the closed ones too, because a mutex keeps its fields while its
waiters are woken. `Listed` ties `want` to the kernel: the list of m holds exactly the suspended threads inside `rt_mutex_take(m)`, and nothing has been decided about
them. So a thread stands in one list, and waking it changes one (`ListedWithout`). `Swept` is about detach: one thread at most
empties a list, no waiter of it has a running timer, so the list is still not empty at the wakeup. `AccountOK` is `OwnershipExact` for
all mutexes and with `original_priority` (of an owned mutex, it is a priority to which a release can go back). `GotOK` is the bookkeeping: what t has
got of m, plus one while t is `Granted` m (woken as its owner, not back from its call), is the owner's hold or 0. `ExclusiveHold` alone is not inductive:
a handover takes the head of the list without looking whether that thread waits for this mutex, and a thread that returns with `RT_EOK` counts the mutex
without looking at its owner.

Inheritance must not disturb any of this. `ChangePriority` may hit a thread that is ready, running or suspended in the list of
another mutex. `PriorityCalm` and `InheritanceCalm` show that it changes nothing that a waiter can tell besides its priority (`Calm`), and keeps the
kernel state sound. So the steps that boost and restore reduce to those that do not (`CalmStep`, `BoostThenBlock`,
`RestoreThenResume`). Most other actions change no field of a mutex; `FieldsKept` handles these at once.

**The discipline.** The last three theorems are about `plain`: nobody asked for a second mutex while it owned one, and no owned mutex was detached. `Disciplined` says what then
holds besides: a thread owns one mutex at most, and none while it waits; it has its own priority unless it owns a
mutex; that mutex remembers its own priority; the owner has at least the priority of each waiter; the waiters are sorted. `NoInversion` needs all of it. After a
handover the new owner has its own priority, which is the highest of those in the list because the list is sorted (`HeadIsHighest`).
The list stays sorted because a thread that waits owns nothing and so is never boosted. The old owner drops to the
priority that the mutex remembers, which is right because no other waiter depends on it. Without `plain` these
steps fail one by one: the finding `nested_mutexes` (section 5) and the hazard at `ipc.c:1001`.

### Mailbox

The first part of `ExchangeProofs` is about what mailbox and message queue share, the second one about the mailbox. It holds for every set of threads, all priorities, every `Size` from 1 on, all mails, `Flags`, `Timeouts` and
`Calls`, without a hypothesis besides the `ASSUME`s of the modules:

| Theorem | States |
|---|---|
| `SpecIInv` | `Spec => []IInv` |
| `TypeCorrect` | `Spec => []TypeOK` |
| `WaitersAlwaysListed` | `Spec => []WaitersListed` |
| `NeverStrandedMail` | `Spec => []NoStrandedMail` |
| `NeverIdleSlot` | `Spec => []NoIdleSlot` |
| `OrderKept` | `Spec => KeepsOrder`: every step is a step or a stutter of `MailboxSpec` |

**The inductive invariant** has three parts. `ExchangeInv` is about the threads: `Sound`, both lists exact (`ListedIn`), a thread keeps a call
only at the points `"block"` and `"woken"`, the detach sweep goes in order (`SweepOK`), and nobody comes back into a loop of a closed object.
`Served` is the counting argument: while a list is not empty, the number of mails (or of free slots) is at most the number of threads of that side that were woken
without an error and have not come back. A send adds a mail and wakes one receiver (`WakeAndReturnServes`, `EnoughAdd`); it takes a slot, and if the
sender was one of those on their way, the number of these drops by one as well (`EnoughRemove`). A thread
that comes back and finds nothing left lowers the count when the amount is 0 (`StillServed`). That a timeout
cannot lower the count is why `Comes` asks for a thread that is no longer suspended: its timer has been stopped
by the resume (`ErrorKeeps`). `RingOK` is about the pool: `in = (out + entry) % Size`.

From `IInv` the two counting properties follow at once, and with them that a sender and a receiver never wait for each other with
nobody on the way: the free slots and the mails add up to `Size`, which is positive.

The refinement mapping reads the mails out of the ring. `Wrap` replaces the remainder by one comparison, which is what the C code
does; `StorePuts`, `StoreUrgentPuts` and `FetchGets` then compare the boxes before and after, mail by mail.

### Message queue

The last part of `ExchangeProofs` holds for every set of threads, all priorities, every `Size` from 1 on, all messages, `Flags`,
`Timeouts` and `Calls`, without a hypothesis besides the `ASSUME`s of the modules (`QueueAssumption`: `RT_NULL` is no slot):

| Theorem | States |
|---|---|
| `MqSpecIInv` | `MqSpec => []MqInv` |
| `MqTypeCorrect` | `MqSpec => []MqTypeOK` |
| `MqWaitersAlwaysListed` | `MqSpec => []WaitersListed` |
| `SlotsAlwaysConserved` | `MqSpec => []SlotsConserved` |
| `CopyAlwaysIntact` | `MqSpec => []CopyIntact` |
| `NobodyEverForgotten` | `MqSpec => []NobodyForgotten` |
| `MqOrderKept` | `MqSpec => MqKeepsOrder`: every step is a step or a stutter of `MailboxSpec` |

**The inductive invariant** `MqInv` was checked with TLC on the instance of the run `message_queue` before its theorems were proved. `ExchangeInv` and `Served` are those of
the mailbox, the latter with the length of the free list for the free slots: a slot in hand is neither a message nor free, so a send takes from the senders in its first section and gives
to the receivers in its second one (`TakeServes`, `WakeAndReturnAdds`). `SlotsOK` is about the pointers: following them from `head` and from `free` passes through two
lists without a common slot (`IsChain`, `SlotList`), they and the slots in hand are all slots, `tail` is the last of the queue and `entry` its length. `HandsOK` is about those who copy: exactly they have a slot
in hand, no two the same, it contains the message of the call, and that of an ordinary send points nowhere. This last conjunct is why `SlotsConserved` is not inductive alone: the
pointer is cleared in the first section of `rt_mq_send_wait`, and the second one makes the slot the end of the queue without looking at its pointer.
A receiver may have taken the last message, or a RESET all of them, in between.

`Chain` computes a list from the pointers; `ChainIs` shows that `IsChain` determines it, so that no step has to follow pointers again. `SlotTaken`, `SlotUnlinked`, `SlotLinkedLast`,
`SlotLinkedFirst`, `SlotFreed`, `SlotsDrained` and `SlotsFresh` say what each change of pointers in the C code does to the two lists, and `HandTakes`, `HandGives` and `HandKeeps`
what it does to the copies. The refinement mapping is the contents along the queue (`Contents`); the first section of a send and the second one of a receive are stutters, since a slot in hand is in no list.

### Event, memory pool and completion

`WaitsProofs` holds for every set of threads, all priorities, any users, every `Requests`, `SentBits`, `Blocks`, `Flags`, `Timeouts` and
`Calls`, without a hypothesis besides the `ASSUME`s of the modules:

| Theorem | States |
|---|---|
| `SpecIInv` | `Spec => []IInv` |
| `TypeCorrect` | `Spec => []TypeOK` |
| `WaitersAlwaysListed` | `Spec => []WaitersListed` |
| `NeverMissedEvent` | `Spec => []NoMissedEvent` |
| `NeverIdleBlock` | `Spec => []NoIdleBlock` |
| `NeverSleepOnDone` | `Spec => []NoSleepOnDone` |
| `BitsAlwaysConsumedOnce` | `Spec => BitsConsumedOnce` |

**The inductive invariant** joins one part about the threads and one per object. `WaitsInv`: `Sound`, the list of each object is exactly the
threads inside its call that nothing has been decided about, at most one of them in the list of the completion, a call is kept only at `"block"` and `"woken"`, and
the sweep of a closed object goes in order. `Unmet`: no listed waiter of the event asks for something the set satisfies. `Enough`: while a thread waits
for a block, the free blocks are at most the threads that were woken for one and have not come back. And a completion that is done has nobody in its list.

The hard step is `rt_event_send`, a loop over the list that wakes, takes bits away and goes on with the next waiter. In the model it is the recursive function
`Sent`. What the loop promises is proved by the least round in which it would fail: `Scanned` says what holds after n rounds (the list and the set that are left, and that no
waiter passed so far is satisfied by the set). A waiter that was passed stays unsatisfied because the set only loses bits afterwards (`Passed`), and
`Gifts` and `Apart` say what was handed out: each woken thread got bits that were in the set, and two threads never the same bit that one of them cleared. `BitsConsumedOnce` follows from these.

### What stays with TLC

Not proved: the work queue, which has only the finding `delayed_work`; liveness (`PriorityServed`, `FifoServed`, `TickEnds`), which is out
of the prover's reach.

## 5. Disagreements between the code and its comments

1. **Round robin** (`round_robin`). `rt_schedule` clears the yield bit of the current thread
   *before* it calls `rt_schedule_insert_thread`, which tests the bit to decide between last and first. So a
   thread whose slice is used up goes to the front of its list. With two threads nothing is noticed; with
   three of one priority, two alternate and the third one starves.
2. **The window in `rt_thread_delete`** (`delete_window`). The thread is unlinked in one section and its timer
   detached in a second one. A tick in between that finds the timer due runs
   `_thread_timeout`, which puts the thread back into the ready list; then it is closed while it
   stands there. `rt_thread_detach` has the same window.
3. **Nested mutexes** (`nested_mutexes`). `rt_mutex_take` saves the *current* priority as the
   original one. When it was inherited through another mutex, a release in non-nested order leaves a thread that owns
   nothing with a priority that is not its own.
4. **Delayed work submitted at once** (`delayed_work`). `rt_workqueue_dowork` and `rt_workqueue_urgent_work` take a work
   out of the delayed list but leave its timer running. The worker executes it and sets `work->workqueue` to
   `RT_NULL`; when the timer fires, `RT_ASSERT(queue != RT_NULL)` in the timeout handler fails. Without those two
   calls the property holds.

Met while modelling, without a run of their own:

- `rt_thread_resume` tests the status with interrupts enabled (`thread.c:895`). With `EndInUse = TRUE` TLC finds this behaviour: main
  resumes a sleeping thread of higher priority; after the test an interrupt resumes it, it preempts main and exits, so it is closed and in the defunct
  list; main goes on, takes it out of that list and puts it into the ready list as READY. `FreedByIdle` and `ControlConsistent` fail
  (`StartedHasPlace`: a READY thread that has nowhere to go on). `rt_thread_startup` does the same to a thread that it starts.
  The properties and theorems about the scheduler therefore exclude the end of a thread in use, and nothing else.
- `RT_TIMER_CTRL_SET_ONESHOT` from a periodic timer's own function leaves `RT_TIMER_FLAG_ACTIVATED` set on a timer that is in
  no list (`timer.c:660` and `681`), so `RT_TIMER_CTRL_GET_STATE` calls it running (`timer.c:600`) until somebody starts or stops it. This is in the
  model: `ActiveExact` names these timers as the exception.
- `RT_TIMER_CTRL_GET_REMAIN_TIME` returns the tick of the deadline, not the time that remains (`timer.c:611`).
- `rt_workqueue_cancel_work_sync` tests `work_current` outside a section. When the work ends between the test and the wait,
  nobody releases the semaphore before another work ends.
- A `rt_completion_done` that comes between the timeout of the waiter and its return is erased (`completion.c:110`).

## 6. Not modelled

- Data queue, wait queue, pipe, ring buffers: the first two repeat the waiting patterns of the message queue and the
  completion; the rings are sequential and need no interleavings to be tested.
- `mem.c`: address arithmetic under one lock.
- Work queue creation, destruction and cancel_all.
- Startup, object registries, devices: little behaviour of their own.
- SMP, signals, soft timers, memheap and slab: not compiled.
- The CPU port, the HAL, drivers, file systems, network, shell and packages: vendored or below the level of the model.
- Deletion of threads that are inside an IPC call or own a mutex.
- Tick counts outside module `Timer`: in the other modules a due timer may fire at any time.

## 7. What could come next

Written in this order: `KList`, `Kernel`, `Scheduler`, `SchedulerProofs`, `Ipc`, `Semaphore`, `Mutex`, `Mailbox`,
then `Jobs`, `Exchange`, `MessageQueue`, `Event`, `Mempool`, `Completion`, `Waits`, `Timer`, `WorkQueue`, `TimerProofs`, `IpcProofs`,
`SemaphoreProofs`, `MutexProofs`, `WaitsProofs`, `ExchangeProofs`.

All safety properties of the passing runs are proved. What is left is to model more: creation, destruction and cancel_all of the work
queue, with its safety properties and their proofs; the data queue; the block list of `mem.c`.
Functions that would need recursion or induction over data, and liveness, stay with TLC.
