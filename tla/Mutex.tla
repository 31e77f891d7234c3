------------------------------- MODULE Mutex -------------------------------
(***************************************************************************)
(* The mutexes of ipc.c: recursive, owned, handed over to the first waiter *)
(* by the release, with priority inheritance; over the kernel state of     *)
(* module Kernel.  The suspend list of a mutex is the element of Queue     *)
(* that stands for the mutex.                                              *)
(***************************************************************************)
EXTENDS Ipc

CONSTANTS
  None,       \* RT_NULL, neither a thread nor a mutex
  HoldMax,    \* RT_MUTEX_HOLD_MAX
  Timeouts    \* the kinds of timeout: "none", "timed", "forever"

ASSUME MutexAssumption ==
  /\ None \notin Thread \cup Queue
  /\ HoldMax \in Nat \ {0}
  /\ Timeouts \subseteq {"none", "timed", "forever"}

VARIABLES
  value,   \* mutex->value
  owner,   \* mutex->owner
  orig,    \* mutex->original_priority
  hold,    \* mutex->hold
  open,    \* the mutexes that are initialised and nobody is detaching
  want,    \* the argument of the call a thread is inside of
  held,    \* how often each thread has got each mutex (history variable)
  plain    \* nobody ever took a second mutex while it owned one, and no
           \* owned mutex was detached (history variable)

mvars == << value, owner, orig, hold, open, held, plain >>
vars == << k, pc, value, owner, orig, hold, open, want, held, plain >>

Unowned == 255   \* the original_priority of a mutex without an owner

Init ==
  /\ IpcInit
  /\ value = [m \in Queue |-> 1]
  /\ owner = [m \in Queue |-> None]
  /\ orig = [m \in Queue |-> Unowned]
  /\ hold = [m \in Queue |-> 0]
  /\ open = Queue
  /\ want = [t \in Thread |-> None]
  /\ held = [t \in Thread |-> [m \in Queue |-> 0]]
  /\ plain = TRUE

Call(t, f, m) == InCall(t, f) /\ m \in open

-----------------------------------------------------------------------------
(* rt_mutex_take, and rt_mutex_trytake with timeout "none" *)

(* thread->error = RT_EOK at the head of the call *)
ErrorReset(t) == [k EXCEPT !.err[t] = "ok"]

(* The owner takes the mutex again; at RT_MUTEX_HOLD_MAX with -RT_EFULL. *)
CanHold_OffByOne(m) == hold[m] <= HoldMax

CanHold(m) == hold[m] < HoldMax

TakeAgain(t, m) ==
  /\ Call(t, "take", m) /\ owner[m] = t
  /\ k' = ErrorReset(t)
  /\ IF CanHold(m)
     THEN /\ hold' = [hold EXCEPT ![m] = @ + 1]
          /\ held' = [held EXCEPT ![t][m] = @ + 1]
     ELSE UNCHANGED << hold, held >>
  /\ UNCHANGED << pc, value, owner, orig, open, want, plain >>

TakeFree(t, m) ==
  /\ Call(t, "take", m) /\ owner[m] # t
  /\ value[m] > 0
  /\ k' = ErrorReset(t)
  /\ value' = [value EXCEPT ![m] = @ - 1]
  /\ owner' = [owner EXCEPT ![m] = t]
  /\ orig' = [orig EXCEPT ![m] = k.prio[t]]
  /\ hold' = [hold EXCEPT ![m] = @ + 1]
  /\ held' = [held EXCEPT ![t][m] = @ + 1]
  /\ plain' = (plain /\ \A n \in Queue : owner[n] # t)
  /\ UNCHANGED << pc, open, want >>

TakeFails(t, m) ==
  /\ Call(t, "take", m) /\ owner[m] # t
  /\ value[m] = 0 /\ "none" \in Timeouts
  /\ k' = [k EXCEPT !.err[t] = "timeout"]
  /\ UNCHANGED << pc, want, mvars >>

(***************************************************************************)
(* The thread waits; before that the owner gets its priority if that is    *)
(* higher than the one it has.                                             *)
(***************************************************************************)
Boosted_OnlyWhenReady(s, o, p) ==
  IF s.stat[o] = "ready" /\ p < s.prio[o] THEN ChangePriority(s, o, p) ELSE s

Boosted(s, o, p) ==
  IF p < s.prio[o] THEN ChangePriority(s, o, p) ELSE s

TakeWaits(t, m, timeout) ==
  /\ Call(t, "take", m) /\ owner[m] # t
  /\ value[m] = 0 /\ timeout \in Timeouts \ {"none"}
  /\ k' = WaitOn(Boosted(ErrorReset(t), owner[m], k.prio[t]), m, t, "prio", timeout)
  /\ want' = [want EXCEPT ![t] = m]
  /\ Goto(t, "block")
  /\ plain' = (plain /\ \A n \in Queue : owner[n] # t)
  /\ UNCHANGED << value, owner, orig, hold, open, held >>

(* The call returns thread->error. *)
TakeReturns(t) ==
  /\ t = k.cur /\ pc[t] = "woken"
  /\ held' = IF k.err[t] = "ok" THEN [held EXCEPT ![t][want[t]] = @ + 1] ELSE held
  /\ want' = [want EXCEPT ![t] = None]
  /\ Goto(t, "run")
  /\ UNCHANGED << k, value, owner, orig, hold, open, plain >>

-----------------------------------------------------------------------------
(* rt_mutex_release *)

ReleaseRefused(t, m) ==
  /\ Call(t, "release", m) /\ owner[m] # t
  /\ k' = [k EXCEPT !.err[t] = "error"]
  /\ UNCHANGED << pc, want, mvars >>

ReleaseInner(t, m) ==
  /\ Call(t, "release", m) /\ owner[m] = t
  /\ hold[m] > 1
  /\ hold' = [hold EXCEPT ![m] = @ - 1]
  /\ held' = [held EXCEPT ![t][m] = @ - 1]
  /\ UNCHANGED << k, pc, value, owner, orig, open, want, plain >>

(* the owner goes back to its original priority *)
Restored_Never(s, t, p) == s

Restored(s, t, p) == IF p # s.prio[t] THEN ChangePriority(s, t, p) ELSE s

(***************************************************************************)
(* The last release: the first waiter becomes the owner and is resumed, or *)
(* the mutex becomes free.  There is no rt_schedule when nobody waits.     *)
(***************************************************************************)
NewOwner_Last(m) == IF k.wait[m] = << >> THEN None ELSE Last(k.wait[m])

NewOwner(m) == IF k.wait[m] = << >> THEN None ELSE Head(k.wait[m])

ValueAfter_AlsoHandedOver(m) == value[m] + 1

ValueAfter(m) == IF NewOwner(m) = None THEN value[m] + 1 ELSE value[m]

ReleaseLast(t, m) ==
  /\ Call(t, "release", m) /\ owner[m] = t
  /\ hold[m] = 1
  /\ held' = [held EXCEPT ![t][m] = 0]
  /\ owner' = [owner EXCEPT ![m] = NewOwner(m)]
  /\ value' = [value EXCEPT ![m] = ValueAfter(m)]
  /\ IF NewOwner(m) = None
     THEN /\ k' = Restored(k, t, orig[m])
          /\ hold' = [hold EXCEPT ![m] = 0]
          /\ orig' = [orig EXCEPT ![m] = Unowned]
          /\ UNCHANGED pc
     ELSE /\ k' = ResumeFirst(Restored(k, t, orig[m]), m)
          /\ orig' = [orig EXCEPT ![m] = k.prio[NewOwner(m)]]
          /\ Goto(t, "sched")
          /\ UNCHANGED hold
  /\ UNCHANGED << open, want, plain >>

-----------------------------------------------------------------------------
(* rt_mutex_detach, rt_mutex_delete, rt_mutex_init, rt_mutex_create *)

(* as for the semaphore, without timed waiters *)
Detach(t, m) ==
  /\ Call(t, "detach", m)
  /\ Waiting(m) \cap k.armed = {}
  /\ open' = open \ {m}
  /\ want' = [want EXCEPT ![t] = m]
  /\ Goto(t, "test")
  /\ plain' = (plain /\ owner[m] = None)
  /\ UNCHANGED << k, value, owner, orig, hold, held >>

TestWaiters(t) ==
  /\ TestList(t, want[t])
  /\ want' = IF k.wait[want[t]] = << >> THEN [want EXCEPT ![t] = None] ELSE want
  /\ UNCHANGED mvars

FlushWaiter(t) ==
  /\ FlushOne(t, want[t])
  /\ UNCHANGED << want, mvars >>

(* once nobody uses the mutex any more *)
Initialise(t, m) ==
  /\ InCall(t, "detach") /\ m \notin open
  /\ \A u \in Thread : want[u] # m
  /\ value' = [value EXCEPT ![m] = 1]
  /\ owner' = [owner EXCEPT ![m] = None]
  /\ orig' = [orig EXCEPT ![m] = Unowned]
  /\ hold' = [hold EXCEPT ![m] = 0]
  /\ held' = [u \in Thread |-> [held[u] EXCEPT ![m] = 0]]
  /\ open' = open \cup {m}
  /\ UNCHANGED << k, pc, want, plain >>

-----------------------------------------------------------------------------
ThreadStep(t) ==
  \/ \E m \in Queue :
       \/ TakeAgain(t, m) \/ TakeFree(t, m) \/ TakeFails(t, m)
       \/ ReleaseRefused(t, m) \/ ReleaseInner(t, m) \/ ReleaseLast(t, m)
       \/ Detach(t, m) \/ Initialise(t, m)
       \/ \E timeout \in Timeouts : TakeWaits(t, m, timeout)
  \/ TakeReturns(t) \/ TestWaiters(t) \/ FlushWaiter(t)
  \/ (DoSchedule(t) \/ Sleep(t) \/ SleepReturns(t)) /\ UNCHANGED << want, mvars >>

ClockStep ==
  /\ Tick \/ \E x \in Thread : TickTimeout(x)
  /\ UNCHANGED << want, mvars >>

Next == (\E t \in Thread : ThreadStep(t)) \/ ClockStep

Spec == Init /\ [][Next]_vars

-----------------------------------------------------------------------------
(* Properties *)

TypeOK ==
  /\ k \in KernelType
  /\ pc \in [Thread -> IpcPC]
  /\ value \in [Queue -> 0 .. 1]
  /\ owner \in [Queue -> Thread \cup {None}]
  /\ orig \in [Queue -> Prio \cup {Unowned}]
  /\ hold \in [Queue -> 0 .. HoldMax]
  /\ open \subseteq Queue
  /\ want \in [Thread -> Queue \cup {None}]
  /\ held \in [Thread -> [Queue -> 0 .. HoldMax]]
  /\ plain \in BOOLEAN

(***************************************************************************)
(* The lists, the priority bitmap, the timers and the status of the        *)
(* threads agree while owners are moved between ready lists by the threads *)
(* that wait for them.                                                     *)
(***************************************************************************)
KernelConsistent == KernelInv(k, {})

(***************************************************************************)
(* value, owner, hold and the suspend list tell the same story: a mutex is *)
(* free exactly when it has no owner and no hold, nobody waits for a free  *)
(* mutex (no release was lost), and no owner waits for its own mutex.      *)
(***************************************************************************)
OwnershipExact ==
  \A m \in open :
    /\ value[m] = 1 <=> owner[m] = None
    /\ hold[m] = 0 <=> owner[m] = None
    /\ owner[m] = None => k.wait[m] = << >>
    /\ owner[m] \notin Waiting(m)

(***************************************************************************)
(* Mutual exclusion as the callers see it: a thread whose calls to take    *)
(* returned RT_EOK more often than it released is the owner, with that     *)
(* hold count; a thread to which the mutex was handed over while it waits  *)
(* (even if its timeout comes at that moment) will return RT_EOK; and a    *)
(* call that returns an error leaves nothing behind.                       *)
(***************************************************************************)
HandedOver(t, m) ==
  pc[t] \in {"block", "woken"} /\ want[t] = m /\ t \notin Waiting(m) /\ k.err[t] = "ok"

ExclusiveHold ==
  \A m \in open, t \in Thread :
    held[t][m] + (IF HandedOver(t, m) THEN 1 ELSE 0) = IF owner[m] = t THEN hold[m] ELSE 0

(***************************************************************************)
(* "RT_IPC_FLAG_FIFO cannot solve the unbounded priority inversion         *)
(* problem" (ipc.c, rt_mutex_init); with RT_IPC_FLAG_PRIO it is solved, if *)
(* nobody nests mutexes: while a thread waits, the owner has at least its  *)
(* priority, after a handover and after timeouts of other waiters too, so  *)
(* no thread of a priority in between keeps the owner from the processor.  *)
(***************************************************************************)
NoInversion ==
  plain => \A m \in open : \A u \in Waiting(m) : k.prio[owner[m]] <= k.prio[u]

(***************************************************************************)
(* "change the owner thread to original priority" (ipc.c,                  *)
(* rt_mutex_release): a thread that owns no mutex has the priority it was  *)
(* created with, as no thread here changes its priority otherwise.         *)
(***************************************************************************)
OwnsNothing(t) == \A m \in Queue : owner[m] # t

PriorityRestored == \A t \in Thread : OwnsNothing(t) => k.prio[t] = InitPrio[t]

(* The same without nested mutexes and without detaching an owned mutex. *)
PlainPriorityRestored == plain => PriorityRestored

(***************************************************************************)
(* A mutex that is handed over goes to a waiter of the highest priority.   *)
(***************************************************************************)
HandedToHighest ==
  [][ \A m \in open : k.wait[m] # << >> /\ owner'[m] # owner[m] /\ plain =>
        /\ owner'[m] \in Waiting(m)
        /\ \A u \in Waiting(m) : k.prio[owner'[m]] <= k.prio[u] ]_vars
=============================================================================
