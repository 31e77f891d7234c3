----------------------------- MODULE IpcProofs -----------------------------
(***************************************************************************)
(* What the steps that all the IPC objects share do to the kernel state:   *)
(* blocking on an object, waking one waiter or all of them, a timeout and  *)
(* rt_schedule.  The modules of the objects build their proofs on these    *)
(* lemmas, which hold for any threads, priorities and suspend lists.       *)
(***************************************************************************)
EXTENDS Ipc, KernelProofs, FiniteSetTheorems

(* The suspended threads: those that rt_thread_resume has an effect on *)
Sleepers(s) == {t \in Thread : s.stat[t] = "suspend"}

(***************************************************************************)
(* Between two sections the scheduler is not locked; a thread is suspended *)
(* only on its way through a call that blocks; and the current thread is   *)
(* RUNNING unless it is about to call rt_schedule after it has suspended   *)
(* itself.  As the idle thread never blocks, rt_schedule then always has a *)
(* thread to switch to.                                                    *)
(***************************************************************************)
Control(s, at) ==
  /\ s.lock = 0
  /\ at[Idle] = "run"
  /\ \A t \in Thread : s.stat[t] \in {"ready", "running", "suspend"}
  /\ \A t \in Sleepers(s) : at[t] \in {"block", "woken", "nap", "slept"}
  /\ s.cur \in Sleepers(s) => at[s.cur] \in {"block", "nap"}

Sound(s, at) == KernelInv(s, {}) /\ Control(s, at)

(***************************************************************************)
(* The facts about a sound kernel state that the proofs start from.        *)
(***************************************************************************)
LEMMA SoundFacts ==
  ASSUME NEW s, NEW at, Sound(s, at)
  PROVE  /\ s \in KernelType /\ ListsInv(s, {}) /\ OneRunning(s)
         /\ s.cur \in Thread /\ s.stat \in [Thread -> Stat]
         /\ s.wait \in [Queue -> Seq(Thread)] /\ s.err \in [Thread -> Err]
         /\ s.prio \in [Thread -> Prio] /\ s.armed \in SUBSET Thread
         /\ Idle \in Thread
         /\ s.cur \notin Sleepers(s) => s.stat[s.cur] = "running"
         /\ s.armed \subseteq Sleepers(s)
         /\ \A q \in Queue : Range(s.wait[q]) \subseteq Sleepers(s)
  <1>1. ListsInv(s, {}) /\ OneRunning(s) /\ s \in KernelType
    BY InvSplit DEF Sound, ListsInv
  <1>2. s.cur \notin Sleepers(s) => s.stat[s.cur] = "running"
    BY <1>1, TypeFields DEF OneRunning, Sleepers, Sound, Control
  <1>3. s.armed \subseteq Sleepers(s) /\ \A q \in Queue : Range(s.wait[q]) \subseteq Sleepers(s)
    BY <1>1, Members DEF Sleepers
  <1>. QED  BY <1>1, <1>2, <1>3, TypeFields, KernelAssumption

(***************************************************************************)
(* What a waiter can tell of two kernel states: they have the same         *)
(* suspended threads, lists, timers, error numbers and priorities.         *)
(***************************************************************************)
SameWaits(s, n) ==
  /\ Sleepers(n) = Sleepers(s)
  /\ n.wait = s.wait /\ n.armed = s.armed /\ n.err = s.err /\ n.prio = s.prio

(***************************************************************************)
(* rt_schedule, called from anywhere, keeps the kernel state sound and     *)
(* changes nothing a waiter can tell; a suspended caller loses the         *)
(* processor.                                                              *)
(***************************************************************************)
LEMMA ScheduleSound ==
  ASSUME NEW s, NEW at, Sound(s, at), NEW n, n = Schedule(s)
  PROVE  /\ Sound(n, at) /\ SameWaits(s, n)
         /\ s.cur \in Sleepers(s) => n.cur # s.cur
         /\ n.cur \notin Sleepers(n)
  <1>1. /\ s \in KernelType /\ ListsInv(s, {}) /\ OneRunning(s) /\ s.cur \in Thread
        /\ s.stat \in [Thread -> Stat] /\ Idle \in Thread
        /\ s.cur \notin Sleepers(s) => s.stat[s.cur] = "running"
    BY SoundFacts
  <1>2. Scheduled(s, {}, n)
    BY ScheduleInv DEF Sound
  <1>3. s.lock = 0
    BY DEF Sound, Control
  <1>4. s.cur \in Sleepers(s) => s.group # {}
    <2>1. ASSUME s.cur \in Sleepers(s) PROVE s.group # {}
      <3>1. Idle \notin Sleepers(s)
        BY DEF Sound, Control
      <3>2. s.stat[Idle] = "ready"
        BY <1>1, <2>1, <3>1 DEF Sound, Control, Sleepers, OneRunning
      <3>3. s.prio[Idle] \in Prio
        BY <1>1, TypeFields
      <3>4. Idle \in Range(s.ready[s.prio[Idle]])
        BY <1>1, <3>2, <3>3, Members
      <3>. QED  BY <1>1, <3>3, <3>4, Members
    <2>. QED  BY <2>1
  <1>5. /\ n.lock = s.lock /\ n.wait = s.wait /\ n.armed = s.armed /\ n.err = s.err
        /\ n.prio = s.prio /\ KernelInv(n, {})
    BY <1>2 DEF Scheduled
  <1>6. CASE s.cur \notin Sleepers(s) /\ n.cur = s.cur /\ n.stat = s.stat
    BY <1>5, <1>6 DEF Sound, Control, SameWaits, Sleepers
  <1>7. CASE n.cur # s.cur /\ s.stat[n.cur] = "ready" /\ n.stat = Switched(s, n)
    <2>1. \A t \in Thread : n.stat[t] =
             IF t = n.cur THEN "running"
             ELSE IF t = s.cur /\ s.stat[t] = "running" THEN "ready" ELSE s.stat[t]
      BY <1>7 DEF Switched
    <2>2. \A t \in Thread : t \in Sleepers(n) <=> t \in Sleepers(s)
      BY <2>1, <1>7 DEF Sleepers
    <2>3. Sleepers(n) = Sleepers(s)
      BY <2>2 DEF Sleepers
    <2>4. n.cur \notin Sleepers(n)
      BY <2>3, <1>7 DEF Sleepers
    <2>5. \A t \in Thread : n.stat[t] \in {"ready", "running", "suspend"}
      BY <2>1 DEF Sound, Control
    <2>6. Control(n, at)
      BY <2>3, <2>4, <2>5, <1>5 DEF Sound, Control
    <2>. QED  BY <2>3, <2>4, <2>6, <1>5, <1>7 DEF Sound, SameWaits
  <1>8. s.cur \notin Sleepers(s) => n.cur \in Thread
    BY <1>1, <1>5, TypeFields DEF KernelInv
  <1>. QED
    <2>1. \/ n = s /\ s.group = {}
          \/ n.cur = s.cur /\ n.stat = s.stat /\ s.stat[s.cur] = "running"
          \/ n.cur # s.cur /\ s.stat[n.cur] = "ready" /\ n.stat = Switched(s, n)
      BY <1>2, <1>3 DEF Scheduled
    <2>2. s.stat[s.cur] = "running" => s.cur \notin Sleepers(s)
      BY DEF Sleepers
    <2>. QED  BY <2>1, <2>2, <1>4, <1>6, <1>7

(* at with thread t moved to the point p *)
Moved(at, t, p) == [at EXCEPT ![t] = p]

(***************************************************************************)
(* Control at another point: it is lost only when a suspended thread goes  *)
(* where none may be, or the current one past its rt_schedule.             *)
(***************************************************************************)
LEMMA MoveSound ==
  ASSUME NEW s, NEW at, Sound(s, at), NEW t \in Thread, t # Idle, DOMAIN at = Thread,
         NEW p,
         t \in Sleepers(s) => p \in {"block", "woken", "nap", "slept"},
         t \in Sleepers(s) /\ t = s.cur => p \in {"block", "nap"}
  PROVE  Sound(s, Moved(at, t, p))
  <1>1. s.cur \in Thread /\ Idle \in Thread
    BY SoundFacts
  <1>2. PICK to : to = Moved(at, t, p)
    OBVIOUS
  <1>3. \A x \in Thread : to[x] = IF x = t THEN p ELSE at[x]
    BY <1>2 DEF Moved
  <1>4. Sleepers(s) \subseteq Thread
    BY DEF Sleepers
  <1>5. Control(s, to)
    BY <1>1, <1>3, <1>4 DEF Sound, Control
  <1>. QED  BY <1>2, <1>5 DEF Sound

(* n is s after t, suspended in s, has become runnable *)
Awake(s, t, n) ==
  /\ Sleepers(n) = Sleepers(s) \ {t}
  /\ n.wait = WaitsWithout(s, t) /\ n.armed = s.armed \ {t} /\ n.prio = s.prio

(***************************************************************************)
(* A suspended thread that becomes runnable leaves the list it waits in,   *)
(* and loses its timer; nothing a waiter can tell of the others changes.   *)
(***************************************************************************)
LEMMA WokenSound ==
  ASSUME NEW s, NEW at, Sound(s, at), NEW t \in Sleepers(s),
         NEW n, KernelInv(n, {}), Woken(s, t, n)
  PROVE  Sound(n, at) /\ Awake(s, t, n) /\ n.cur = s.cur
  <1>1. s.cur \in Thread /\ s.stat \in [Thread -> Stat] /\ t \in Thread
    BY SoundFacts DEF Sleepers
  <1>2. /\ n.lock = s.lock /\ n.cur = s.cur /\ n.armed = s.armed \ {t} /\ n.prio = s.prio
        /\ n.wait = WaitsWithout(s, t)
        /\ n.stat = [s.stat EXCEPT ![t] = IF t = s.cur THEN "running" ELSE "ready"]
    BY DEF Woken
  <1>3. \A x \in Thread : n.stat[x] =
           IF x = t THEN (IF t = s.cur THEN "running" ELSE "ready") ELSE s.stat[x]
    BY <1>1, <1>2
  <1>4. Sleepers(n) = Sleepers(s) \ {t}
    BY <1>3 DEF Sleepers
  <1>5. \A x \in Thread : n.stat[x] \in {"ready", "running", "suspend"}
    BY <1>3 DEF Sound, Control
  <1>6. Control(n, at)
    BY <1>2, <1>4, <1>5 DEF Sound, Control
  <1>. QED  BY <1>2, <1>4, <1>6 DEF Sound, Awake

(***************************************************************************)
(* rt_thread_resume of a suspended thread.                                 *)
(***************************************************************************)
LEMMA ResumeSound ==
  ASSUME NEW s, NEW at, Sound(s, at), NEW t \in Sleepers(s), NEW n, n = Resume(s, t)
  PROVE  Sound(n, at) /\ Awake(s, t, n) /\ n.err = s.err /\ n.cur = s.cur
  <1>1. t \in Thread /\ s.stat[t] = "suspend"
    BY DEF Sleepers
  <1>2. KernelInv(n, {}) /\ Woken(s, t, n) /\ n.err = s.err
    BY <1>1, ResumeInv DEF Sound
  <1>. QED  BY <1>2, WokenSound

(***************************************************************************)
(* _thread_timeout of a thread whose timer runs; its rt_schedule leaves    *)
(* what a waiter can tell alone.                                           *)
(***************************************************************************)
LEMMA TimeoutSound ==
  ASSUME NEW s, NEW at, Sound(s, at), NEW t \in s.armed, NEW n, n = Timeout(s, t)
  PROVE  /\ Sound(n, at) /\ Awake(s, t, n)
         /\ n.err = [s.err EXCEPT ![t] = "timeout"]
  <1>1. t \in Sleepers(s)
    BY SoundFacts
  <1>2. PICK j : /\ KernelInv(j, {}) /\ Woken(s, t, j)
                 /\ j.err = [s.err EXCEPT ![t] = "timeout"]
                 /\ Timeout(s, t) = Schedule(j)
    BY TimeoutInv DEF Sound
  <1>3. Sound(j, at) /\ Awake(s, t, j)
    BY <1>1, <1>2, WokenSound
  <1>4. Sound(n, at) /\ SameWaits(j, n)
    BY <1>2, <1>3, ScheduleSound
  <1>. QED  BY <1>2, <1>3, <1>4 DEF SameWaits, Awake

-----------------------------------------------------------------------------
(* Blocking *)

(* s with the error number of t set to e *)
ErrSet(s, t, e) == [s EXCEPT !.err[t] = e]

(* s with the suspend list q replaced by l *)
Relinked(s, q, l) == [s EXCEPT !.wait[q] = l]

(***************************************************************************)
(* thread->error may be written at any time.                               *)
(***************************************************************************)
LEMMA ErrSound ==
  ASSUME NEW s, NEW at, Sound(s, at), NEW t \in Thread, NEW e \in Err,
         NEW n, n = ErrSet(s, t, e)
  PROVE  /\ Sound(n, at)
         /\ n.stat = s.stat /\ n.wait = s.wait /\ n.armed = s.armed /\ n.prio = s.prio
         /\ n.cur = s.cur /\ Sleepers(n) = Sleepers(s)
         /\ n.err = [s.err EXCEPT ![t] = e]
  <1>1. s \in KernelType /\ ListsInv(s, {}) /\ OneRunning(s) /\ s.err \in [Thread -> Err]
    BY SoundFacts
  <1>2. [s.err EXCEPT ![t] = e] \in [Thread -> Err]
    BY <1>1
  <1>3. /\ n \in KernelType /\ n.err = [s.err EXCEPT ![t] = e]
        /\ n.stat = s.stat /\ n.prio = s.prio /\ n.ready = s.ready /\ n.group = s.group
        /\ n.cur = s.cur /\ n.lock = s.lock /\ n.wait = s.wait /\ n.armed = s.armed
        /\ n.defunct = s.defunct
    BY <1>1, <1>2 DEF KernelType, ErrSet
  <1>4. ListsInv(n, {}) /\ OneRunning(n)
    BY <1>1, <1>3, OtherFields DEF OneRunning
  <1>5. Sleepers(n) = Sleepers(s)
    BY <1>3 DEF Sleepers
  <1>6. Control(n, at)
    BY <1>3, <1>5 DEF Sound, Control
  <1>. QED  BY <1>3, <1>4, <1>5, <1>6, InvSplit DEF Sound

(* n is s after the current thread t has suspended itself *)
FallsAsleep(s, t, n) ==
  /\ Sleepers(n) = Sleepers(s) \cup {t}
  /\ n.err = [s.err EXCEPT ![t] = "ok"]
  /\ n.prio = s.prio /\ n.cur = s.cur

(***************************************************************************)
(* A running thread clears thread->error and suspends itself.              *)
(***************************************************************************)
LEMMA SuspendSound ==
  ASSUME NEW s, NEW at, Sound(s, at), DOMAIN at = Thread,
         NEW t, t = s.cur, t # Idle, t \notin Sleepers(s), NEW p \in {"block", "nap"},
         NEW n, n = Suspend(ErrSet(s, t, "ok"), t)
  PROVE  /\ Sound(n, Moved(at, t, p)) /\ FallsAsleep(s, t, n)
         /\ n.wait = s.wait /\ n.armed = s.armed
  <1>1. t \in Thread /\ s.stat[t] = "running" /\ Idle \in Thread /\ s.stat \in [Thread -> Stat]
    BY SoundFacts
  <1>2. PICK z : z = ErrSet(s, t, "ok")
    OBVIOUS
  <1>3. /\ Sound(z, at)
        /\ z.stat = s.stat /\ z.wait = s.wait /\ z.armed = s.armed /\ z.prio = s.prio
        /\ z.cur = s.cur /\ z.err = [s.err EXCEPT ![t] = "ok"]
    <2>1. "ok" \in Err
      BY DEF Err
    <2>. QED  BY <2>1, <1>1, <1>2, ErrSound
  <1>4. /\ KernelInv(n, {}) /\ n.stat = [z.stat EXCEPT ![t] = "suspend"]
        /\ n.prio = z.prio /\ n.cur = z.cur /\ n.lock = z.lock /\ n.armed = z.armed
        /\ n.err = z.err /\ n.wait = z.wait
    <2>1. KernelInv(z, {}) /\ z.cur = t /\ z.stat[z.cur] = "running" /\ n = Suspend(z, z.cur)
      BY <1>1, <1>2, <1>3 DEF Sound
    <2>. QED  BY <2>1, SuspendInv
  <1>5. \A x \in Thread : n.stat[x] = IF x = t THEN "suspend" ELSE s.stat[x]
    BY <1>1, <1>3, <1>4
  <1>6. Sleepers(n) = Sleepers(s) \cup {t}
    BY <1>1, <1>5 DEF Sleepers
  <1>7. PICK to : to = Moved(at, t, p)
    OBVIOUS
  <1>8. \A x \in Thread : to[x] = IF x = t THEN p ELSE at[x]
    BY <1>7 DEF Moved
  <1>9. Control(n, to)
    <2>1. n.lock = 0 /\ n.cur = t /\ to[Idle] = "run" /\ to[t] = p
      BY <1>1, <1>3, <1>4, <1>8 DEF Sound, Control
    <2>2. \A x \in Thread : n.stat[x] \in {"ready", "running", "suspend"}
      BY <1>5 DEF Sound, Control
    <2>3. \A x \in Sleepers(n) : to[x] \in {"block", "woken", "nap", "slept"}
      <3>1. \A x \in Sleepers(s) : x \in Thread /\ at[x] \in {"block", "woken", "nap", "slept"}
        BY DEF Sound, Control, Sleepers
      <3>. QED  BY <3>1, <1>6, <1>8, <2>1
    <2>. QED  BY <2>1, <2>2, <2>3 DEF Control
  <1>10. FallsAsleep(s, t, n)
    BY <1>3, <1>4, <1>6 DEF FallsAsleep
  <1>. QED  BY <1>3, <1>4, <1>7, <1>9, <1>10 DEF Sound

(***************************************************************************)
(* The timer of a suspended thread is started.                             *)
(***************************************************************************)
LEMMA StartTimerSound ==
  ASSUME NEW s, NEW at, Sound(s, at), NEW t \in Sleepers(s), NEW n, n = StartTimer(s, t)
  PROVE  /\ Sound(n, at)
         /\ Sleepers(n) = Sleepers(s) /\ n.armed = s.armed \cup {t}
         /\ n.wait = s.wait /\ n.err = s.err /\ n.prio = s.prio /\ n.cur = s.cur
  <1>1. s \in KernelType /\ t \in Thread /\ s.stat[t] = "suspend"
    BY SoundFacts DEF Sleepers
  <1>2. KernelInv(n, {})
    BY <1>1, StartTimerInv DEF Sound
  <1>3. /\ n.stat = s.stat /\ n.lock = s.lock /\ n.armed = s.armed \cup {t}
        /\ n.wait = s.wait /\ n.err = s.err /\ n.prio = s.prio /\ n.cur = s.cur
    BY <1>1 DEF StartTimer, KernelType
  <1>4. Sleepers(n) = Sleepers(s)
    BY <1>3 DEF Sleepers
  <1>5. Control(n, at)
    BY <1>3, <1>4 DEF Sound, Control
  <1>. QED  BY <1>2, <1>3, <1>4, <1>5 DEF Sound

(***************************************************************************)
(* A suspended thread that stands in no suspend list is linked into one.   *)
(***************************************************************************)
LEMMA LinkSound ==
  ASSUME NEW s, NEW at, Sound(s, at), NEW t \in Sleepers(s), NEW q \in Queue,
         \A r \in Queue : t \notin Range(s.wait[r]),
         NEW l \in Seq(Thread), IsInjective(l), Range(l) = Range(s.wait[q]) \cup {t},
         NEW n, n = Relinked(s, q, l)
  PROVE  /\ Sound(n, at)
         /\ Sleepers(n) = Sleepers(s) /\ n.wait = [s.wait EXCEPT ![q] = l]
         /\ n.armed = s.armed /\ n.err = s.err /\ n.prio = s.prio /\ n.cur = s.cur
  <1>1. /\ s \in KernelType /\ ListsInv(s, {}) /\ OneRunning(s)
        /\ s.wait \in [Queue -> Seq(Thread)] /\ t \in Thread /\ s.stat[t] = "suspend"
    BY SoundFacts DEF Sleepers
  <1>2. [s.wait EXCEPT ![q] = l] \in [Queue -> Seq(Thread)]
    BY <1>1
  <1>3. /\ n \in KernelType /\ n.wait = [s.wait EXCEPT ![q] = l]
        /\ n.stat = s.stat /\ n.prio = s.prio /\ n.ready = s.ready /\ n.group = s.group
        /\ n.cur = s.cur /\ n.lock = s.lock /\ n.err = s.err /\ n.armed = s.armed
        /\ n.defunct = s.defunct
    BY <1>1, <1>2 DEF KernelType, Relinked
  <1>4. \A r \in Queue : n.wait[r] = IF r = q THEN l ELSE s.wait[r]
    BY <1>1, <1>3
  <1>5. WaitListsExact(n, {})
    <2>1. ASSUME NEW r \in Queue PROVE IsInjective(n.wait[r])
      BY <1>1, <1>4, Members DEF ListsInjective
    <2>2. ASSUME NEW r \in Queue, NEW x \in Range(n.wait[r])
          PROVE  n.stat[x] = "suspend" /\ x \notin {}
      BY <1>1, <1>3, <1>4, Members
    <2>3. ASSUME NEW r \in Queue, NEW o \in Queue, r # o
          PROVE  Range(n.wait[r]) \cap Range(n.wait[o]) = {}
      <3>1. Range(s.wait[r]) \cap Range(s.wait[o]) = {}
        BY <1>1, <2>3, Members
      <3>. QED  BY <3>1, <1>4, <2>3
    <2>. QED  BY <2>1, <2>2, <2>3 DEF WaitListsExact
  <1>6. KernelInv(n, {})
    <2>1. ReadyListsExact(n, {}) /\ GroupExact(n)
      <3>1. ReadyListsExact(s, {}) /\ GroupExact(s)
        BY <1>1 DEF ListsInv
      <3>2. ReadyListsExact(n, {})
        BY <3>1, <1>3 DEF ReadyListsExact
      <3>3. GroupExact(n)
        BY <3>1, <1>3 DEF GroupExact
      <3>. QED  BY <3>2, <3>3
    <2>2. OneRunning(n)
      BY <1>1, <1>3 DEF OneRunning
    <2>3. ArmedSuspended(n, {}) /\ DefunctClosed(n)
      BY <1>1, <1>3 DEF ListsInv, ArmedSuspended, DefunctClosed
    <2>. QED  BY <2>1, <2>2, <2>3, <1>3, <1>5 DEF KernelInv
  <1>7. Sleepers(n) = Sleepers(s)
    BY <1>3 DEF Sleepers
  <1>8. Control(n, at)
    BY <1>3, <1>7 DEF Sound, Control
  <1>. QED  BY <1>3, <1>6, <1>7, <1>8 DEF Sound

(* the list l of a suspend list once t has been linked into it *)
Joined(l, prio, t, flag) ==
  IF flag = "fifo" THEN InsertedBefore(l, t) ELSE InsertedByKey(l, prio, t)

(***************************************************************************)
(* Linking a thread into a suspend list adds it once, whatever the order   *)
(* of the list is.                                                         *)
(***************************************************************************)
LEMMA JoinedFacts ==
  ASSUME NEW l \in Seq(Thread), IsInjective(l), NEW t \in Thread, t \notin Range(l),
         NEW prio, NEW flag
  PROVE  /\ Joined(l, prio, t, flag) \in Seq(Thread)
         /\ IsInjective(Joined(l, prio, t, flag))
         /\ Range(Joined(l, prio, t, flag)) = Range(l) \cup {t}
  <1>1. CASE flag = "fifo"
    BY <1>1, InsertedFacts DEF Joined
  <1>2. CASE flag # "fifo"
    BY <1>2, InsertedByKeyFacts DEF Joined
  <1>. QED  BY <1>1, <1>2

(* t clears thread->error, suspends itself and links itself into list q,
   which becomes l *)
Entered(s, q, t, l) == Relinked(Suspend(ErrSet(s, t, "ok"), t), q, l)

EnterList(s, q, t, l, timeout) ==
  IF timeout = "timed" THEN StartTimer(Entered(s, q, t, l), t) ELSE Entered(s, q, t, l)

(* n is s after that *)
Enters(s, q, t, l, timeout, n) ==
  /\ FallsAsleep(s, t, n)
  /\ n.wait = [s.wait EXCEPT ![q] = l]
  /\ n.armed = IF timeout = "timed" THEN s.armed \cup {t} ELSE s.armed

(***************************************************************************)
(* The waiting branch of a function that blocks, wherever in the list the  *)
(* thread is linked.                                                       *)
(***************************************************************************)
LEMMA EnterSound ==
  ASSUME NEW s, NEW at, Sound(s, at), DOMAIN at = Thread,
         NEW t, t = s.cur, t # Idle, t \notin Sleepers(s), NEW q \in Queue,
         NEW l \in Seq(Thread), IsInjective(l), Range(l) = Range(s.wait[q]) \cup {t},
         NEW timeout, NEW n, n = EnterList(s, q, t, l, timeout)
  PROVE  Sound(n, Moved(at, t, "block")) /\ Enters(s, q, t, l, timeout, n)
  <1>1. PICK u : u = Suspend(ErrSet(s, t, "ok"), t)
    OBVIOUS
  <1>2. PICK to : to = Moved(at, t, "block")
    OBVIOUS
  <1> DEFINE w == Relinked(u, q, l)
  <1>3. n = IF timeout = "timed" THEN StartTimer(w, t) ELSE w
    BY <1>1 DEF EnterList, Entered
  <1>4. /\ Sound(u, to) /\ FallsAsleep(s, t, u)
        /\ u.wait = s.wait /\ u.armed = s.armed
    <2>1. "block" \in {"block", "nap"}
      OBVIOUS
    <2>. QED  BY <2>1, <1>1, <1>2, SuspendSound
  <1>5. t \in Sleepers(u)
    BY <1>4 DEF FallsAsleep
  <1>6. /\ Sound(w, to)
        /\ Sleepers(w) = Sleepers(u) /\ w.wait = [u.wait EXCEPT ![q] = l]
        /\ w.armed = u.armed /\ w.err = u.err /\ w.prio = u.prio /\ w.cur = u.cur
    <2>1. \A r \in Queue : t \notin Range(u.wait[r])
      BY <1>4, SoundFacts
    <2>2. Range(l) = Range(u.wait[q]) \cup {t}
      BY <1>4
    <2>. QED  BY <2>1, <2>2, <1>4, <1>5, LinkSound
  <1> HIDE DEF w
  <1>7. CASE timeout = "timed"
    <2>1. /\ Sound(n, to) /\ Sleepers(n) = Sleepers(w) /\ n.armed = w.armed \cup {t}
          /\ n.wait = w.wait /\ n.err = w.err /\ n.prio = w.prio /\ n.cur = w.cur
      BY <1>5, <1>6, <1>7, <1>3, StartTimerSound
    <2>. QED  BY <2>1, <1>2, <1>4, <1>6, <1>7 DEF Enters, FallsAsleep
  <1>8. CASE timeout # "timed"
    BY <1>2, <1>4, <1>6, <1>8, <1>3 DEF Enters, FallsAsleep
  <1>. QED  BY <1>7, <1>8

(* n is s after t has blocked on list q *)
BlocksOn(s, q, t, flag, timeout, n) ==
  /\ FallsAsleep(s, t, n)
  /\ n.wait = [s.wait EXCEPT ![q] = Joined(s.wait[q], s.prio, t, flag)]
  /\ n.armed = IF timeout = "timed" THEN s.armed \cup {t} ELSE s.armed

(***************************************************************************)
(* The waiting branch of a function that calls _ipc_list_suspend.          *)
(***************************************************************************)
LEMMA WaitOnSound ==
  ASSUME NEW s, NEW at, Sound(s, at), DOMAIN at = Thread,
         NEW t, t = s.cur, t # Idle, t \notin Sleepers(s), NEW q \in Queue,
         NEW flag, NEW timeout, NEW n, n = WaitOn(s, q, t, flag, timeout)
  PROVE  Sound(n, Moved(at, t, "block")) /\ BlocksOn(s, q, t, flag, timeout, n)
  <1>1. /\ t \in Thread /\ s \in KernelType /\ s.wait \in [Queue -> Seq(Thread)]
        /\ s.prio \in [Thread -> Prio]
    BY SoundFacts
  <1>2. PICK z : z = ErrSet(s, t, "ok")
    OBVIOUS
  <1>3. PICK u : u = Suspend(z, t)
    OBVIOUS
  <1>4. PICK l : l = Joined(s.wait[q], s.prio, t, flag)
    OBVIOUS
  <1>5. l \in Seq(Thread) /\ IsInjective(l) /\ Range(l) = Range(s.wait[q]) \cup {t}
    <2>1. s.wait[q] \in Seq(Thread) /\ t \notin Range(s.wait[q])
      BY <1>1, SoundFacts
    <2>2. IsInjective(s.wait[q])
      BY SoundFacts, Members DEF ListsInjective
    <2>. QED  BY <2>1, <2>2, <1>1, <1>4, JoinedFacts
  <1>6. PICK w : w = Relinked(u, q, l)
    OBVIOUS
  <1>7. n = IF timeout = "timed" THEN StartTimer(w, t) ELSE w
    <2>1. u.wait[q] = s.wait[q]
      <3>1. "block" \in {"block", "nap"} /\ u = Suspend(ErrSet(s, t, "ok"), t)
        BY <1>2, <1>3
      <3>2. u.wait = s.wait
        BY <3>1, SuspendSound
      <3>. QED  BY <3>2
    <2>2. z.prio = s.prio
      BY <1>1, <1>2 DEF KernelType, ErrSet
    <2>3. l = IF flag = "fifo" THEN InsertedBefore(u.wait[q], t)
              ELSE InsertedByKey(u.wait[q], z.prio, t)
      BY <2>1, <2>2, <1>4 DEF Joined
    <2>4. [Suspend(z, t) EXCEPT !.wait[q] = IF flag = "fifo" THEN InsertedBefore(@, t)
                                            ELSE InsertedByKey(@, z.prio, t)] = w
      BY <2>3, <1>3, <1>6 DEF Relinked
    <2>. QED  BY <2>4, <1>2 DEF WaitOn, SuspendOn, ErrSet
  <1>8. Sound(n, Moved(at, t, "block")) /\ Enters(s, q, t, l, timeout, n)
    <2>1. n = EnterList(s, q, t, l, timeout)
      BY <1>2, <1>3, <1>6, <1>7 DEF EnterList, Entered
    <2>. QED  BY <2>1, <1>5, EnterSound
  <1>. QED  BY <1>4, <1>8 DEF Enters, BlocksOn

-----------------------------------------------------------------------------
(* Waking with an error *)

(***************************************************************************)
(* One round of _ipc_list_resume_all on a suspended thread.                *)
(***************************************************************************)
LEMMA ResumeFailedSound ==
  ASSUME NEW s, NEW at, Sound(s, at), NEW t \in Sleepers(s), NEW n, n = ResumeFailed(s, t)
  PROVE  /\ Sound(n, at) /\ Awake(s, t, n)
         /\ n.err = [s.err EXCEPT ![t] = "error"] /\ n.cur = s.cur
  <1>1. t \in Thread /\ "error" \in Err
    BY DEF Sleepers, Err
  <1>2. PICK z : z = ErrSet(s, t, "error")
    OBVIOUS
  <1>3. /\ Sound(z, at) /\ z.wait = s.wait /\ z.armed = s.armed /\ z.prio = s.prio
        /\ z.cur = s.cur /\ Sleepers(z) = Sleepers(s)
        /\ z.err = [s.err EXCEPT ![t] = "error"]
    BY <1>1, <1>2, ErrSound
  <1>4. n = Resume(z, t)
    BY <1>2 DEF ResumeFailed, ErrSet
  <1>5. Sound(n, at) /\ Awake(z, t, n) /\ n.err = z.err /\ n.cur = z.cur
    BY <1>3, <1>4, ResumeSound
  <1>. QED  BY <1>3, <1>5 DEF Awake, WaitsWithout

(* after[n] is the kernel state once the first n threads of w are awake *)
Rounds(s, w, m, after) ==
  after = [n \in 0 .. m |-> IF n = 0 THEN s ELSE ResumeFailed(after[n - 1], w[n])]

(***************************************************************************)
(* The loop of _ipc_list_resume_all has a state after each of its rounds.  *)
(***************************************************************************)
LEMMA RoundsExist ==
  ASSUME NEW s, NEW w, NEW len \in Nat
  PROVE  \E after : Rounds(s, w, len, after)
  <1> DEFINE Bad == {m \in Nat : ~ \E after : Rounds(s, w, m, after)}
  <1> SUFFICES ASSUME Bad # {} PROVE FALSE
    OBVIOUS
  <1>1. PICK m \in Bad : \A y \in Bad : m <= y
    <2>1. Bad \subseteq Nat
      OBVIOUS
    <2>. QED  BY <2>1, MinInSet
  <1>2. m \in Nat
    OBVIOUS
  <1>3. CASE m = 0
    <2>1. PICK f : f = [n \in 0 .. 0 |-> s]
      OBVIOUS
    <2>2. f = [n \in 0 .. 0 |-> IF n = 0 THEN s ELSE ResumeFailed(f[n - 1], w[n])]
      BY <2>1
    <2>3. Rounds(s, w, m, f)
      BY <2>2, <1>3 DEF Rounds
    <2>. QED  BY <2>3
  <1>4. CASE m # 0
    <2>1. m - 1 \in Nat /\ ~ (m <= m - 1)
      BY <1>2, <1>4
    <2>2. m - 1 \notin Bad
      BY <2>1, <1>1
    <2>3. PICK g : Rounds(s, w, m - 1, g)
      BY <2>1, <2>2
    <2> HIDE DEF Bad
    <2>4. /\ \A n \in 0 .. m - 1 : g[n] = IF n = 0 THEN s ELSE ResumeFailed(g[n - 1], w[n])
      BY <2>3 DEF Rounds
    <2>5. PICK f : f = [n \in 0 .. m |-> IF n = m THEN ResumeFailed(g[m - 1], w[m]) ELSE g[n]]
      OBVIOUS
    <2>6. ASSUME NEW n \in 0 .. m
          PROVE  f[n] = IF n = 0 THEN s ELSE ResumeFailed(f[n - 1], w[n])
      <3>1. CASE n = 0
        BY <3>1, <2>4, <2>5, <1>2, <1>4
      <3>2. CASE n # 0 /\ n # m
        <4>1. n \in 0 .. m - 1 /\ n - 1 \in 0 .. m /\ n - 1 # m
          BY <3>2, <1>2
        <4>2. f[n] = g[n] /\ f[n - 1] = g[n - 1]
          BY <4>1, <3>2, <2>5
        <4>. QED  BY <4>1, <4>2, <3>2, <2>4
      <3>3. CASE n # 0 /\ n = m
        <4>1. n - 1 \in 0 .. m /\ n - 1 # m
          BY <3>3, <1>2
        <4>2. f[n] = ResumeFailed(g[n - 1], w[n]) /\ f[n - 1] = g[n - 1]
          BY <4>1, <3>3, <2>5
        <4>. QED  BY <4>2, <3>3
      <3>. QED  BY <3>1, <3>2, <3>3
    <2>7. f = [n \in 0 .. m |-> IF n = 0 THEN s ELSE ResumeFailed(f[n - 1], w[n])]
      BY <2>5, <2>6
    <2>8. Rounds(s, w, m, f)
      BY <2>7 DEF Rounds
    <2>. QED  BY <2>8 DEF Bad
  <1>. QED  BY <1>3, <1>4

(* n is s after the threads of the set gone, taken from list q, have been
   woken with an error *)
Failed(s, q, gone, n) ==
  /\ Sleepers(n) = Sleepers(s) \ gone
  /\ n.armed = s.armed \ gone /\ n.prio = s.prio /\ n.cur = s.cur
  /\ n.err = [t \in Thread |-> IF t \in gone THEN "error" ELSE s.err[t]]
  /\ DOMAIN n.wait = Queue
  /\ Range(n.wait[q]) = Range(s.wait[q]) \ gone
  /\ \A r \in Queue \ {q} : n.wait[r] = s.wait[r]

(***************************************************************************)
(* A further round of _ipc_list_resume_all wakes one thread more.          *)
(***************************************************************************)
LEMMA FailedStep ==
  ASSUME NEW s, NEW at, NEW q \in Queue, NEW gone, NEW n,
         Sound(n, at), Failed(s, q, gone, n),
         NEW t \in Range(s.wait[q]) \ gone, NEW m, m = ResumeFailed(n, t)
  PROVE  Sound(m, at) /\ Failed(s, q, gone \cup {t}, m)
  <1>1. /\ n.wait \in [Queue -> Seq(Thread)] /\ n.err \in [Thread -> Err]
        /\ ListsInv(n, {})
        /\ t \in Range(n.wait[q]) /\ t \in Sleepers(n) /\ t \in Thread
    BY SoundFacts DEF Failed, Sleepers
  <1>2. /\ Sound(m, at) /\ Awake(n, t, m)
        /\ m.err = [n.err EXCEPT ![t] = "error"] /\ m.cur = n.cur
    BY <1>1, ResumeFailedSound
  <1>3. \A r \in Queue : m.wait[r] = Unlinked(n.wait[r], t)
    BY <1>2 DEF Awake, WaitsWithout
  <1>4. \A r \in Queue \ {q} : m.wait[r] = s.wait[r]
    <2>1. ASSUME NEW r \in Queue \ {q} PROVE m.wait[r] = s.wait[r]
      <3>1. t \notin Range(n.wait[r])
        BY <1>1, Members
      <3>2. Unlinked(n.wait[r], t) = n.wait[r]
        BY <3>1 DEF Unlinked
      <3>. QED  BY <3>2, <1>3 DEF Failed
    <2>. QED  BY <2>1
  <1>5. Range(m.wait[q]) = Range(s.wait[q]) \ (gone \cup {t})
    <2>1. IsInjective(n.wait[q])
      BY <1>1, Members DEF ListsInjective
    <2>2. Range(Unlinked(n.wait[q], t)) = Range(n.wait[q]) \ {t}
      BY <2>1, <1>1, UnlinkedFacts
    <2>. QED  BY <2>2, <1>3 DEF Failed
  <1>6. m.err = [x \in Thread |-> IF x \in gone \cup {t} THEN "error" ELSE s.err[x]]
    <2>1. n.err = [x \in Thread |-> IF x \in gone THEN "error" ELSE s.err[x]]
      BY DEF Failed
    <2>. QED  BY <2>1, <1>1, <1>2
  <1>7. DOMAIN m.wait = Queue
    BY <1>2 DEF Awake, WaitsWithout
  <1>. QED  BY <1>2, <1>4, <1>5, <1>6, <1>7 DEF Failed, Awake

(***************************************************************************)
(* After n rounds the first n threads of the list are awake.               *)
(***************************************************************************)
LEMMA RoundsSound ==
  ASSUME NEW s, NEW at, Sound(s, at), NEW q \in Queue,
         NEW w, w = s.wait[q], NEW after, Rounds(s, w, Len(w), after),
         NEW last, last = after[Len(w)]
  PROVE  Sound(last, at) /\ Failed(s, q, Range(w), last)
  <1> DEFINE gone(m) == {w[j] : j \in 1 .. m}
             Good(m) == Sound(after[m], at) /\ Failed(s, q, gone(m), after[m])
             Bad == {m \in 0 .. Len(w) : ~ Good(m)}
  <1>1. w \in Seq(Thread) /\ IsInjective(w) /\ s.wait \in [Queue -> Seq(Thread)]
        /\ s.err \in [Thread -> Err]
    BY SoundFacts, Members DEF ListsInjective
  <1>2. Len(w) \in Nat /\ DOMAIN w = 1 .. Len(w)
    BY <1>1, LenProperties
  <1>3. \A m \in 0 .. Len(w) : after[m] = IF m = 0 THEN s ELSE ResumeFailed(after[m - 1], w[m])
    BY <1>2 DEF Rounds
  <1>4. Bad = {}
    <2> SUFFICES ASSUME Bad # {} PROVE FALSE
      OBVIOUS
    <2>1. PICK m \in Bad : \A y \in Bad : m <= y
      <3>1. Bad \subseteq Nat
        BY <1>2
      <3>. QED  BY <3>1, MinInSet
    <2>2. m \in 0 .. Len(w) /\ ~ Good(m)
      OBVIOUS
    <2>3. CASE m = 0
      <3>1. after[0] = s
        BY <1>2, <1>3
      <3>2. gone(0) = {}
        OBVIOUS
      <3>3. s.err = [t \in Thread |-> IF t \in {} THEN "error" ELSE s.err[t]]
        BY <1>1
      <3>4. Failed(s, q, {}, s)
        BY <3>3, <1>1 DEF Failed
      <3>. QED  BY <3>1, <3>2, <3>4, <2>2, <2>3
    <2>4. CASE m # 0
      <3>1. m - 1 \in 0 .. Len(w) /\ ~ (m <= m - 1) /\ m \in 1 .. Len(w)
        BY <2>2, <2>4, <1>2
      <3>2. Good(m - 1)
        BY <3>1, <2>1
      <3>3. PICK n : n = after[m - 1]
        OBVIOUS
      <3>4. PICK g : g = gone(m - 1)
        OBVIOUS
      <3>5. Sound(n, at) /\ Failed(s, q, g, n)
        BY <3>2, <3>3, <3>4
      <3>6. w[m] \in Range(w) \ g
        <4>1. \A j \in 1 .. m - 1 : j \in DOMAIN w /\ j # m
          BY <3>1, <1>2
        <4>2. w[m] \notin g
          BY <4>1, <3>1, <3>4, <1>1, <1>2 DEF IsInjective
        <4>. QED  BY <4>2, <3>1, <1>2 DEF Range
      <3>7. after[m] = ResumeFailed(n, w[m])
        BY <3>1, <3>3, <2>4, <1>3
      <3>8. Sound(after[m], at) /\ Failed(s, q, g \cup {w[m]}, after[m])
        BY <3>5, <3>6, <3>7, FailedStep
      <3>9. gone(m) = g \cup {w[m]}
        <4>1. \A j : j \in 1 .. m <=> j \in 1 .. m - 1 \/ j = m
          BY <3>1, <1>2
        <4>. QED  BY <4>1, <3>4
      <3>. QED  BY <3>8, <3>9, <2>2
    <2>. QED  BY <2>3, <2>4
  <1>5. Good(Len(w))
    <2> HIDE DEF Good
    <2>1. Len(w) \in 0 .. Len(w)
      BY <1>2
    <2>. QED  BY <2>1, <1>4
  <1>6. gone(Len(w)) = Range(w)
    BY <1>2 DEF Range
  <1>. QED  BY <1>5, <1>6

(* n is s after all the threads of list q have been woken with an error *)
AllFailed(s, q, n) ==
  /\ Sleepers(n) = Sleepers(s) \ Range(s.wait[q])
  /\ n.armed = s.armed \ Range(s.wait[q]) /\ n.prio = s.prio /\ n.cur = s.cur
  /\ n.err = [t \in Thread |-> IF t \in Range(s.wait[q]) THEN "error" ELSE s.err[t]]
  /\ n.wait = [s.wait EXCEPT ![q] = << >>]

(***************************************************************************)
(* _ipc_list_resume_all wakes every thread of its list with an error, and  *)
(* no other.                                                               *)
(***************************************************************************)
LEMMA ResumeAllSound ==
  ASSUME NEW s, NEW at, Sound(s, at), NEW q \in Queue, NEW n, n = ResumeAll(s, q)
  PROVE  Sound(n, at) /\ AllFailed(s, q, n)
  <1>1. PICK w : w = s.wait[q]
    OBVIOUS
  <1>2. w \in Seq(Thread) /\ Len(w) \in Nat /\ s.wait \in [Queue -> Seq(Thread)]
    BY <1>1, SoundFacts, LenProperties
  <1> DEFINE loop == CHOOSE after : Rounds(s, w, Len(w), after)
  <1>3. Rounds(s, w, Len(w), loop)
    BY <1>2, RoundsExist
  <1>4. n = loop[Len(w)]
    BY <1>1 DEF ResumeAll, Rounds
  <1> HIDE DEF loop
  <1>5. Sound(n, at) /\ Failed(s, q, Range(w), n)
    BY <1>1, <1>3, <1>4, RoundsSound
  <1>6. n.wait = [s.wait EXCEPT ![q] = << >>]
    <2>1. n.wait \in [Queue -> Seq(Thread)]
      BY <1>5, SoundFacts
    <2>2. Range(n.wait[q]) = {}
      BY <1>1, <1>5 DEF Failed
    <2>3. n.wait[q] = << >>
      BY <2>1, <2>2, HeadFacts
    <2>4. \A r \in Queue \ {q} : n.wait[r] = s.wait[r]
      BY <1>5 DEF Failed
    <2>. QED  BY <2>1, <2>3, <2>4, <1>2
  <1>. QED  BY <1>1, <1>5, <1>6 DEF Failed, AllFailed

-----------------------------------------------------------------------------
(* The steps that all the objects share *)

(***************************************************************************)
(* At the start the kernel state is sound, and nobody sleeps or waits.     *)
(***************************************************************************)
LEMMA InitSound ==
  ASSUME IpcInit
  PROVE  /\ Sound(k, pc) /\ Sleepers(k) = {} /\ pc \in [Thread -> {"run"}]
         /\ k.wait = [q \in Queue |-> << >>] /\ k.armed = {} /\ k.prio = InitPrio
         /\ k.err = [t \in Thread |-> "ok"]
  <1> DEFINE stat == [t \in Thread |-> IF t = Main THEN "running" ELSE "ready"]
             group == {p \in Prio : Range(InitReady[p]) # {}}
  <1>1. PICK b : b = Boot(Main)
    OBVIOUS
  <1>2. k = [b EXCEPT !.stat = stat, !.ready = InitReady, !.group = group]
    BY <1>1 DEF IpcInit
  <1>3. Main \in Thread /\ Main # Idle /\ Idle \in Thread
    BY IpcAssumption, KernelAssumption
  <1>4. KernelInv(b, {})
    BY <1>1, <1>3, BootInv
  <1>5. /\ b \in KernelType /\ b.prio = InitPrio /\ b.cur = Main /\ b.lock = 0
        /\ b.wait = [q \in Queue |-> << >>] /\ b.armed = {} /\ b.defunct = << >>
        /\ b.err = [t \in Thread |-> "ok"]
    BY <1>1, <1>4 DEF KernelInv, Boot
  <1>6. stat \in [Thread -> Stat] /\ group \in SUBSET Prio
        /\ InitReady \in [Prio -> Seq(Thread)]
    BY IpcAssumption DEF Stat
  <1>7. \A t \in Thread : stat[t] = IF t = Main THEN "running" ELSE "ready"
    OBVIOUS
  <1>8. \A p \in Prio : p \in group <=> Range(InitReady[p]) # {}
    OBVIOUS
  <1> HIDE DEF stat, group
  <1>9. /\ k \in KernelType /\ k.stat = stat /\ k.ready = InitReady /\ k.group = group
        /\ k.prio = InitPrio /\ k.cur = Main /\ k.lock = 0 /\ k.armed = {}
        /\ k.wait = [q \in Queue |-> << >>] /\ k.defunct = << >>
        /\ k.err = [t \in Thread |-> "ok"]
    BY <1>2, <1>5, <1>6 DEF KernelType
  <1>10. ReadyListsExact(k, {})
    <2>1. ASSUME NEW p \in Prio
          PROVE  /\ IsInjective(InitReady[p])
                 /\ \A t \in Thread : t \in Range(InitReady[p]) <=>
                      stat[t] = "ready" /\ InitPrio[t] = p /\ t \notin {}
      BY IpcAssumption, <1>7
    <2>. QED  BY <2>1, <1>9 DEF ReadyListsExact
  <1>11. GroupExact(k)
    BY <1>8, <1>9 DEF GroupExact
  <1>12. WaitListsExact(k, {}) /\ ArmedSuspended(k, {}) /\ DefunctClosed(k)
    <2>1. IsInjective(<< >>) /\ Range(<< >>) = {}
      BY DEF IsInjective, Range
    <2>. QED  BY <2>1, <1>9 DEF WaitListsExact, ArmedSuspended, DefunctClosed
  <1>13. OneRunning(k)
    BY <1>3, <1>7, <1>9 DEF OneRunning
  <1>14. KernelInv(k, {})
    BY <1>9, <1>10, <1>11, <1>12, <1>13 DEF KernelInv
  <1>15. Sleepers(k) = {}
    BY <1>7, <1>9 DEF Sleepers
  <1>16. pc \in [Thread -> {"run"}]
    BY DEF IpcInit
  <1>17. Control(k, pc)
    BY <1>3, <1>7, <1>9, <1>15, <1>16 DEF Control
  <1>. QED  BY <1>9, <1>14, <1>15, <1>16, <1>17 DEF Sound

(***************************************************************************)
(* A thread that executes anything but its rt_schedule is not suspended.   *)
(***************************************************************************)
LEMMA CurrentAwake ==
  ASSUME Sound(k, pc), pc[k.cur] \notin {"block", "nap"}
  PROVE  /\ k.cur \in Thread /\ k.cur \notin Sleepers(k)
         /\ pc[k.cur] # "run" => k.cur # Idle
  BY SoundFacts DEF Sound, Control

(***************************************************************************)
(* rt_schedule at the end of a section: the caller goes on behind it once  *)
(* it has the processor again.                                             *)
(***************************************************************************)
LEMMA StepDoSchedule ==
  ASSUME Sound(k, pc), DOMAIN pc = Thread, NEW t \in Thread, DoSchedule(t)
  PROVE  /\ Sound(k', pc') /\ SameWaits(k, k')
         /\ pc[t] \in {"sched", "block", "nap"}
         /\ pc' = Moved(pc, t, IF pc[t] = "block" THEN "woken"
                               ELSE IF pc[t] = "nap" THEN "slept" ELSE "run")
  <1> DEFINE p == IF pc[t] = "block" THEN "woken"
                  ELSE IF pc[t] = "nap" THEN "slept" ELSE "run"
  <1>1. t = k.cur /\ pc[t] \in {"sched", "block", "nap"} /\ k' = Schedule(k)
    BY DEF DoSchedule, AfterSchedule
  <1>2. pc' = Moved(pc, t, p)
    BY <1>1 DEF DoSchedule, AfterSchedule, Goto, Moved
  <1>3. /\ Sound(k', pc) /\ SameWaits(k, k')
        /\ k'.cur \notin Sleepers(k')
    BY <1>1, ScheduleSound
  <1>4. t # Idle
    BY <1>1 DEF Sound, Control
  <1>5. t \in Sleepers(k') => p \in {"block", "woken", "nap", "slept"}
    BY <1>1, <1>3 DEF SameWaits, Sound, Control
  <1>6. t \in Sleepers(k') /\ t = k'.cur => p \in {"block", "nap"}
    BY <1>3
  <1> HIDE DEF p
  <1>7. Sound(k', Moved(pc, t, p))
    BY <1>3, <1>4, <1>5, <1>6, MoveSound
  <1>. QED  BY <1>1, <1>2, <1>3, <1>7 DEF p

(***************************************************************************)
(* rt_thread_sleep up to its rt_schedule.                                  *)
(***************************************************************************)
LEMMA StepSleep ==
  ASSUME Sound(k, pc), DOMAIN pc = Thread, NEW t \in Thread, Sleep(t)
  PROVE  /\ Sound(k', pc') /\ FallsAsleep(k, t, k')
         /\ k'.wait = k.wait /\ k'.armed = k.armed \cup {t}
         /\ pc[t] = "run" /\ pc' = Moved(pc, t, "nap")
  <1>1. t = k.cur /\ t # Idle /\ pc[t] = "run" /\ pc' = Moved(pc, t, "nap")
    BY DEF Sleep, InCall, Goto, Moved
  <1>2. t \notin Sleepers(k)
    BY <1>1, CurrentAwake
  <1>3. PICK u : u = Suspend(ErrSet(k, t, "ok"), t)
    OBVIOUS
  <1>4. /\ Sound(u, pc') /\ FallsAsleep(k, t, u)
        /\ u.wait = k.wait /\ u.armed = k.armed
    <2>1. "nap" \in {"block", "nap"}
      OBVIOUS
    <2>. QED  BY <2>1, <1>1, <1>2, <1>3, SuspendSound
  <1>5. k' = StartTimer(u, t)
    BY <1>3 DEF Sleep, ErrSet
  <1>6. t \in Sleepers(u)
    BY <1>4 DEF FallsAsleep
  <1>7. /\ Sound(k', pc') /\ Sleepers(k') = Sleepers(u) /\ k'.armed = u.armed \cup {t}
        /\ k'.wait = u.wait /\ k'.err = u.err /\ k'.prio = u.prio /\ k'.cur = u.cur
    BY <1>4, <1>5, <1>6, StartTimerSound
  <1>. QED  BY <1>1, <1>4, <1>7 DEF FallsAsleep

(***************************************************************************)
(* The end of rt_thread_sleep: a timeout is no error.                      *)
(***************************************************************************)
LEMMA StepSleepReturns ==
  ASSUME Sound(k, pc), DOMAIN pc = Thread, NEW t \in Thread, SleepReturns(t)
  PROVE  /\ Sound(k', pc') /\ Sleepers(k') = Sleepers(k)
         /\ k'.wait = k.wait /\ k'.armed = k.armed /\ k'.prio = k.prio
         /\ \A x \in Thread \ {t} : k'.err[x] = k.err[x]
         /\ pc[t] = "slept" /\ pc' = Moved(pc, t, "run") /\ t \notin Sleepers(k)
  <1>1. t = k.cur /\ pc[t] = "slept" /\ pc' = Moved(pc, t, "run")
    BY DEF SleepReturns, Goto, Moved
  <1>2. t \notin Sleepers(k) /\ t # Idle
    BY <1>1, CurrentAwake
  <1>3. PICK e : e = IF k.err[t] = "timeout" THEN "ok" ELSE k.err[t]
    OBVIOUS
  <1>4. k' = ErrSet(k, t, e)
    BY <1>3 DEF SleepReturns, ErrSet
  <1>5. k.err \in [Thread -> Err]
    BY SoundFacts
  <1>6. e \in Err
    BY <1>3, <1>5 DEF Err
  <1>7. /\ Sound(k', pc) /\ Sleepers(k') = Sleepers(k) /\ k'.wait = k.wait
        /\ k'.armed = k.armed /\ k'.prio = k.prio /\ k'.err = [k.err EXCEPT ![t] = e]
    BY <1>4, <1>6, ErrSound
  <1>8. Sound(k', Moved(pc, t, "run"))
    BY <1>2, <1>7, MoveSound
  <1>. QED  BY <1>1, <1>2, <1>5, <1>7, <1>8

(***************************************************************************)
(* The end of a time slice: rt_schedule may take the processor away, and   *)
(* no waiter notices.                                                      *)
(***************************************************************************)
LEMMA StepTick ==
  ASSUME Sound(k, pc), Tick
  PROVE  Sound(k', pc') /\ SameWaits(k, k') /\ pc' = pc
  <1>1. PICK j : j = [k EXCEPT !.yield = @ \cup {k.cur}]
    OBVIOUS
  <1>2. k' = Schedule(j) /\ pc' = pc
    BY <1>1 DEF Tick
  <1>3. /\ k \in KernelType /\ ListsInv(k, {}) /\ OneRunning(k) /\ k.cur \in Thread
        /\ k.yield \in SUBSET Thread
    BY SoundFacts, TypeFields
  <1>4. /\ j \in KernelType
        /\ j.stat = k.stat /\ j.prio = k.prio /\ j.ready = k.ready /\ j.group = k.group
        /\ j.cur = k.cur /\ j.lock = k.lock /\ j.wait = k.wait /\ j.armed = k.armed
        /\ j.defunct = k.defunct /\ j.err = k.err
    BY <1>1, <1>3 DEF KernelType
  <1>5. ListsInv(j, {}) /\ OneRunning(j)
    BY <1>3, <1>4, OtherFields DEF OneRunning
  <1>6. Sleepers(j) = Sleepers(k)
    BY <1>4 DEF Sleepers
  <1>7. Sound(j, pc)
    BY <1>4, <1>5, <1>6, InvSplit DEF Sound, Control
  <1>8. Sound(k', pc) /\ SameWaits(j, k')
    BY <1>2, <1>7, ScheduleSound
  <1>. QED  BY <1>2, <1>4, <1>6, <1>8 DEF SameWaits

(***************************************************************************)
(* A timer that fires wakes its thread, which leaves its suspend list,     *)
(* with -RT_ETIMEOUT.                                                      *)
(***************************************************************************)
LEMMA StepTickTimeout ==
  ASSUME Sound(k, pc), NEW x, TickTimeout(x)
  PROVE  /\ Sound(k', pc') /\ Awake(k, x, k') /\ k'.err = [k.err EXCEPT ![x] = "timeout"]
         /\ x \in Sleepers(k) /\ x \in Thread /\ x \in k.armed /\ pc' = pc
  <1>1. x \in k.armed /\ k' = Timeout(k, x) /\ pc' = pc
    BY DEF TickTimeout
  <1>2. x \in Sleepers(k) /\ x \in Thread
    BY <1>1, SoundFacts
  <1>. QED  BY <1>1, <1>2, TimeoutSound

(***************************************************************************)
(* The test of the loop in _ipc_list_resume_all moves the thread only.     *)
(***************************************************************************)
LEMMA StepTestList ==
  ASSUME Sound(k, pc), DOMAIN pc = Thread, NEW t \in Thread, NEW q, TestList(t, q)
  PROVE  /\ Sound(k', pc') /\ k' = k /\ t \notin Sleepers(k)
         /\ t = k.cur /\ pc[t] = "test"
         /\ pc' = Moved(pc, t, IF k.wait[q] = << >> THEN "run" ELSE "flush")
  <1>1. /\ t = k.cur /\ pc[t] = "test" /\ k' = k
        /\ pc' = Moved(pc, t, IF k.wait[q] = << >> THEN "run" ELSE "flush")
    BY DEF TestList, Goto, Moved
  <1>2. t \notin Sleepers(k) /\ t # Idle
    BY <1>1, CurrentAwake
  <1>. QED  BY <1>1, <1>2, MoveSound

(***************************************************************************)
(* A round of that loop, when the list has not become empty since.         *)
(***************************************************************************)
LEMMA StepFlushOne ==
  ASSUME Sound(k, pc), DOMAIN pc = Thread, NEW t \in Thread, NEW q \in Queue, FlushOne(t, q),
         k.wait[q] # << >>, NEW x, x = Head(k.wait[q])
  PROVE  /\ Sound(k', pc') /\ Awake(k, x, k') /\ k'.err = [k.err EXCEPT ![x] = "error"]
         /\ x \in Range(k.wait[q]) /\ x \in Thread /\ x \in Sleepers(k)
         /\ t \notin Sleepers(k) /\ t = k.cur /\ pc[t] = "flush" /\ x # t
         /\ pc' = Moved(pc, t, "test")
  <1>2. /\ t = k.cur /\ pc[t] = "flush" /\ k' = ResumeFailed(k, x)
        /\ pc' = Moved(pc, t, "test")
    BY DEF FlushOne, Goto, Moved
  <1>3. t \notin Sleepers(k) /\ t # Idle
    BY <1>2, CurrentAwake
  <1>4. x \in Range(k.wait[q]) /\ x \in Thread /\ x \in Sleepers(k)
    BY SoundFacts, HeadFacts
  <1>5. /\ Sound(k', pc) /\ Awake(k, x, k') /\ k'.err = [k.err EXCEPT ![x] = "error"]
    BY <1>2, <1>4, ResumeFailedSound
  <1>6. t \notin Sleepers(k')
    BY <1>3, <1>5 DEF Awake
  <1>7. Sound(k', Moved(pc, t, "test"))
    BY <1>3, <1>5, <1>6, MoveSound
  <1>. QED  BY <1>2, <1>3, <1>4, <1>5, <1>7

-----------------------------------------------------------------------------
(* The threads inside _ipc_list_resume_all *)
Sweeping(at) == {u \in Thread : at[u] \in {"test", "flush"}}

(***************************************************************************)
(* Who moves between other points does not enter or leave the loop.        *)
(***************************************************************************)
LEMMA SweepingMoved ==
  ASSUME NEW at, DOMAIN at = Thread, NEW t \in Thread, NEW p
  PROVE  /\ p \notin {"test", "flush"} => Sweeping(Moved(at, t, p)) = Sweeping(at) \ {t}
         /\ p \in {"test", "flush"} => Sweeping(Moved(at, t, p)) = Sweeping(at) \cup {t}
         /\ \A u \in Thread : Moved(at, t, p)[u] = IF u = t THEN p ELSE at[u]
  <1>1. PICK to : to = Moved(at, t, p)
    OBVIOUS
  <1>2. \A u \in Thread : to[u] = IF u = t THEN p ELSE at[u]
    BY <1>1 DEF Moved
  <1>. QED  BY <1>1, <1>2 DEF Sweeping

-----------------------------------------------------------------------------
(* The calls that wait, jb[t] being the call thread t is in *)

(***************************************************************************)
(* Suspend list q holds the threads suspended in op; nothing has been      *)
(* decided about them, and the timer of those that wait for a limited time *)
(* runs.                                                                   *)
(***************************************************************************)
ListedIn(s, jb, q, op) ==
  /\ Range(s.wait[q]) = {t \in Sleepers(s) : jb[t].op = op}
  /\ \A t \in Range(s.wait[q]) : s.err[t] = "ok" /\ (jb[t].wait = "timed" <=> t \in s.armed)

(* t was woken in op without an error and has not come back to its loop. *)
Comes(s, at, jb, op, t) ==
  /\ jb[t].op = op /\ at[t] \in {"block", "woken"}
  /\ t \notin Sleepers(s) /\ s.err[t] = "ok"

Coming(s, at, jb, op) == {t \in Thread : Comes(s, at, jb, op, t)}

(***************************************************************************)
(* A step that changes nothing about the threads of a list.                *)
(***************************************************************************)
LEMMA ListedSame ==
  ASSUME NEW s, NEW jb, NEW q, NEW op, ListedIn(s, jb, q, op),
         NEW n, NEW j, Sleepers(n) = Sleepers(s), n.wait[q] = s.wait[q],
         n.armed \cap Sleepers(s) = s.armed \cap Sleepers(s),
         \A t \in Sleepers(s) : j[t] = jb[t] /\ n.err[t] = s.err[t]
  PROVE  ListedIn(n, j, q, op)
  <1>1. {t \in Sleepers(n) : j[t].op = op} = {t \in Sleepers(s) : jb[t].op = op}
    OBVIOUS
  <1>2. \A t \in Range(s.wait[q]) : t \in Sleepers(s)
    BY DEF ListedIn
  <1>. QED  BY <1>1, <1>2 DEF ListedIn

(***************************************************************************)
(* A thread that becomes runnable leaves its list; what is decided about   *)
(* it concerns no other.                                                   *)
(***************************************************************************)
LEMMA ListedAwake ==
  ASSUME NEW s, NEW at, Sound(s, at), NEW q \in Queue, NEW jb, NEW op, ListedIn(s, jb, q, op),
         NEW x \in Sleepers(s), NEW n, Awake(s, x, n),
         \A y \in Thread \ {x} : n.err[y] = s.err[y]
  PROVE  /\ ListedIn(n, jb, q, op)
         /\ n.wait[q] = Unlinked(s.wait[q], x) /\ Range(n.wait[q]) = Range(s.wait[q]) \ {x}
         /\ x \notin Range(s.wait[q]) => n.wait[q] = s.wait[q]
  <1>1. n.wait[q] = Unlinked(s.wait[q], x)
    BY DEF Awake, WaitsWithout
  <1>2. s.wait[q] \in Seq(Thread) /\ IsInjective(s.wait[q])
    BY SoundFacts, Members DEF ListsInjective
  <1>3. Range(n.wait[q]) = Range(s.wait[q]) \ {x}
    BY <1>1, <1>2, UnlinkedFacts
  <1>4. Range(n.wait[q]) = {t \in Sleepers(n) : jb[t].op = op}
    BY <1>3 DEF ListedIn, Awake
  <1>5. ASSUME NEW t \in Range(n.wait[q])
        PROVE  n.err[t] = "ok" /\ (jb[t].wait = "timed" <=> t \in n.armed)
    <2>1. t \in Range(s.wait[q]) /\ t # x /\ t \in Thread
      BY <1>2, <1>3, HeadFacts
    <2>. QED  BY <2>1 DEF ListedIn, Awake
  <1>6. x \notin Range(s.wait[q]) => n.wait[q] = s.wait[q]
    BY <1>1 DEF Unlinked
  <1>. QED  BY <1>1, <1>3, <1>4, <1>5, <1>6 DEF ListedIn

(***************************************************************************)
(* A thread that blocks on list q is in q, and in no other list.           *)
(***************************************************************************)
LEMMA ListedEnters ==
  ASSUME NEW s, NEW at, Sound(s, at), NEW r \in Queue, NEW jb, NEW o, ListedIn(s, jb, r, o),
         NEW t \in Thread, t \notin Sleepers(s), NEW q \in Queue, NEW l, NEW timeout,
         Range(l) = Range(s.wait[q]) \cup {t},
         NEW n, Enters(s, q, t, l, timeout, n),
         NEW j, \A y \in Thread \ {t} : j[y] = jb[y],
         r = q <=> j[t].op = o, j[t].wait = timeout
  PROVE  /\ ListedIn(n, j, r, o)
         /\ r # q => n.wait[r] = s.wait[r]
         /\ n.wait[q] # << >>
  <1>1. /\ s.wait \in [Queue -> Seq(Thread)] /\ s.err \in [Thread -> Err]
        /\ \A p \in Queue : Range(s.wait[p]) \subseteq Sleepers(s)
        /\ s.armed \subseteq Sleepers(s)
    BY SoundFacts
  <1>2. \A p \in Queue : n.wait[p] = IF p = q THEN l ELSE s.wait[p]
    BY <1>1 DEF Enters
  <1>3. Range(n.wait[q]) = Range(s.wait[q]) \cup {t}
    BY <1>2
  <1>4. Range(n.wait[r]) = IF r = q THEN Range(s.wait[r]) \cup {t} ELSE Range(s.wait[r])
    BY <1>2, <1>3
  <1>5. /\ Sleepers(n) = Sleepers(s) \cup {t} /\ n.err = [s.err EXCEPT ![t] = "ok"]
        /\ n.armed = IF timeout = "timed" THEN s.armed \cup {t} ELSE s.armed
    BY DEF Enters, FallsAsleep
  <1>6. \A y \in Sleepers(s) : y \in Thread /\ y # t /\ j[y] = jb[y]
    BY DEF Sleepers
  <1>7. Range(n.wait[r]) = {y \in Sleepers(n) : j[y].op = o}
    <2>1. Range(s.wait[r]) = {y \in Sleepers(s) : jb[y].op = o}
      BY DEF ListedIn
    <2>. QED  BY <2>1, <1>4, <1>5, <1>6
  <1>8. ASSUME NEW y \in Range(n.wait[r])
        PROVE  n.err[y] = "ok" /\ (j[y].wait = "timed" <=> y \in n.armed)
    <2>1. CASE y = t
      BY <2>1, <1>1, <1>5
    <2>2. CASE y # t
      <3>1. y \in Range(s.wait[r]) /\ y \in Thread
        BY <2>2, <1>1, <1>4, <1>6
      <3>. QED  BY <3>1, <2>2, <1>1, <1>5 DEF ListedIn
    <2>. QED  BY <2>1, <2>2
  <1>9. n.wait[q] # << >>
    <2>1. Range(<< >>) = {}
      BY DEF Range
    <2>. QED  BY <2>1, <1>3
  <1>. QED  BY <1>2, <1>7, <1>8, <1>9 DEF ListedIn

(***************************************************************************)
(* So does one that _ipc_list_suspend links.                               *)
(***************************************************************************)
LEMMA ListedBlocks ==
  ASSUME NEW s, NEW at, Sound(s, at), NEW r \in Queue, NEW jb, NEW o, ListedIn(s, jb, r, o),
         NEW t \in Thread, t \notin Sleepers(s), NEW q \in Queue, NEW order, NEW timeout,
         NEW n, BlocksOn(s, q, t, order, timeout, n),
         NEW j, \A y \in Thread \ {t} : j[y] = jb[y],
         r = q <=> j[t].op = o, j[t].wait = timeout
  PROVE  /\ ListedIn(n, j, r, o)
         /\ r # q => n.wait[r] = s.wait[r]
         /\ n.wait[q] # << >>
  <1>1. PICK l : l = Joined(s.wait[q], s.prio, t, order)
    OBVIOUS
  <1>2. Range(l) = Range(s.wait[q]) \cup {t}
    <2>1. s.wait[q] \in Seq(Thread) /\ IsInjective(s.wait[q]) /\ t \notin Range(s.wait[q])
      BY SoundFacts, Members DEF ListsInjective
    <2>. QED  BY <2>1, <1>1, JoinedFacts
  <1>3. Enters(s, q, t, l, timeout, n)
    BY <1>1 DEF BlocksOn, Enters
  <1>. QED  BY <1>2, <1>3, ListedEnters

(***************************************************************************)
(* Waking all the threads of a list with an error leaves the other lists   *)
(* alone.                                                                  *)
(***************************************************************************)
LEMMA ListedFailed ==
  ASSUME NEW s, NEW at, Sound(s, at), NEW r \in Queue, NEW jb, NEW o, ListedIn(s, jb, r, o),
         NEW q \in Queue, NEW n, AllFailed(s, q, n)
  PROVE  /\ ListedIn(n, jb, r, o)
         /\ n.wait[r] = IF r = q THEN << >> ELSE s.wait[r]
  <1>1. s.wait \in [Queue -> Seq(Thread)] /\ Range(s.wait[r]) \subseteq Thread
    BY SoundFacts, HeadFacts
  <1>2. n.wait[r] = IF r = q THEN << >> ELSE s.wait[r]
    BY <1>1 DEF AllFailed
  <1>3. Sleepers(n) = Sleepers(s) \ Range(s.wait[q]) /\ n.armed = s.armed \ Range(s.wait[q])
    BY DEF AllFailed
  <1>4. CASE r = q
    <2>1. Range(n.wait[r]) = {}
      BY <1>2, <1>4 DEF Range
    <2>2. {t \in Sleepers(n) : jb[t].op = o} = {}
      BY <1>3, <1>4 DEF ListedIn
    <2>. QED  BY <2>1, <2>2, <1>2 DEF ListedIn
  <1>5. CASE r # q
    <2>1. Range(s.wait[r]) \cap Range(s.wait[q]) = {}
      BY <1>5, SoundFacts, Members
    <2>2. Range(n.wait[r]) = {t \in Sleepers(n) : jb[t].op = o}
      BY <2>1, <1>2, <1>3, <1>5 DEF ListedIn
    <2>3. ASSUME NEW t \in Range(n.wait[r])
          PROVE  n.err[t] = "ok" /\ (jb[t].wait = "timed" <=> t \in n.armed)
      <3>1. t \in Range(s.wait[r]) /\ t \notin Range(s.wait[q]) /\ t \in Thread
        BY <2>1, <1>1, <1>2, <1>5
      <3>2. n.err[t] = s.err[t]
        BY <3>1 DEF AllFailed
      <3>. QED  BY <3>1, <3>2, <1>3 DEF ListedIn
    <2>. QED  BY <2>2, <2>3, <1>2 DEF ListedIn
  <1>. QED  BY <1>4, <1>5

(***************************************************************************)
(* A thread that sleeps for a time waits in none of the lists.             *)
(***************************************************************************)
LEMMA ListedAsleep ==
  ASSUME NEW s, NEW at, Sound(s, at), NEW q \in Queue, NEW jb, NEW op, ListedIn(s, jb, q, op),
         NEW t \in Thread, t \notin Sleepers(s), jb[t].op # op,
         NEW n, FallsAsleep(s, t, n), n.wait = s.wait, n.armed = s.armed \cup {t}
  PROVE  ListedIn(n, jb, q, op)
  <1>1. s.err \in [Thread -> Err] /\ Range(s.wait[q]) \subseteq Sleepers(s)
    BY SoundFacts
  <1>2. Sleepers(n) = Sleepers(s) \cup {t} /\ n.err = [s.err EXCEPT ![t] = "ok"]
    BY DEF FallsAsleep
  <1>3. {y \in Sleepers(n) : jb[y].op = op} = {y \in Sleepers(s) : jb[y].op = op}
    BY <1>2
  <1>4. \A y \in Range(s.wait[q]) : y # t /\ y \in Thread
    BY <1>1 DEF Sleepers
  <1>. QED  BY <1>1, <1>2, <1>3, <1>4 DEF ListedIn

(* While somebody waits in list w, no more of what is waited for, amount,
   is there than threads come for it. *)
Enough(w, coming, amount) ==
  /\ IsFiniteSet(coming)
  /\ w # << >> => amount <= Cardinality(coming)

(***************************************************************************)
(* One of those who wait is woken for what has been added.                 *)
(***************************************************************************)
LEMMA EnoughAdd ==
  ASSUME NEW w, NEW C, NEW a \in Int, Enough(w, C, a), w # << >>, NEW x, x \notin C, NEW n
  PROVE  Enough(n, C \cup {x}, a + 1)
  <1>1. /\ IsFiniteSet(C \cup {x}) /\ Cardinality(C \cup {x}) = Cardinality(C) + 1
        /\ Cardinality(C) \in Nat
    BY FS_AddElement, FS_CardinalityType DEF Enough
  <1>. QED  BY <1>1 DEF Enough

(***************************************************************************)
(* One that has come back takes one of what is waited for, or there was    *)
(* none.                                                                   *)
(***************************************************************************)
LEMMA EnoughRemove ==
  ASSUME NEW w, NEW C, NEW a \in Int, Enough(w, C, a), NEW x, NEW n, n # << >> => w # << >>
  PROVE  Enough(n, C \ {x}, a - 1)
  <1>1. IsFiniteSet(C) /\ Cardinality(C) \in Nat
    BY FS_CardinalityType DEF Enough
  <1>2. /\ IsFiniteSet(C \ {x})
        /\ Cardinality(C \ {x}) = IF x \in C THEN Cardinality(C) - 1 ELSE Cardinality(C)
    BY <1>1, FS_RemoveElement
  <1>3. Cardinality(C) - 1 <= Cardinality(C \ {x})
    BY <1>1, <1>2
  <1>4. Cardinality(C \ {x}) \in Nat
    BY <1>2, FS_CardinalityType
  <1>. QED  BY <1>1, <1>2, <1>3, <1>4 DEF Enough

(***************************************************************************)
(* With nothing to be had, or nobody to wait for it, there are always      *)
(* enough.                                                                 *)
(***************************************************************************)
LEMMA EnoughNone ==
  ASSUME NEW w, NEW C, NEW a, Enough(w, C, a), NEW B \in SUBSET C, NEW n
  PROVE  Enough(n, B, 0) /\ \A b : Enough(<< >>, B, b)
  <1>1. IsFiniteSet(B) /\ Cardinality(B) \in Nat
    BY FS_Subset, FS_CardinalityType DEF Enough
  <1>. QED  BY <1>1 DEF Enough

(***************************************************************************)
(* With less to be had there are still enough.                             *)
(***************************************************************************)
LEMMA EnoughLess ==
  ASSUME NEW w, NEW C, NEW a \in Int, Enough(w, C, a), NEW n, n # << >> => w # << >>
  PROVE  Enough(n, C, a) /\ Enough(n, C, a - 1)
  <1>1. IsFiniteSet(C) /\ Cardinality(C) \in Nat
    BY FS_CardinalityType DEF Enough
  <1>. QED  BY <1>1 DEF Enough
=============================================================================
