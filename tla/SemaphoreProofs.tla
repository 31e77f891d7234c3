--------------------------- MODULE SemaphoreProofs ---------------------------
(***************************************************************************)
(* The semaphore never forgets a waiter, never keeps a permit while a      *)
(* thread waits for it, serves its waiters in order and implements         *)
(* SemaphoreSpec, for any threads, priorities and values, when it is not   *)
(* detached while a waiter may time out.                                   *)
(***************************************************************************)
EXTENDS Semaphore, IpcProofs

(* x, a waiter that stands in front of y in the suspend list, is to be
   served before y, line being the order of arrival *)
Precedes(line, order, x, y) ==
  \/ order = "prio" /\ InitPrio[x] < InitPrio[y]
  \/ (order = "prio" => InitPrio[x] = InitPrio[y]) /\ InFrontOf(line, x, y)

(***************************************************************************)
(* The suspend list w holds the threads of the line, in the order of       *)
(* service.                                                                *)
(***************************************************************************)
Ordered(w, line, order) ==
  /\ w \in Seq(Thread) /\ line \in Seq(Thread)
  /\ IsInjective(w) /\ IsInjective(line)
  /\ Range(line) = Range(w)
  /\ \A x, y : InFrontOf(w, x, y) => Precedes(line, order, x, y)

(***************************************************************************)
(* The suspend list holds the threads that are suspended in rt_sem_take,   *)
(* and nothing has been decided about them.                                *)
(***************************************************************************)
Attended(s, at) ==
  /\ Range(s.wait[Sem]) = {t \in Sleepers(s) : at[t] \in {"block", "woken"}}
  /\ \A t \in Range(s.wait[Sem]) : s.err[t] = "ok"

(***************************************************************************)
(* At most one thread empties the list of a closed semaphore; as no waiter *)
(* can time out meanwhile the list is not empty where a thread is to be    *)
(* woken; and nobody waits for a semaphore that is gone.                   *)
(***************************************************************************)
SweepOK(s, at, isopen) ==
  /\ \A u, v \in Sweeping(at) : u = v
  /\ Sweeping(at) # {} => ~ isopen /\ Range(s.wait[Sem]) \cap s.armed = {}
  /\ \A u \in Thread : at[u] = "flush" => s.wait[Sem] # << >>
  /\ ~ isopen /\ Sweeping(at) = {} => s.wait[Sem] = << >>

(***************************************************************************)
(* The inductive invariant.                                                *)
(***************************************************************************)
IInv ==
  /\ value \in 0 .. ValueMax /\ flag \in {"fifo", "prio"} /\ open \in BOOLEAN
  /\ pc \in [Thread -> IpcPC]
  /\ Sound(k, pc) /\ k.prio = InitPrio
  /\ Ordered(k.wait[Sem], arrived, flag)
  /\ Attended(k, pc)
  /\ SweepOK(k, pc, open)
  /\ value > 0 => k.wait[Sem] = << >>

-----------------------------------------------------------------------------
(* The order of service *)

(***************************************************************************)
(* A waiter that leaves changes nothing in the order of the others.        *)
(***************************************************************************)
LEMMA OrderedUnlinked ==
  ASSUME NEW w, NEW line, NEW order, Ordered(w, line, order), NEW x
  PROVE  Ordered(Unlinked(w, x), Unlinked(line, x), order)
  <1>1. /\ w \in Seq(Thread) /\ line \in Seq(Thread) /\ IsInjective(w) /\ IsInjective(line)
        /\ Range(line) = Range(w)
        /\ \A a, b : InFrontOf(w, a, b) => Precedes(line, order, a, b)
    BY DEF Ordered
  <1>2. /\ Unlinked(w, x) \in Seq(Thread) /\ Unlinked(line, x) \in Seq(Thread)
        /\ IsInjective(Unlinked(w, x)) /\ IsInjective(Unlinked(line, x))
        /\ Range(Unlinked(line, x)) = Range(Unlinked(w, x))
    <2>1. /\ Unlinked(w, x) \in Seq(Thread) /\ IsInjective(Unlinked(w, x))
          /\ Range(Unlinked(w, x)) = Range(w) \ {x}
      BY <1>1, UnlinkedFacts
    <2>2. /\ Unlinked(line, x) \in Seq(Thread) /\ IsInjective(Unlinked(line, x))
          /\ Range(Unlinked(line, x)) = Range(line) \ {x}
      BY <1>1, UnlinkedFacts
    <2>. QED  BY <1>1, <2>1, <2>2
  <1>3. ASSUME NEW a, NEW b, InFrontOf(Unlinked(w, x), a, b)
        PROVE  Precedes(Unlinked(line, x), order, a, b)
    <2>1. InFrontOf(w, a, b) /\ a # x /\ b # x
      BY <1>1, <1>3, UnlinkedInFront
    <2>2. Precedes(line, order, a, b)
      BY <1>1, <2>1
    <2>3. InFrontOf(line, a, b) => InFrontOf(Unlinked(line, x), a, b)
      BY <1>1, <2>1, UnlinkedInFront
    <2>. QED  BY <2>2, <2>3 DEF Precedes
  <1>. QED  BY <1>2, <1>3 DEF Ordered

(***************************************************************************)
(* _ipc_list_suspend puts a thread that comes last where it is to be       *)
(* served.                                                                 *)
(***************************************************************************)
LEMMA OrderedJoined ==
  ASSUME NEW w, NEW line, NEW order \in {"fifo", "prio"}, Ordered(w, line, order),
         NEW t \in Thread, t \notin Range(w)
  PROVE  Ordered(Joined(w, InitPrio, t, order), Append(line, t), order)
  <1>1. /\ w \in Seq(Thread) /\ line \in Seq(Thread) /\ IsInjective(w) /\ IsInjective(line)
        /\ Range(line) = Range(w)
        /\ \A a, b : InFrontOf(w, a, b) => Precedes(line, order, a, b)
    BY DEF Ordered
  <1>2. PICK j : j = Joined(w, InitPrio, t, order)
    OBVIOUS
  <1>3. j \in Seq(Thread) /\ IsInjective(j) /\ Range(j) = Range(w) \cup {t}
    BY <1>1, <1>2, JoinedFacts
  <1>4. PICK n : n = Append(line, t)
    OBVIOUS
  <1>5. n \in Seq(Thread) /\ IsInjective(n) /\ Range(n) = Range(line) \cup {t}
    BY <1>1, <1>4, InsertedFacts DEF InsertedBefore
  <1>6. \A a, b : InFrontOf(n, a, b) <=> InFrontOf(line, a, b) \/ (a \in Range(line) /\ b = t)
    BY <1>1, <1>4, AppendInFront
  <1>7. ASSUME NEW a, NEW b, InFrontOf(w, a, b) PROVE Precedes(n, order, a, b)
    BY <1>1, <1>6, <1>7 DEF Precedes
  <1>8. ASSUME NEW a, NEW b, InFrontOf(j, a, b) PROVE Precedes(n, order, a, b)
    <2>1. CASE order = "fifo"
      <3>1. j = Append(w, t)
        BY <1>2, <2>1 DEF Joined, InsertedBefore
      <3>2. InFrontOf(w, a, b) \/ (a \in Range(w) /\ b = t)
        BY <3>1, <1>1, <1>8, AppendInFront
      <3>3. CASE InFrontOf(w, a, b)
        BY <3>3, <1>7
      <3>4. CASE a \in Range(w) /\ b = t
        <4>1. InFrontOf(n, a, b)
          BY <3>4, <1>1, <1>6
        <4>. QED  BY <4>1, <2>1 DEF Precedes
      <3>. QED  BY <3>2, <3>3, <3>4
    <2>2. CASE order = "prio"
      <3>1. j = InsertedByKey(w, InitPrio, t)
        BY <1>2, <2>2 DEF Joined
      <3>2. InitPrio \in [Thread -> Int]
        BY KernelAssumption
      <3>3. ASSUME NEW x, NEW y, InFrontOf(w, x, y) PROVE InitPrio[x] <= InitPrio[y]
        <4>1. x \in Range(w) /\ y \in Range(w)
          BY <3>3 DEF InFrontOf, Range
        <4>2. x \in Thread /\ y \in Thread
          BY <4>1, <1>1, HeadFacts
        <4>3. Precedes(line, order, x, y)
          BY <3>3, <1>1
        <4>4. InitPrio[x] \in Int /\ InitPrio[y] \in Int
          BY <4>2, <3>2
        <4>. QED  BY <4>3, <4>4, <2>2 DEF Precedes
      <3>4. \/ InFrontOf(w, a, b)
            \/ a \in Range(w) /\ b = t /\ InitPrio[a] <= InitPrio[t]
            \/ a = t /\ b \in Range(w) /\ InitPrio[t] < InitPrio[b]
        <4>1. InFrontOf(InsertedByKey(w, InitPrio, t), a, b)
          BY <3>1, <1>8
        <4>. QED  BY <4>1, <3>2, <3>3, <1>1, InsertedByKeyOrder
      <3>5. CASE InFrontOf(w, a, b)
        BY <3>5, <1>7
      <3>6. CASE a \in Range(w) /\ b = t /\ InitPrio[a] <= InitPrio[t]
        <4>1. InFrontOf(n, a, b)
          BY <3>6, <1>1, <1>6
        <4>2. a \in Thread
          BY <3>6, <1>1, HeadFacts
        <4>3. InitPrio[a] \in Int /\ InitPrio[t] \in Int
          BY <4>2, <3>2
        <4>4. InitPrio[a] < InitPrio[t] \/ InitPrio[a] = InitPrio[t]
          BY <4>3, <3>6
        <4>. QED  BY <4>1, <4>4, <3>6, <2>2 DEF Precedes
      <3>7. CASE a = t /\ b \in Range(w) /\ InitPrio[t] < InitPrio[b]
        BY <3>7, <2>2 DEF Precedes
      <3>. QED  BY <3>4, <3>5, <3>6, <3>7
    <2>. QED  BY <2>1, <2>2
  <1>9. Range(n) = Range(j)
    BY <1>1, <1>3, <1>5
  <1>. QED  BY <1>2, <1>3, <1>4, <1>5, <1>8, <1>9 DEF Ordered

(***************************************************************************)
(* Nobody waits in the empty list.                                         *)
(***************************************************************************)
LEMMA OrderedEmpty ==
  ASSUME NEW order
  PROVE  Ordered(<< >>, << >>, order)
  BY DEF Ordered, IsInjective, Range, InFrontOf

-----------------------------------------------------------------------------
(* The members of the suspend list *)

(***************************************************************************)
(* A thread that goes to another point of its call is still attended to.   *)
(***************************************************************************)
LEMMA AttendedMoved ==
  ASSUME NEW s, NEW at, Attended(s, at), DOMAIN at = Thread, NEW t \in Thread, NEW p,
         t \in Sleepers(s) => (p \in {"block", "woken"} <=> at[t] \in {"block", "woken"})
  PROVE  Attended(s, Moved(at, t, p))
  <1>1. PICK to : to = Moved(at, t, p)
    OBVIOUS
  <1>2. \A x \in Thread : to[x] = IF x = t THEN p ELSE at[x]
    BY <1>1 DEF Moved
  <1>3. \A x \in Sleepers(s) : x \in Thread
    BY DEF Sleepers
  <1>4. {x \in Sleepers(s) : to[x] \in {"block", "woken"}}
          = {x \in Sleepers(s) : at[x] \in {"block", "woken"}}
    BY <1>2, <1>3
  <1>. QED  BY <1>1, <1>4 DEF Attended

(***************************************************************************)
(* A thread that becomes runnable leaves the list; what is decided about   *)
(* it concerns no other.                                                   *)
(***************************************************************************)
LEMMA AttendedAwake ==
  ASSUME NEW s, NEW at, Sound(s, at), Attended(s, at), NEW x \in Sleepers(s),
         NEW n, Awake(s, x, n), \A y \in Thread \ {x} : n.err[y] = s.err[y]
  PROVE  Attended(n, at) /\ n.wait[Sem] = Unlinked(s.wait[Sem], x)
  <1>1. Sem \in Queue
    BY SemaphoreAssumption
  <1>2. n.wait[Sem] = Unlinked(s.wait[Sem], x)
    BY <1>1 DEF Awake, WaitsWithout
  <1>3. s.wait[Sem] \in Seq(Thread) /\ IsInjective(s.wait[Sem])
    BY <1>1, SoundFacts, Members DEF ListsInjective
  <1>4. Range(n.wait[Sem]) = Range(s.wait[Sem]) \ {x}
    BY <1>2, <1>3, UnlinkedFacts
  <1>5. Range(n.wait[Sem]) = {t \in Sleepers(n) : at[t] \in {"block", "woken"}}
    BY <1>4 DEF Attended, Awake
  <1>6. \A t \in Range(n.wait[Sem]) : n.err[t] = "ok"
    <2>1. Range(s.wait[Sem]) \subseteq Thread
      BY <1>3, HeadFacts
    <2>. QED  BY <2>1, <1>4 DEF Attended
  <1>. QED  BY <1>2, <1>5, <1>6 DEF Attended

(***************************************************************************)
(* A thread that blocks is in the list.                                    *)
(***************************************************************************)
LEMMA AttendedBlocks ==
  ASSUME NEW s, NEW at, Sound(s, at), Attended(s, at), DOMAIN at = Thread,
         NEW t \in Thread, t \notin Sleepers(s), NEW order, NEW timeout,
         NEW n, BlocksOn(s, Sem, t, order, timeout, n)
  PROVE  /\ Attended(n, Moved(at, t, "block"))
         /\ n.wait[Sem] = Joined(s.wait[Sem], s.prio, t, order)
         /\ t \notin Range(s.wait[Sem])
  <1>1. Sem \in Queue
    BY SemaphoreAssumption
  <1>2. s.wait \in [Queue -> Seq(Thread)] /\ s.err \in [Thread -> Err]
        /\ Range(s.wait[Sem]) \subseteq Sleepers(s)
    BY <1>1, SoundFacts
  <1>3. s.wait[Sem] \in Seq(Thread) /\ IsInjective(s.wait[Sem])
    BY <1>1, SoundFacts, Members DEF ListsInjective
  <1>4. n.wait[Sem] = Joined(s.wait[Sem], s.prio, t, order)
    BY <1>1, <1>2 DEF BlocksOn
  <1>5. t \notin Range(s.wait[Sem])
    BY <1>2
  <1>6. Range(n.wait[Sem]) = Range(s.wait[Sem]) \cup {t}
    BY <1>3, <1>4, <1>5, JoinedFacts
  <1>7. Sleepers(n) = Sleepers(s) \cup {t} /\ n.err = [s.err EXCEPT ![t] = "ok"]
    BY DEF BlocksOn, FallsAsleep
  <1>8. PICK to : to = Moved(at, t, "block")
    OBVIOUS
  <1>9. \A x \in Thread : to[x] = IF x = t THEN "block" ELSE at[x]
    BY <1>8 DEF Moved
  <1>10. \A x \in Sleepers(s) : x \in Thread
    BY DEF Sleepers
  <1>11. {x \in Sleepers(n) : to[x] \in {"block", "woken"}}
           = {x \in Sleepers(s) : at[x] \in {"block", "woken"}} \cup {t}
    BY <1>7, <1>9, <1>10
  <1>12. \A x \in Range(n.wait[Sem]) : n.err[x] = "ok"
    <2>1. \A x \in Range(s.wait[Sem]) : x \in Thread /\ s.err[x] = "ok"
      BY <1>2, <1>10 DEF Attended
    <2>. QED  BY <2>1, <1>2, <1>6, <1>7
  <1>. QED  BY <1>4, <1>5, <1>6, <1>8, <1>11, <1>12 DEF Attended

(***************************************************************************)
(* A thread that sleeps for a time does not wait for the semaphore.        *)
(***************************************************************************)
LEMMA AttendedAsleep ==
  ASSUME NEW s, NEW at, Sound(s, at), Attended(s, at), DOMAIN at = Thread,
         NEW t \in Thread, t \notin Sleepers(s),
         NEW n, FallsAsleep(s, t, n), n.wait = s.wait
  PROVE  Attended(n, Moved(at, t, "nap"))
  <1>1. s.err \in [Thread -> Err] /\ Range(s.wait[Sem]) \subseteq Sleepers(s)
    BY SoundFacts, SemaphoreAssumption
  <1>2. Sleepers(n) = Sleepers(s) \cup {t} /\ n.err = [s.err EXCEPT ![t] = "ok"]
    BY DEF FallsAsleep
  <1>3. PICK to : to = Moved(at, t, "nap")
    OBVIOUS
  <1>4. \A x \in Thread : to[x] = IF x = t THEN "nap" ELSE at[x]
    BY <1>3 DEF Moved
  <1>5. \A x \in Sleepers(s) : x \in Thread
    BY DEF Sleepers
  <1>6. {x \in Sleepers(n) : to[x] \in {"block", "woken"}}
           = {x \in Sleepers(s) : at[x] \in {"block", "woken"}}
    BY <1>2, <1>4, <1>5
  <1>7. \A x \in Range(n.wait[Sem]) : n.err[x] = "ok"
    BY <1>1, <1>2, <1>5 DEF Attended
  <1>. QED  BY <1>3, <1>6, <1>7 DEF Attended

-----------------------------------------------------------------------------
(* The threads that empty the list *)

(***************************************************************************)
(* While the semaphore is open nobody empties its list.                    *)
(***************************************************************************)
LEMMA SweepOpen ==
  ASSUME NEW s, NEW at
  PROVE  SweepOK(s, at, TRUE) <=> Sweeping(at) = {}
  BY DEF SweepOK, Sweeping

(***************************************************************************)
(* A step that leaves the list and the threads in the loop alone.          *)
(***************************************************************************)
LEMMA SweepKept ==
  ASSUME NEW s, NEW at, NEW isopen, SweepOK(s, at, isopen), DOMAIN at = Thread,
         NEW n, n.wait[Sem] = s.wait[Sem],
         Range(s.wait[Sem]) \cap n.armed \subseteq s.armed,
         NEW t \in Thread, at[t] \notin {"test", "flush"}, NEW p, p \notin {"test", "flush"}
  PROVE  SweepOK(n, Moved(at, t, p), isopen)
  <1>1. PICK to : to = Moved(at, t, p)
    OBVIOUS
  <1>2. Sweeping(to) = Sweeping(at) /\ \A u \in Thread : to[u] = IF u = t THEN p ELSE at[u]
    BY <1>1, SweepingMoved DEF Sweeping
  <1>. QED  BY <1>1, <1>2 DEF SweepOK

-----------------------------------------------------------------------------
(* Every step keeps the invariant *)

(***************************************************************************)
(* What the proofs of the steps start from.                                *)
(***************************************************************************)
LEMMA InvFacts ==
  ASSUME IInv
  PROVE  /\ Sem \in Queue /\ DOMAIN pc = Thread /\ ValueMax \in Nat /\ value \in Nat
         /\ k.wait \in [Queue -> Seq(Thread)] /\ k.wait[Sem] \in Seq(Thread)
         /\ arrived \in Seq(Thread) /\ Range(arrived) = Range(k.wait[Sem])
         /\ k.err \in [Thread -> Err] /\ k.stat \in [Thread -> Stat] /\ k.cur \in Thread
         /\ Range(k.wait[Sem]) \subseteq Sleepers(k)
         /\ \A t : t \in Sleepers(k) <=> t \in Thread /\ k.stat[t] = "suspend"
  <1>1. Sem \in Queue /\ ValueMax \in Nat /\ Sound(k, pc)
    BY SemaphoreAssumption DEF IInv
  <1>2. /\ k.wait \in [Queue -> Seq(Thread)] /\ k.err \in [Thread -> Err]
        /\ k.stat \in [Thread -> Stat] /\ k.cur \in Thread
        /\ Range(k.wait[Sem]) \subseteq Sleepers(k)
    BY <1>1, SoundFacts
  <1>. QED  BY <1>1, <1>2 DEF IInv, Ordered, Sleepers

(***************************************************************************)
(* The thread that calls a function of the semaphore runs.                 *)
(***************************************************************************)
LEMMA CallerFacts ==
  ASSUME IInv, NEW t \in Thread, NEW f, InCall(t, f)
  PROVE  t = k.cur /\ t # Idle /\ t \notin Sleepers(k) /\ pc[t] = "run"
  <1>1. t = k.cur /\ t # Idle /\ pc[t] = "run"
    BY DEF InCall
  <1>. QED  BY <1>1, CurrentAwake DEF IInv

(***************************************************************************)
(* A thread that moves and changes nothing else.                           *)
(***************************************************************************)
LEMMA OnlyMoves ==
  ASSUME IInv, NEW t \in Thread, t # Idle, t \notin Sleepers(k),
         NEW p \in IpcPC, pc' = Moved(pc, t, p), k' = k
  PROVE  pc' \in [Thread -> IpcPC] /\ Sound(k', pc') /\ Attended(k', pc')
  <1>1. DOMAIN pc = Thread /\ pc \in [Thread -> IpcPC] /\ Sound(k, pc) /\ Attended(k, pc)
    BY InvFacts DEF IInv
  <1>2. pc' \in [Thread -> IpcPC]
    BY <1>1 DEF Moved
  <1>3. Sound(k, Moved(pc, t, p))
    BY <1>1, MoveSound
  <1>4. Attended(k, Moved(pc, t, p))
    BY <1>1, AttendedMoved
  <1>. QED  BY <1>2, <1>3, <1>4

(***************************************************************************)
(* The invariant holds at the start: nobody waits and the semaphore is     *)
(* open.                                                                   *)
(***************************************************************************)
LEMMA InitInv == Init => IInv
  <1> SUFFICES ASSUME Init PROVE IInv
    OBVIOUS
  <1>1. /\ Sound(k, pc) /\ Sleepers(k) = {} /\ pc \in [Thread -> {"run"}]
        /\ k.wait = [q \in Queue |-> << >>] /\ k.prio = InitPrio
    BY InitSound DEF Init
  <1>2. k.wait[Sem] = << >>
    BY <1>1, SemaphoreAssumption
  <1>3. Ordered(k.wait[Sem], arrived, flag)
    BY <1>2, OrderedEmpty DEF Init
  <1>4. Attended(k, pc)
    BY <1>1, <1>2 DEF Attended, Range
  <1>5. Sweeping(pc) = {}
    BY <1>1 DEF Sweeping
  <1>6. SweepOK(k, pc, open)
    BY <1>5, SweepOpen DEF Init
  <1>7. pc \in [Thread -> IpcPC]
    BY <1>1 DEF IpcPC
  <1>. QED  BY <1>1, <1>2, <1>3, <1>4, <1>6, <1>7, SemaphoreAssumption DEF IInv, Init

(***************************************************************************)
(* rt_sem_take when a permit is there, or without waiting.                 *)
(***************************************************************************)
LEMMA StepTakeNow ==
  ASSUME IInv, NEW t \in Thread, TakeNow(t)
  PROVE  IInv'
  <1>1. /\ k' = k /\ pc' = pc /\ flag' = flag /\ open' = open /\ arrived' = arrived
        /\ value > 0 /\ value' = value - 1
    BY DEF TakeNow
  <1>2. value' \in 0 .. ValueMax
    BY <1>1, InvFacts DEF IInv
  <1>. QED  BY <1>1, <1>2 DEF IInv

(***************************************************************************)
(* rt_sem_take when the caller has to wait.                                *)
(***************************************************************************)
LEMMA StepTakeWaits ==
  ASSUME IInv, NEW t \in Thread, NEW timeout, TakeWaits(t, timeout)
  PROVE  /\ IInv' /\ BlocksOn(k, Sem, t, flag, timeout, k')
         /\ pc' = Moved(pc, t, "block") /\ t \notin Sleepers(k) /\ pc[t] = "run"
  <1>1. /\ open /\ value = 0 /\ k' = WaitOn(k, Sem, t, flag, timeout)
        /\ pc' = Moved(pc, t, "block") /\ arrived' = Append(arrived, t)
        /\ value' = value /\ flag' = flag /\ open' = open
    BY DEF TakeWaits, Goto, Moved
  <1>2. t = k.cur /\ t # Idle /\ t \notin Sleepers(k) /\ pc[t] = "run"
    BY CallerFacts DEF TakeWaits
  <1>3. Sem \in Queue /\ DOMAIN pc = Thread /\ Sound(k, pc) /\ Attended(k, pc)
    BY InvFacts DEF IInv
  <1>4. Sound(k', pc') /\ BlocksOn(k, Sem, t, flag, timeout, k')
    BY <1>1, <1>2, <1>3, WaitOnSound
  <1>5. /\ Attended(k', pc') /\ k'.wait[Sem] = Joined(k.wait[Sem], k.prio, t, flag)
        /\ t \notin Range(k.wait[Sem])
    BY <1>1, <1>2, <1>3, <1>4, AttendedBlocks
  <1>6. Ordered(k'.wait[Sem], arrived', flag')
    BY <1>1, <1>5, OrderedJoined DEF IInv
  <1>7. pc' \in [Thread -> IpcPC] /\ k'.prio = InitPrio
    BY <1>1, <1>4 DEF IInv, IpcPC, Moved, BlocksOn, FallsAsleep
  <1>8. SweepOK(k', pc', open')
    <2>1. Sweeping(pc) = {}
      BY <1>1, SweepOpen DEF IInv
    <2>2. Sweeping(pc') = {}
      BY <2>1, <1>1, <1>3, SweepingMoved
    <2>. QED  BY <2>2, <1>1, SweepOpen DEF IInv
  <1>9. /\ value' \in 0 .. ValueMax /\ ~ (value' > 0)
        /\ flag' \in {"fifo", "prio"} /\ open' \in BOOLEAN
    BY <1>1, InvFacts DEF IInv
  <1>10. IInv'
    BY <1>4, <1>5, <1>6, <1>7, <1>8, <1>9 DEF IInv
  <1>. QED  BY <1>1, <1>2, <1>4, <1>10

(***************************************************************************)
(* rt_sem_take returns.                                                    *)
(***************************************************************************)
LEMMA StepTakeReturns ==
  ASSUME IInv, NEW t \in Thread, TakeReturns(t)
  PROVE  /\ IInv' /\ pc' = Moved(pc, t, "run") /\ k' = k
         /\ t \notin Sleepers(k) /\ pc[t] = "woken"
  <1>1. /\ t = k.cur /\ pc[t] = "woken" /\ pc' = Moved(pc, t, "run") /\ k' = k
        /\ value' = value /\ flag' = flag /\ open' = open /\ arrived' = arrived
    BY DEF TakeReturns, Goto, Moved, semvars
  <1>2. t \notin Sleepers(k) /\ t # Idle
    BY <1>1, CurrentAwake DEF IInv
  <1>3. pc' \in [Thread -> IpcPC] /\ Sound(k', pc') /\ Attended(k', pc')
    <2>1. "run" \in IpcPC
      BY DEF IpcPC
    <2>. QED  BY <2>1, <1>1, <1>2, OnlyMoves
  <1>4. SweepOK(k', pc', open')
    BY <1>1, InvFacts, SweepKept DEF IInv
  <1>. QED  BY <1>1, <1>2, <1>3, <1>4 DEF IInv

(***************************************************************************)
(* rt_sem_release, which wakes the first waiter.                           *)
(***************************************************************************)
LEMMA FirstWakes ==
  ASSUME IInv, Wakes, NEW x, x = Head(k.wait[Sem]), NEW n, n = ResumeFirst(k, Sem)
  PROVE  /\ x \in Range(k.wait[Sem]) /\ x \in Sleepers(k) /\ x \in Thread
         /\ Sound(n, pc) /\ Awake(k, x, n) /\ n.err = k.err /\ n.cur = k.cur
         /\ Attended(n, pc) /\ n.wait[Sem] = Unlinked(k.wait[Sem], x) /\ n.prio = InitPrio
  <1>1. Sound(k, pc) /\ Attended(k, pc)
    BY DEF IInv
  <1>2. x \in Range(k.wait[Sem]) /\ x \in Sleepers(k) /\ x \in Thread
    BY InvFacts, HeadFacts DEF Wakes
  <1>3. Sound(n, pc) /\ Awake(k, x, n) /\ n.err = k.err /\ n.cur = k.cur
    BY <1>1, <1>2, ResumeSound DEF ResumeFirst
  <1>4. Attended(n, pc) /\ n.wait[Sem] = Unlinked(k.wait[Sem], x)
    BY <1>1, <1>2, <1>3, AttendedAwake
  <1>. QED  BY <1>2, <1>3, <1>4 DEF Awake, IInv

(***************************************************************************)
(* rt_sem_release, called by a thread, hands its permit to the first       *)
(* waiter or keeps it.                                                     *)
(***************************************************************************)
LEMMA StepRelease ==
  ASSUME IInv, NEW t \in Thread, Release(t)
  PROVE  IInv'
  <1>1. /\ open /\ flag' = flag /\ open' = open
        /\ value' = (IF ~ Wakes /\ value < ValueMax THEN value + 1 ELSE value)
        /\ arrived' = (IF Wakes THEN Unlinked(arrived, Head(k.wait[Sem])) ELSE arrived)
        /\ k' = (IF Wakes THEN ResumeFirst(k, Sem) ELSE k)
        /\ pc' = Moved(pc, t, IF Wakes THEN "sched" ELSE "run")
    BY DEF Release, ReleaseStep, Goto, Moved
  <1>2. t = k.cur /\ t # Idle /\ t \notin Sleepers(k) /\ pc[t] = "run"
    BY CallerFacts DEF Release
  <1>3. DOMAIN pc = Thread /\ pc \in [Thread -> IpcPC] /\ Sweeping(pc) = {}
    BY <1>1, InvFacts, SweepOpen DEF IInv
  <1>4. pc' \in [Thread -> IpcPC]
    BY <1>1, <1>3 DEF Moved, IpcPC
  <1>5. SweepOK(k', pc', open')
    <2>1. Sweeping(pc') = {}
      BY <1>1, <1>3, SweepingMoved
    <2>. QED  BY <2>1, <1>1, SweepOpen DEF IInv
  <1>6. CASE Wakes
    <2>1. PICK x : x = Head(k.wait[Sem])
      OBVIOUS
    <2>2. /\ Sound(k', pc) /\ Awake(k, x, k') /\ Attended(k', pc)
          /\ k'.wait[Sem] = Unlinked(k.wait[Sem], x) /\ k'.prio = InitPrio /\ k'.cur = k.cur
      BY <2>1, <1>1, <1>6, FirstWakes
    <2>3. t \notin Sleepers(k')
      BY <2>2, <1>2 DEF Awake
    <2>4. Sound(k', pc') /\ Attended(k', pc')
      <3>1. pc' = Moved(pc, t, "sched")
        BY <1>1, <1>6
      <3>. QED  BY <3>1, <2>2, <2>3, <1>2, <1>3, MoveSound, AttendedMoved
    <2>5. Ordered(k'.wait[Sem], arrived', flag')
      BY <2>1, <2>2, <1>1, <1>6, OrderedUnlinked DEF IInv
    <2>6. /\ value' \in 0 .. ValueMax /\ ~ (value' > 0)
          /\ flag' \in {"fifo", "prio"} /\ open' \in BOOLEAN
      BY <1>1, <1>6, InvFacts DEF IInv, Wakes
    <2>. QED  BY <2>2, <2>4, <2>5, <2>6, <1>4, <1>5 DEF IInv
  <1>7. CASE ~ Wakes
    <2>1. k' = k /\ pc' = Moved(pc, t, "run") /\ arrived' = arrived /\ k.wait[Sem] = << >>
      BY <1>1, <1>7 DEF Wakes
    <2>2. Sound(k', pc') /\ Attended(k', pc')
      <3>1. "run" \in IpcPC
        BY DEF IpcPC
      <3>. QED  BY <3>1, <2>1, <1>2, OnlyMoves
    <2>3. value' \in 0 .. ValueMax
      BY <1>1, InvFacts DEF IInv
    <2>. QED  BY <2>1, <2>2, <2>3, <1>1, <1>4, <1>5 DEF IInv
  <1>. QED  BY <1>6, <1>7

(***************************************************************************)
(* rt_sem_release in an interrupt handler.                                 *)
(***************************************************************************)
LEMMA StepIrqRelease ==
  ASSUME IInv, IrqRelease
  PROVE  IInv'
  <1>1. /\ open /\ flag' = flag /\ open' = open /\ pc' = pc
        /\ value' = (IF ~ Wakes /\ value < ValueMax THEN value + 1 ELSE value)
        /\ arrived' = (IF Wakes THEN Unlinked(arrived, Head(k.wait[Sem])) ELSE arrived)
        /\ k' = (IF Wakes THEN Schedule(ResumeFirst(k, Sem)) ELSE k)
    BY DEF IrqRelease, ReleaseStep
  <1>2. SweepOK(k', pc', open')
    BY <1>1, SweepOpen DEF IInv
  <1>3. CASE Wakes
    <2>1. PICK x : x = Head(k.wait[Sem])
      OBVIOUS
    <2>2. PICK n : n = ResumeFirst(k, Sem)
      OBVIOUS
    <2>3. /\ Sound(n, pc) /\ Attended(n, pc)
          /\ n.wait[Sem] = Unlinked(k.wait[Sem], x) /\ n.prio = InitPrio
      BY <2>1, <2>2, <1>3, FirstWakes
    <2>4. Sound(k', pc) /\ SameWaits(n, k')
      BY <2>2, <2>3, <1>1, <1>3, ScheduleSound
    <2>5. Attended(k', pc)
      BY <2>3, <2>4 DEF Attended, SameWaits
    <2>6. Ordered(k'.wait[Sem], arrived', flag')
      <3>1. Ordered(Unlinked(k.wait[Sem], x), Unlinked(arrived, x), flag)
        BY OrderedUnlinked DEF IInv
      <3>. QED  BY <3>1, <2>1, <2>3, <2>4, <1>1, <1>3 DEF SameWaits
    <2>7. /\ value' \in 0 .. ValueMax /\ ~ (value' > 0)
          /\ flag' \in {"fifo", "prio"} /\ open' \in BOOLEAN
      BY <1>1, <1>3, InvFacts DEF IInv, Wakes
    <2>8. k'.prio = InitPrio /\ pc' \in [Thread -> IpcPC] /\ Sound(k', pc') /\ Attended(k', pc')
      BY <2>3, <2>4, <2>5, <1>1 DEF IInv, SameWaits
    <2>. QED  BY <2>6, <2>7, <2>8, <1>2 DEF IInv
  <1>4. CASE ~ Wakes
    <2>1. value' \in 0 .. ValueMax
      BY <1>1, InvFacts DEF IInv
    <2>. QED  BY <2>1, <1>1, <1>2, <1>4 DEF IInv, Wakes
  <1>. QED  BY <1>3, <1>4

(***************************************************************************)
(* RT_IPC_CMD_RESET.                                                       *)
(***************************************************************************)
LEMMA StepReset ==
  ASSUME IInv, NEW t \in Thread, NEW v \in ResetArg, Reset(t, v)
  PROVE  /\ IInv' /\ AllFailed(k, Sem, k') /\ pc' = Moved(pc, t, "sched")
         /\ t \notin Sleepers(k) /\ pc[t] = "run"
  <1>1. /\ open /\ k' = ResumeAll(k, Sem) /\ value' = ResetValue(v) /\ arrived' = << >>
        /\ pc' = Moved(pc, t, "sched") /\ flag' = flag /\ open' = open
    BY DEF Reset, Goto, Moved
  <1>2. t = k.cur /\ t # Idle /\ t \notin Sleepers(k) /\ pc[t] = "run"
    BY CallerFacts DEF Reset
  <1>3. /\ Sem \in Queue /\ DOMAIN pc = Thread /\ pc \in [Thread -> IpcPC]
        /\ Sound(k, pc) /\ Attended(k, pc) /\ Sweeping(pc) = {}
    BY <1>1, InvFacts, SweepOpen DEF IInv
  <1>4. Sound(k', pc) /\ AllFailed(k, Sem, k')
    BY <1>1, <1>3, ResumeAllSound
  <1>5. /\ Sleepers(k') = Sleepers(k) \ Range(k.wait[Sem])
        /\ k'.wait[Sem] = << >> /\ k'.prio = InitPrio
    BY <1>3, <1>4, InvFacts DEF AllFailed, IInv
  <1>6. Sound(k', pc') /\ pc' \in [Thread -> IpcPC]
    <2>1. t \notin Sleepers(k')
      BY <1>2, <1>5
    <2>2. Sound(k', pc')
      BY <2>1, <1>1, <1>2, <1>3, <1>4, MoveSound
    <2>. QED  BY <2>2, <1>1, <1>3 DEF Moved, IpcPC
  <1>7. Attended(k', pc')
    <2>1. Range(k'.wait[Sem]) = {}
      BY <1>5 DEF Range
    <2>2. {x \in Sleepers(k') : pc[x] \in {"block", "woken"}} = {}
      BY <1>3, <1>5 DEF Attended
    <2>3. Attended(k', pc)
      BY <2>1, <2>2 DEF Attended
    <2>4. t \notin Sleepers(k')
      BY <1>2, <1>5
    <2>. QED  BY <2>3, <2>4, <1>1, <1>3, AttendedMoved
  <1>8. Ordered(k'.wait[Sem], arrived', flag')
    BY <1>1, <1>5, OrderedEmpty
  <1>9. SweepOK(k', pc', open')
    <2>1. Sweeping(pc') = {}
      BY <1>1, <1>3, SweepingMoved
    <2>. QED  BY <2>1, <1>1, SweepOpen DEF IInv
  <1>10. value' \in 0 .. ValueMax
    <2>1. v \in Nat /\ ValueMax + 1 \in Nat \ {0}
      BY SemaphoreAssumption
    <2>2. v % (ValueMax + 1) \in 0 .. (ValueMax + 1) - 1
      BY <2>1, SMTT(30)
    <2>. QED  BY <2>2, <1>1, SemaphoreAssumption DEF ResetValue
  <1>11. flag' \in {"fifo", "prio"} /\ open' \in BOOLEAN
    BY <1>1 DEF IInv
  <1>12. IInv'
    BY <1>5, <1>6, <1>7, <1>8, <1>9, <1>10, <1>11 DEF IInv
  <1>. QED  BY <1>1, <1>2, <1>4, <1>12

(***************************************************************************)
(* rt_sem_detach begins.                                                   *)
(***************************************************************************)
LEMMA StepDetach ==
  ASSUME IInv, DetachTimed = FALSE, NEW t \in Thread, Detach(t)
  PROVE  /\ IInv' /\ k' = k /\ pc' = Moved(pc, t, "test")
         /\ t \notin Sleepers(k) /\ pc[t] = "run"
  <1>1. /\ open /\ Range(k.wait[Sem]) \cap k.armed = {} /\ open' = FALSE
        /\ pc' = Moved(pc, t, "test") /\ k' = k /\ value' = value /\ flag' = flag
        /\ arrived' = arrived
    BY DEF Detach, Goto, Moved, Waiting
  <1>2. t = k.cur /\ t # Idle /\ t \notin Sleepers(k) /\ pc[t] = "run"
    BY CallerFacts DEF Detach
  <1>3. DOMAIN pc = Thread /\ Sweeping(pc) = {}
    BY <1>1, InvFacts, SweepOpen DEF IInv
  <1>4. pc' \in [Thread -> IpcPC] /\ Sound(k', pc') /\ Attended(k', pc')
    <2>1. "test" \in IpcPC
      BY DEF IpcPC
    <2>. QED  BY <2>1, <1>1, <1>2, OnlyMoves
  <1>5. SweepOK(k', pc', open')
    <2>1. /\ Sweeping(pc') = {t}
          /\ \A u \in Thread : pc'[u] = IF u = t THEN "test" ELSE pc[u]
      BY <1>1, <1>3, SweepingMoved
    <2>2. \A u \in Thread : pc'[u] # "flush"
      BY <2>1, <1>3 DEF Sweeping
    <2>. QED  BY <2>1, <2>2, <1>1 DEF SweepOK
  <1>. QED  BY <1>1, <1>2, <1>4, <1>5 DEF IInv

(***************************************************************************)
(* The test of the loop in _ipc_list_resume_all.                           *)
(***************************************************************************)
LEMMA StepTest ==
  ASSUME IInv, NEW t \in Thread, TestList(t, Sem), UNCHANGED semvars
  PROVE  /\ IInv' /\ k' = k /\ t \notin Sleepers(k) /\ pc[t] = "test"
         /\ pc' = Moved(pc, t, IF k.wait[Sem] = << >> THEN "run" ELSE "flush")
  <1>1. /\ t = k.cur /\ pc[t] = "test" /\ k' = k
        /\ pc' = Moved(pc, t, IF k.wait[Sem] = << >> THEN "run" ELSE "flush")
        /\ value' = value /\ flag' = flag /\ open' = open /\ arrived' = arrived
    BY DEF TestList, Goto, Moved, semvars
  <1>2. t \notin Sleepers(k) /\ t # Idle
    BY <1>1, CurrentAwake DEF IInv
  <1>3. DOMAIN pc = Thread
    BY InvFacts
  <1>4. t \in Sweeping(pc) /\ \A u \in Sweeping(pc) : u = t
    BY <1>1 DEF IInv, SweepOK, Sweeping
  <1>5. ~ open /\ Range(k.wait[Sem]) \cap k.armed = {}
    BY <1>4 DEF IInv, SweepOK
  <1>6. CASE k.wait[Sem] = << >>
    <2>1. pc' = Moved(pc, t, "run") /\ "run" \in IpcPC
      BY <1>1, <1>6 DEF IpcPC
    <2>2. pc' \in [Thread -> IpcPC] /\ Sound(k', pc') /\ Attended(k', pc')
      BY <2>1, <1>1, <1>2, OnlyMoves
    <2>3. Sweeping(pc') = {}
      BY <2>1, <1>3, <1>4, SweepingMoved
    <2>4. \A u \in Thread : pc'[u] # "flush"
      BY <2>3 DEF Sweeping
    <2>5. SweepOK(k', pc', open')
      BY <2>3, <2>4, <1>1, <1>6 DEF SweepOK
    <2>. QED  BY <2>2, <2>5, <1>1, <1>2 DEF IInv
  <1>7. CASE k.wait[Sem] # << >>
    <2>1. pc' = Moved(pc, t, "flush") /\ "flush" \in IpcPC
      BY <1>1, <1>7 DEF IpcPC
    <2>2. pc' \in [Thread -> IpcPC] /\ Sound(k', pc') /\ Attended(k', pc')
      BY <2>1, <1>1, <1>2, OnlyMoves
    <2>3. Sweeping(pc') = {t}
      BY <2>1, <1>3, <1>4, SweepingMoved
    <2>4. SweepOK(k', pc', open')
      BY <2>3, <1>1, <1>5, <1>7 DEF SweepOK
    <2>. QED  BY <2>2, <2>4, <1>1, <1>2 DEF IInv
  <1>. QED  BY <1>6, <1>7

(***************************************************************************)
(* A round of that loop.                                                   *)
(***************************************************************************)
LEMMA StepFlush ==
  ASSUME IInv, NEW t \in Thread, FlushWaiter(t), NEW x, x = Head(k.wait[Sem])
  PROVE  /\ IInv' /\ Awake(k, x, k') /\ k'.err = [k.err EXCEPT ![x] = "error"]
         /\ x \in Range(k.wait[Sem]) /\ x \in Thread /\ x # t
         /\ t \notin Sleepers(k) /\ pc[t] = "flush" /\ pc' = Moved(pc, t, "test")
  <1>1. /\ FlushOne(t, Sem) /\ arrived' = Unlinked(arrived, x)
        /\ value' = value /\ flag' = flag /\ open' = open
    BY DEF FlushWaiter
  <1>2. /\ Sem \in Queue /\ DOMAIN pc = Thread /\ Sound(k, pc) /\ Attended(k, pc)
        /\ pc \in [Thread -> IpcPC] /\ k.err \in [Thread -> Err]
    BY InvFacts DEF IInv
  <1>3. pc[t] = "flush"
    BY <1>1 DEF FlushOne
  <1>4. k.wait[Sem] # << >> /\ t \in Sweeping(pc) /\ \A u \in Sweeping(pc) : u = t
    BY <1>3 DEF IInv, SweepOK, Sweeping
  <1>5. /\ Sound(k', pc') /\ Awake(k, x, k') /\ k'.err = [k.err EXCEPT ![x] = "error"]
        /\ x \in Range(k.wait[Sem]) /\ x \in Thread /\ x \in Sleepers(k)
        /\ t \notin Sleepers(k) /\ t = k.cur /\ pc[t] = "flush" /\ x # t
        /\ pc' = Moved(pc, t, "test")
    BY <1>1, <1>2, <1>4, StepFlushOne
  <1>6. \A y \in Thread \ {x} : k'.err[y] = k.err[y]
    BY <1>2, <1>5
  <1>7. Attended(k', pc) /\ k'.wait[Sem] = Unlinked(k.wait[Sem], x)
    BY <1>2, <1>5, <1>6, AttendedAwake
  <1>8. Attended(k', pc')
    <2>1. t \notin Sleepers(k')
      BY <1>5 DEF Awake
    <2>. QED  BY <2>1, <1>2, <1>5, <1>7, AttendedMoved
  <1>9. Ordered(k'.wait[Sem], arrived', flag')
    <2>1. Ordered(Unlinked(k.wait[Sem], x), Unlinked(arrived, x), flag)
      BY OrderedUnlinked DEF IInv
    <2>. QED  BY <2>1, <1>1, <1>7
  <1>10. SweepOK(k', pc', open')
    <2>1. /\ Sweeping(pc') = {t}
          /\ \A u \in Thread : pc'[u] = IF u = t THEN "test" ELSE pc[u]
      BY <1>2, <1>4, <1>5, SweepingMoved
    <2>2. \A u \in Thread : pc'[u] # "flush"
      BY <2>1, <1>4 DEF Sweeping
    <2>3. ~ open /\ Range(k.wait[Sem]) \cap k.armed = {}
      BY <1>4 DEF IInv, SweepOK
    <2>4. Range(k'.wait[Sem]) = Range(k.wait[Sem]) \ {x} /\ k'.armed = k.armed \ {x}
      <3>1. Range(Unlinked(k.wait[Sem], x)) = Range(k.wait[Sem]) \ {x}
        BY UnlinkedFacts DEF IInv, Ordered
      <3>. QED  BY <3>1, <1>5, <1>7 DEF Awake
    <2>. QED  BY <2>1, <2>2, <2>3, <2>4, <1>1 DEF SweepOK
  <1>11. value' \in 0 .. ValueMax /\ (value' > 0 => k'.wait[Sem] = << >>)
    BY <1>1, <1>4 DEF IInv
  <1>12. /\ pc' \in [Thread -> IpcPC] /\ k'.prio = InitPrio
         /\ flag' \in {"fifo", "prio"} /\ open' \in BOOLEAN
    BY <1>1, <1>2, <1>5 DEF Moved, IpcPC, Awake, IInv
  <1>13. IInv'
    BY <1>5, <1>8, <1>9, <1>10, <1>11, <1>12 DEF IInv
  <1>. QED  BY <1>5, <1>13

(***************************************************************************)
(* rt_sem_init of a semaphore that is gone.                                *)
(***************************************************************************)
LEMMA StepInitialise ==
  ASSUME IInv, NEW t \in Thread, NEW v \in InitValue, Initialise(t, v)
  PROVE  IInv' /\ k.wait[Sem] = << >>
  <1>1. /\ ~ open /\ \A u \in Thread : pc[u] \notin {"test", "flush"}
        /\ value' = v /\ open' = TRUE /\ k' = k /\ pc' = pc /\ flag' = flag
        /\ arrived' = arrived
    BY DEF Initialise
  <1>2. Sweeping(pc) = {}
    BY <1>1 DEF Sweeping
  <1>3. k.wait[Sem] = << >>
    BY <1>1, <1>2 DEF IInv, SweepOK
  <1>4. SweepOK(k', pc', open')
    BY <1>1, <1>2, SweepOpen
  <1>5. value' \in 0 .. ValueMax
    BY <1>1, SemaphoreAssumption
  <1>. QED  BY <1>1, <1>3, <1>4, <1>5 DEF IInv

(***************************************************************************)
(* The steps of rt_schedule, of rt_thread_sleep and of the clock: nothing  *)
(* changes for the waiters, unless one of them times out.                  *)
(***************************************************************************)
LEMMA StepSchedules ==
  ASSUME IInv, NEW t \in Thread, DoSchedule(t), UNCHANGED semvars
  PROVE  /\ IInv' /\ SameWaits(k, k') /\ pc[t] \in {"sched", "block", "nap"}
         /\ pc' = Moved(pc, t, IF pc[t] = "block" THEN "woken"
                               ELSE IF pc[t] = "nap" THEN "slept" ELSE "run")
         /\ t \in Sleepers(k) => pc[t] \in {"block", "nap"}
  <1> DEFINE p == IF pc[t] = "block" THEN "woken"
                  ELSE IF pc[t] = "nap" THEN "slept" ELSE "run"
  <1>1. /\ Sem \in Queue /\ DOMAIN pc = Thread /\ Sound(k, pc) /\ Attended(k, pc)
        /\ pc \in [Thread -> IpcPC]
        /\ value' = value /\ flag' = flag /\ open' = open /\ arrived' = arrived
    BY InvFacts DEF IInv, semvars
  <1>2. /\ Sound(k', pc') /\ SameWaits(k, k')
        /\ pc[t] \in {"sched", "block", "nap"} /\ pc' = Moved(pc, t, p)
    BY <1>1, StepDoSchedule
  <1>3. p \in IpcPC /\ p \notin {"test", "flush"}
    BY DEF IpcPC
  <1>4. t \in Sleepers(k) => pc[t] \in {"block", "nap"}
    BY <1>1, <1>2 DEF Sound, Control
  <1>5. t \in Sleepers(k') => (p \in {"block", "woken"} <=> pc[t] \in {"block", "woken"})
    BY <1>2, <1>4 DEF SameWaits
  <1> HIDE DEF p
  <1>6. Attended(k', pc')
    <2>1. Attended(k', pc)
      BY <1>1, <1>2 DEF Attended, SameWaits
    <2>. QED  BY <2>1, <1>1, <1>2, <1>5, AttendedMoved
  <1>7. SweepOK(k', pc', open')
    <2>1. /\ k'.wait[Sem] = k.wait[Sem] /\ Range(k.wait[Sem]) \cap k'.armed \subseteq k.armed
          /\ pc[t] \notin {"test", "flush"}
      BY <1>2 DEF SameWaits
    <2>2. SweepOK(k, pc, open)
      BY DEF IInv
    <2>. QED  BY <2>1, <2>2, <1>1, <1>2, <1>3, SweepKept
  <1>8. pc' \in [Thread -> IpcPC]
    BY <1>1, <1>2, <1>3 DEF Moved
  <1>9. IInv'
    BY <1>1, <1>2, <1>6, <1>7, <1>8 DEF IInv, SameWaits
  <1>. QED  BY <1>2, <1>4, <1>9 DEF p

(***************************************************************************)
(* rt_thread_sleep, called by a thread that has nothing to do with the     *)
(* semaphore.                                                              *)
(***************************************************************************)
LEMMA StepSleeps ==
  ASSUME IInv, NEW t \in Thread, Sleep(t), UNCHANGED semvars
  PROVE  /\ IInv' /\ FallsAsleep(k, t, k') /\ pc' = Moved(pc, t, "nap")
         /\ pc[t] = "run"
  <1>1. /\ Sem \in Queue /\ DOMAIN pc = Thread /\ Sound(k, pc) /\ Attended(k, pc)
        /\ pc \in [Thread -> IpcPC]
        /\ value' = value /\ flag' = flag /\ open' = open /\ arrived' = arrived
    BY InvFacts DEF IInv, semvars
  <1>2. /\ Sound(k', pc') /\ FallsAsleep(k, t, k')
        /\ k'.wait = k.wait /\ k'.armed = k.armed \cup {t}
        /\ pc[t] = "run" /\ pc' = Moved(pc, t, "nap")
    BY <1>1, StepSleep
  <1>3. t \notin Sleepers(k)
    BY CallerFacts DEF Sleep
  <1>4. Attended(k', pc')
    BY <1>1, <1>2, <1>3, AttendedAsleep
  <1>5. SweepOK(k', pc', open')
    <2>1. t \notin Range(k.wait[Sem])
      BY <1>3, InvFacts
    <2>2. /\ k'.wait[Sem] = k.wait[Sem] /\ Range(k.wait[Sem]) \cap k'.armed \subseteq k.armed
          /\ pc[t] \notin {"test", "flush"} /\ "nap" \notin {"test", "flush"}
      BY <2>1, <1>2
    <2>3. SweepOK(k, pc, open)
      BY DEF IInv
    <2>. QED  BY <2>2, <2>3, <1>1, <1>2, SweepKept
  <1>6. pc' \in [Thread -> IpcPC] /\ k'.prio = InitPrio
    BY <1>1, <1>2 DEF Moved, IpcPC, FallsAsleep, IInv
  <1>7. IInv'
    BY <1>1, <1>2, <1>4, <1>5, <1>6 DEF IInv
  <1>. QED  BY <1>2, <1>7

(***************************************************************************)
(* The end of rt_thread_sleep.                                             *)
(***************************************************************************)
LEMMA StepWakesUp ==
  ASSUME IInv, NEW t \in Thread, SleepReturns(t), UNCHANGED semvars
  PROVE  /\ IInv' /\ Sleepers(k') = Sleepers(k)
         /\ \A x \in Thread \ {t} : k'.err[x] = k.err[x]
         /\ pc' = Moved(pc, t, "run") /\ pc[t] = "slept"
  <1>1. /\ Sem \in Queue /\ DOMAIN pc = Thread /\ Sound(k, pc) /\ Attended(k, pc)
        /\ pc \in [Thread -> IpcPC]
        /\ value' = value /\ flag' = flag /\ open' = open /\ arrived' = arrived
    BY InvFacts DEF IInv, semvars
  <1>2. /\ Sound(k', pc') /\ Sleepers(k') = Sleepers(k)
        /\ k'.wait = k.wait /\ k'.armed = k.armed /\ k'.prio = k.prio
        /\ \A x \in Thread \ {t} : k'.err[x] = k.err[x]
        /\ pc[t] = "slept" /\ pc' = Moved(pc, t, "run") /\ t \notin Sleepers(k)
    BY <1>1, StepSleepReturns
  <1>3. Attended(k', pc')
    <2>1. \A x \in Range(k.wait[Sem]) : x \in Thread \ {t}
      BY <1>2, InvFacts
    <2>2. Attended(k', pc)
      BY <2>1, <1>1, <1>2 DEF Attended
    <2>3. t \notin Sleepers(k')
      BY <1>2
    <2>. QED  BY <2>2, <2>3, <1>1, <1>2, AttendedMoved
  <1>4. SweepOK(k', pc', open')
    <2>1. /\ k'.wait[Sem] = k.wait[Sem] /\ Range(k.wait[Sem]) \cap k'.armed \subseteq k.armed
          /\ pc[t] \notin {"test", "flush"} /\ "run" \notin {"test", "flush"}
      BY <1>2
    <2>2. SweepOK(k, pc, open)
      BY DEF IInv
    <2>. QED  BY <2>1, <2>2, <1>1, <1>2, SweepKept
  <1>5. pc' \in [Thread -> IpcPC]
    BY <1>1, <1>2 DEF Moved, IpcPC
  <1>6. IInv'
    BY <1>1, <1>2, <1>3, <1>4, <1>5 DEF IInv
  <1>. QED  BY <1>2, <1>6

(***************************************************************************)
(* A time slice ends.                                                      *)
(***************************************************************************)
LEMMA StepTicks ==
  ASSUME IInv, Tick, UNCHANGED semvars
  PROVE  IInv' /\ SameWaits(k, k') /\ pc' = pc
  <1>1. /\ value' = value /\ flag' = flag /\ open' = open /\ arrived' = arrived
        /\ Sound(k, pc)
    BY DEF semvars, IInv
  <1>2. Sound(k', pc') /\ SameWaits(k, k') /\ pc' = pc
    BY <1>1, StepTick
  <1>3. Attended(k', pc') /\ SweepOK(k', pc', open')
    BY <1>1, <1>2 DEF IInv, Attended, SweepOK, SameWaits
  <1>4. IInv'
    BY <1>1, <1>2, <1>3 DEF IInv, SameWaits
  <1>. QED  BY <1>2, <1>4

(***************************************************************************)
(* A timer fires: when its thread waits for the semaphore it leaves the    *)
(* list.                                                                   *)
(***************************************************************************)
LEMMA StepTimesOut ==
  ASSUME IInv, NEW x \in Thread, TickTimeout(x), arrived' = Unlinked(arrived, x),
         UNCHANGED << value, flag, open >>
  PROVE  /\ IInv' /\ Awake(k, x, k') /\ k'.err = [k.err EXCEPT ![x] = "timeout"]
         /\ x \in Sleepers(k) /\ pc' = pc
  <1>1. /\ Sound(k, pc) /\ Attended(k, pc) /\ k.err \in [Thread -> Err]
        /\ value' = value /\ flag' = flag /\ open' = open
    BY InvFacts DEF IInv
  <1>2. /\ Sound(k', pc') /\ Awake(k, x, k') /\ k'.err = [k.err EXCEPT ![x] = "timeout"]
        /\ x \in Sleepers(k) /\ x \in k.armed /\ pc' = pc
    BY <1>1, StepTickTimeout
  <1>3. Attended(k', pc') /\ k'.wait[Sem] = Unlinked(k.wait[Sem], x)
    <2>1. \A y \in Thread \ {x} : k'.err[y] = k.err[y]
      BY <1>1, <1>2
    <2>. QED  BY <2>1, <1>1, <1>2, AttendedAwake
  <1>4. Ordered(k'.wait[Sem], arrived', flag')
    <2>1. Ordered(Unlinked(k.wait[Sem], x), Unlinked(arrived, x), flag)
      BY OrderedUnlinked DEF IInv
    <2>. QED  BY <2>1, <1>1, <1>3
  <1>5. k.wait[Sem] = << >> => k'.wait[Sem] = << >>
    BY <1>3 DEF Unlinked, Range
  <1>6. SweepOK(k', pc', open')
    <2>1. CASE Sweeping(pc) = {}
      <3>1. \A u \in Thread : pc[u] # "flush"
        BY <2>1 DEF Sweeping
      <3>. QED  BY <2>1, <3>1, <1>1, <1>2, <1>5 DEF IInv, SweepOK
    <2>2. CASE Sweeping(pc) # {}
      <3>1. x \notin Range(k.wait[Sem]) /\ k'.armed \subseteq k.armed
        BY <2>2, <1>2 DEF IInv, SweepOK, Awake
      <3>2. k'.wait[Sem] = k.wait[Sem]
        BY <3>1, <1>3 DEF Unlinked
      <3>. QED  BY <3>1, <3>2, <2>2, <1>1, <1>2 DEF IInv, SweepOK
    <2>. QED  BY <2>1, <2>2
  <1>7. k'.prio = InitPrio
    BY <1>2 DEF Awake, IInv
  <1>8. IInv'
    BY <1>1, <1>2, <1>3, <1>4, <1>5, <1>6, <1>7 DEF IInv
  <1>. QED  BY <1>2, <1>8

-----------------------------------------------------------------------------
(* Theorems *)

(***************************************************************************)
(* Every step of the system keeps the invariant.                           *)
(***************************************************************************)
LEMMA NextInv ==
  ASSUME DetachTimed = FALSE, IInv, [Next]_vars
  PROVE  IInv'
  <1>1. CASE UNCHANGED vars
    BY <1>1 DEF vars, IInv
  <1>2. CASE IrqRelease
    BY <1>2, StepIrqRelease
  <1>3. CASE ClockStep
    BY <1>3, StepTicks, StepTimesOut DEF ClockStep
  <1>4. ASSUME NEW t \in Thread, ThreadStep(t) PROVE IInv'
    <2>1. CASE TakeNow(t)
      BY <2>1, StepTakeNow
    <2>2. CASE TakeFails(t)
      BY <2>2 DEF TakeFails, vars, IInv
    <2>3. CASE TakeReturns(t)
      BY <2>3, StepTakeReturns
    <2>4. CASE Release(t)
      BY <2>4, StepRelease
    <2>5. CASE Detach(t)
      BY <2>5, StepDetach
    <2>6. CASE FlushWaiter(t)
      BY <2>6, StepFlush
    <2>7. CASE \E timeout \in Timeouts : TakeWaits(t, timeout)
      BY <2>7, StepTakeWaits
    <2>8. CASE \E v \in ResetArg : Reset(t, v)
      BY <2>8, StepReset
    <2>9. CASE \E v \in InitValue : Initialise(t, v)
      BY <2>9, StepInitialise
    <2>10. CASE (DoSchedule(t) \/ Sleep(t) \/ SleepReturns(t) \/ TestList(t, Sem))
                /\ UNCHANGED semvars
      BY <2>10, StepSchedules, StepSleeps, StepWakesUp, StepTest
    <2>. QED  BY <1>4, <2>1, <2>2, <2>3, <2>4, <2>5, <2>6, <2>7, <2>8, <2>9, <2>10
              DEF ThreadStep
  <1>. QED  BY <1>1, <1>2, <1>3, <1>4 DEF Next

(***************************************************************************)
(* The invariant holds in every reachable state, for any threads, queues,  *)
(* priorities and values, when the semaphore is not detached while one of  *)
(* its waiters may time out.                                               *)
(***************************************************************************)
THEOREM SpecIInv ==
  ASSUME DetachTimed = FALSE
  PROVE  Spec => []IInv
  <1>1. Init => IInv
    BY InitInv
  <1>2. IInv /\ [Next]_vars => IInv'
    BY NextInv
  <1>. QED  BY <1>1, <1>2, PTL DEF Spec

(***************************************************************************)
(* The state always has its type: rt_sem_control(RT_IPC_CMD_RESET), a      *)
(* release and rt_sem_init keep the value within an rt_uint16_t.           *)
(***************************************************************************)
THEOREM TypeCorrect ==
  ASSUME DetachTimed = FALSE
  PROVE  Spec => []TypeOK
  <1>1. IInv => TypeOK
    BY SoundFacts DEF IInv, TypeOK, Ordered
  <1>. QED  BY <1>1, SpecIInv, PTL

(***************************************************************************)
(* Lists, bitmap, timers and status of the threads always agree, whatever  *)
(* interrupt comes between the sections of the calls.                      *)
(***************************************************************************)
THEOREM KernelAlwaysConsistent ==
  ASSUME DetachTimed = FALSE
  PROVE  Spec => []KernelConsistent
  <1>1. IInv => KernelConsistent
    BY DEF IInv, Sound, KernelConsistent
  <1>. QED  BY <1>1, SpecIInv, PTL

(***************************************************************************)
(* A thread suspended in rt_sem_take is always in the suspend list, and    *)
(* nobody else is.                                                         *)
(***************************************************************************)
THEOREM WaitersAlwaysListed ==
  ASSUME DetachTimed = FALSE
  PROVE  Spec => []WaitersListed
  <1>1. IInv => WaitersListed
    BY InvFacts DEF IInv, Attended, WaitersListed, Blocked, Waiting
  <1>. QED  BY <1>1, SpecIInv, PTL

(***************************************************************************)
(* No thread ever waits while a permit is there.                           *)
(***************************************************************************)
THEOREM NeverIdlePermit ==
  ASSUME DetachTimed = FALSE
  PROVE  Spec => []NoIdlePermit
  <1>1. IInv => NoIdlePermit
    BY DEF IInv, NoIdlePermit
  <1>. QED  BY <1>1, SpecIInv, PTL

-----------------------------------------------------------------------------
(* The semaphore implements SemaphoreSpec *)

(* what the call of thread t will return, as Outcome says *)
OutcomeAt(s, at, t) ==
  IF at[t] \notin {"block", "woken"} THEN "none"
  ELSE IF t \in Sleepers(s) THEN "waiting"
  ELSE IF s.err[t] = "ok" THEN "granted" ELSE s.err[t]

OutcomeIn(s, at) == [t \in Thread |-> OutcomeAt(s, at, t)]

(***************************************************************************)
(* SemaphoreSpec means the same by the operations on lists.                *)
(***************************************************************************)
LEMMA PromiseLists ==
  ASSUME NEW l, NEW e
  PROVE  Promise!Range(l) = Range(l) /\ Promise!Unlinked(l, e) = Unlinked(l, e)
  <1>1. Promise!Range(l) = Range(l)
    BY DEF Promise!Range, Range
  <1>2. \A i : Promise!RemoveAt(l, i) = RemoveAt(l, i)
    BY DEF Promise!RemoveAt, RemoveAt
  <1>. QED  BY <1>1, <1>2 DEF Promise!Unlinked, Unlinked

(***************************************************************************)
(* Outcome, as a function of the kernel state and of the points of the     *)
(* threads.                                                                *)
(***************************************************************************)
LEMMA OutcomeIs ==
  Outcome = OutcomeIn(k, pc) /\ Outcome' = OutcomeIn(k', pc')
  <1>1. Outcome = OutcomeIn(k, pc)
    <2>1. \A t \in Thread : t \in Sleepers(k) <=> k.stat[t] = "suspend"
      BY DEF Sleepers
    <2>. QED  BY <2>1 DEF Outcome, OutcomeIn, OutcomeAt
  <1>2. Outcome' = OutcomeIn(k', pc')
    <2>1. \A t \in Thread : t \in Sleepers(k') <=> k'.stat[t] = "suspend"
      BY DEF Sleepers
    <2>. QED  BY <2>1 DEF Outcome, OutcomeIn, OutcomeAt
  <1>. QED  BY <1>1, <1>2

(* Thread x has the same outcome in n, to as in s, at. *)
SameOutcome(s, at, n, to, x) ==
  /\ to[x] \in {"block", "woken"} <=> at[x] \in {"block", "woken"}
  /\ at[x] \in {"block", "woken"} =>
       (x \in Sleepers(n) <=> x \in Sleepers(s)) /\ n.err[x] = s.err[x]

(***************************************************************************)
(* A step that decides about no thread, and one that decides about one.    *)
(***************************************************************************)
LEMMA OutcomeKept ==
  ASSUME NEW s, NEW at, NEW n, NEW to, \A x \in Thread : SameOutcome(s, at, n, to, x)
  PROVE  OutcomeIn(n, to) = OutcomeIn(s, at)
  <1>1. ASSUME NEW x \in Thread PROVE OutcomeAt(n, to, x) = OutcomeAt(s, at, x)
    BY DEF SameOutcome, OutcomeAt
  <1>. QED  BY <1>1 DEF OutcomeIn

(***************************************************************************)
(* A step that decides about one thread only changes its outcome only.     *)
(***************************************************************************)
LEMMA OutcomeSet ==
  ASSUME NEW s, NEW at, NEW n, NEW to, NEW t \in Thread,
         \A x \in Thread \ {t} : SameOutcome(s, at, n, to, x)
  PROVE  OutcomeIn(n, to) = [OutcomeIn(s, at) EXCEPT ![t] = OutcomeAt(n, to, t)]
  <1>1. ASSUME NEW x \in Thread \ {t} PROVE OutcomeAt(n, to, x) = OutcomeAt(s, at, x)
    BY DEF SameOutcome, OutcomeAt
  <1>. QED  BY <1>1 DEF OutcomeIn

(***************************************************************************)
(* The threads in the suspend list, and no others, have the outcome        *)
(* "waiting".                                                              *)
(***************************************************************************)
LEMMA WaitingOutcome ==
  ASSUME IInv, NEW x \in Thread
  PROVE  /\ OutcomeIn(k, pc)[x] = OutcomeAt(k, pc, x)
         /\ OutcomeAt(k, pc, x) = "waiting" <=> x \in Range(k.wait[Sem])
         /\ x \in Range(k.wait[Sem]) =>
              pc[x] \in {"block", "woken"} /\ x \in Sleepers(k) /\ k.err[x] = "ok"
  <1>1. k.err[x] \in Err
    BY InvFacts
  <1>2. x \in Range(k.wait[Sem]) <=> x \in Sleepers(k) /\ pc[x] \in {"block", "woken"}
    BY DEF IInv, Attended
  <1>3. x \in Range(k.wait[Sem]) => k.err[x] = "ok"
    BY DEF IInv, Attended
  <1>4. OutcomeAt(k, pc, x) = "waiting" <=> x \in Sleepers(k) /\ pc[x] \in {"block", "woken"}
    BY <1>1 DEF OutcomeAt, Err
  <1>. QED  BY <1>2, <1>3, <1>4 DEF OutcomeIn

(***************************************************************************)
(* The head of the suspend list is the waiter to be served.                *)
(***************************************************************************)
LEMMA HeadServed ==
  ASSUME IInv, Wakes, NEW x, x = Head(k.wait[Sem])
  PROVE  Promise!Served(x)
  <1>1. /\ k.wait[Sem] \in Seq(Thread) /\ k.wait[Sem] # << >>
        /\ Range(arrived) = Range(k.wait[Sem]) /\ flag \in {"fifo", "prio"}
        /\ \A a, b : InFrontOf(k.wait[Sem], a, b) => Precedes(arrived, flag, a, b)
    BY DEF IInv, Ordered, Wakes
  <1>2. x \in Range(arrived)
    BY <1>1, HeadFacts
  <1>3. arrived \in Seq(Thread)
    BY InvFacts
  <1>4. \A i \in DOMAIN arrived : i <= i
    BY <1>3, LenProperties
  <1>5. \A i, j \in DOMAIN arrived : i < j => i <= j
    BY <1>3, LenProperties
  <1>6. ASSUME NEW u \in Range(arrived)
        PROVE  \/ Promise!Before(x, u) /\ (flag = "fifo" \/ InitPrio[x] = InitPrio[u])
               \/ flag = "prio" /\ InitPrio[x] < InitPrio[u]
    <2>1. CASE u = x
      <3>1. PICK i \in DOMAIN arrived : arrived[i] = x
        BY <1>2 DEF Range
      <3>2. Promise!Before(x, u)
        BY <3>1, <2>1, <1>4 DEF Promise!Before
      <3>. QED  BY <3>2, <2>1
    <2>2. CASE u # x
      <3>1. Precedes(arrived, flag, x, u)
        BY <2>2, <1>1, HeadInFront
      <3>2. InFrontOf(arrived, x, u) => Promise!Before(x, u)
        BY <1>5 DEF InFrontOf, Promise!Before
      <3>. QED  BY <3>1, <3>2, <1>1 DEF Precedes
    <2>. QED  BY <2>1, <2>2
  <1>. QED  BY <1>2, <1>6, PromiseLists DEF Promise!Served

(***************************************************************************)
(* The semaphore starts as SemaphoreSpec does.                             *)
(***************************************************************************)
LEMMA InitPromise ==
  ASSUME Init
  PROVE  Promise!Init
  <1>1. pc \in [Thread -> {"run"}]
    BY InitSound DEF Init
  <1>2. Outcome = [t \in Thread |-> "none"]
    BY <1>1 DEF Outcome
  <1>. QED  BY <1>2, SemaphoreAssumption DEF Init, Promise!Init

(***************************************************************************)
(* A thread that blocks in rt_sem_take joins the line.                     *)
(***************************************************************************)
LEMMA TakeWaitsPromise ==
  ASSUME IInv, NEW t \in Thread, NEW timeout, TakeWaits(t, timeout)
  PROVE  Promise!Wait(t)
  <1>1. /\ BlocksOn(k, Sem, t, flag, timeout, k') /\ pc' = Moved(pc, t, "block")
        /\ t \notin Sleepers(k) /\ pc[t] = "run"
    BY StepTakeWaits
  <1>2. DOMAIN pc = Thread /\ k.err \in [Thread -> Err]
    BY InvFacts
  <1>3. \A x \in Thread : pc'[x] = IF x = t THEN "block" ELSE pc[x]
    BY <1>1, <1>2 DEF Moved
  <1>4. Sleepers(k') = Sleepers(k) \cup {t} /\ k'.err = [k.err EXCEPT ![t] = "ok"]
    BY <1>1 DEF BlocksOn, FallsAsleep
  <1>5. \A x \in Thread \ {t} : SameOutcome(k, pc, k', pc', x)
    BY <1>2, <1>3, <1>4 DEF SameOutcome
  <1>6. OutcomeAt(k', pc', t) = "waiting" /\ OutcomeAt(k, pc, t) = "none"
    BY <1>1, <1>3, <1>4 DEF OutcomeAt
  <1>7. Outcome' = [Outcome EXCEPT ![t] = "waiting"] /\ Outcome[t] = "none"
    BY <1>5, <1>6, OutcomeSet, OutcomeIs DEF OutcomeIn
  <1>. QED  BY <1>7 DEF TakeWaits, Promise!Wait

(***************************************************************************)
(* A thread that comes back from rt_sem_take takes its outcome with it.    *)
(***************************************************************************)
LEMMA TakeReturnsPromise ==
  ASSUME IInv, NEW t \in Thread, TakeReturns(t)
  PROVE  Promise!Return(t)
  <1>1. /\ pc' = Moved(pc, t, "run") /\ k' = k /\ t \notin Sleepers(k) /\ pc[t] = "woken"
    BY StepTakeReturns
  <1>2. DOMAIN pc = Thread /\ k.err[t] \in Err
    BY InvFacts
  <1>3. \A x \in Thread : pc'[x] = IF x = t THEN "run" ELSE pc[x]
    BY <1>1, <1>2 DEF Moved
  <1>4. \A x \in Thread \ {t} : SameOutcome(k, pc, k', pc', x)
    BY <1>1, <1>3 DEF SameOutcome
  <1>5. /\ OutcomeAt(k', pc', t) = "none"
        /\ OutcomeAt(k, pc, t) \in {"granted", "timeout", "error"}
    BY <1>1, <1>2, <1>3 DEF OutcomeAt, Err
  <1>6. /\ Outcome' = [Outcome EXCEPT ![t] = "none"]
        /\ Outcome[t] \in {"granted", "timeout", "error"}
    BY <1>4, <1>5, OutcomeSet, OutcomeIs DEF OutcomeIn
  <1>. QED  BY <1>6 DEF TakeReturns, semvars, Promise!Return

(***************************************************************************)
(* A release that wakes the first waiter, from a state in which the waiter *)
(* is runnable and no other has been touched.                              *)
(***************************************************************************)
LEMMA WakesPromise ==
  ASSUME IInv, Wakes, NEW x, x = Head(k.wait[Sem]), x \in Thread,
         Sleepers(k') = Sleepers(k) \ {x}, k'.err = k.err,
         \A y \in Thread : pc'[y] \in {"block", "woken"} <=> pc[y] \in {"block", "woken"},
         ReleaseStep, UNCHANGED flag
  PROVE  Promise!Grant(x)
  <1>1. x \in Range(k.wait[Sem])
    BY InvFacts, HeadFacts DEF Wakes
  <1>2. pc[x] \in {"block", "woken"} /\ x \in Sleepers(k) /\ k.err[x] = "ok"
    BY <1>1, WaitingOutcome
  <1>3. \A y \in Thread \ {x} : SameOutcome(k, pc, k', pc', y)
    BY DEF SameOutcome
  <1>4. OutcomeAt(k', pc', x) = "granted"
    BY <1>2 DEF OutcomeAt
  <1>5. Outcome' = [Outcome EXCEPT ![x] = "granted"]
    BY <1>3, <1>4, OutcomeSet, OutcomeIs
  <1>6. value' = value /\ arrived' = Unlinked(arrived, x)
    BY DEF ReleaseStep
  <1>. QED  BY <1>5, <1>6, HeadServed, PromiseLists DEF Promise!Grant

(***************************************************************************)
(* A release without waiters.                                              *)
(***************************************************************************)
LEMMA KeepsPromiseAlone ==
  ASSUME IInv, ~ Wakes, k' = k, ReleaseStep, UNCHANGED flag,
         \A y \in Thread : pc'[y] \in {"block", "woken"} <=> pc[y] \in {"block", "woken"}
  PROVE  Promise!Keep \/ UNCHANGED Promise!specvars
  <1>1. arrived = << >>
    <2>1. Range(k.wait[Sem]) = {}
      BY InvFacts, HeadFacts DEF Wakes
    <2>. QED  BY <2>1, InvFacts, HeadFacts
  <1>2. \A y \in Thread : SameOutcome(k, pc, k', pc', y)
    BY DEF SameOutcome
  <1>3. Outcome' = Outcome
    BY <1>2, OutcomeKept, OutcomeIs
  <1>4. /\ value' = (IF value < ValueMax THEN value + 1 ELSE value)
        /\ arrived' = arrived
    BY DEF ReleaseStep
  <1>5. CASE value < ValueMax
    BY <1>1, <1>3, <1>4, <1>5 DEF Promise!Keep
  <1>6. CASE ~ (value < ValueMax)
    BY <1>3, <1>4, <1>6 DEF Promise!specvars
  <1>. QED  BY <1>5, <1>6

(***************************************************************************)
(* rt_sem_release grants the permit to the first of the line, or keeps it. *)
(***************************************************************************)
LEMMA ReleasePromise ==
  ASSUME IInv, NEW t \in Thread, Release(t)
  PROVE  \/ \E x \in Thread : Promise!Grant(x)
         \/ Promise!Keep \/ UNCHANGED Promise!specvars
  <1>1. /\ ReleaseStep /\ flag' = flag
        /\ k' = (IF Wakes THEN ResumeFirst(k, Sem) ELSE k)
        /\ pc' = Moved(pc, t, IF Wakes THEN "sched" ELSE "run")
    BY DEF Release, Goto, Moved
  <1>2. pc[t] = "run" /\ DOMAIN pc = Thread
    BY CallerFacts, InvFacts DEF Release
  <1>3. \A y \in Thread : pc'[y] \in {"block", "woken"} <=> pc[y] \in {"block", "woken"}
    BY <1>1, <1>2 DEF Moved
  <1>4. CASE Wakes
    <2>1. PICK x : x = Head(k.wait[Sem])
      OBVIOUS
    <2>2. x \in Thread /\ Awake(k, x, k') /\ k'.err = k.err
      BY <2>1, <1>1, <1>4, FirstWakes
    <2>3. Sleepers(k') = Sleepers(k) \ {x}
      BY <2>2 DEF Awake
    <2>4. Promise!Grant(x)
      BY <2>1, <2>2, <2>3, <1>1, <1>3, <1>4, WakesPromise
    <2>. QED  BY <2>2, <2>4
  <1>5. CASE ~ Wakes
    BY <1>1, <1>3, <1>5, KeepsPromiseAlone
  <1>. QED  BY <1>4, <1>5

(***************************************************************************)
(* The same in an interrupt handler.                                       *)
(***************************************************************************)
LEMMA IrqReleasePromise ==
  ASSUME IInv, IrqRelease
  PROVE  \/ \E x \in Thread : Promise!Grant(x)
         \/ Promise!Keep \/ UNCHANGED Promise!specvars
  <1>1. /\ ReleaseStep /\ flag' = flag /\ pc' = pc
        /\ k' = (IF Wakes THEN Schedule(ResumeFirst(k, Sem)) ELSE k)
    BY DEF IrqRelease
  <1>2. \A y \in Thread : pc'[y] \in {"block", "woken"} <=> pc[y] \in {"block", "woken"}
    BY <1>1
  <1>3. CASE Wakes
    <2>1. PICK x : x = Head(k.wait[Sem])
      OBVIOUS
    <2>2. PICK n : n = ResumeFirst(k, Sem)
      OBVIOUS
    <2>3. x \in Thread /\ Sound(n, pc) /\ Awake(k, x, n) /\ n.err = k.err
      BY <2>1, <2>2, <1>3, FirstWakes
    <2>4. SameWaits(n, k')
      BY <2>2, <2>3, <1>1, <1>3, ScheduleSound
    <2>5. Sleepers(k') = Sleepers(k) \ {x} /\ k'.err = k.err
      BY <2>3, <2>4 DEF Awake, SameWaits
    <2>6. Promise!Grant(x)
      BY <2>1, <2>3, <2>5, <1>1, <1>2, <1>3, WakesPromise
    <2>. QED  BY <2>3, <2>6
  <1>4. CASE ~ Wakes
    BY <1>1, <1>2, <1>4, KeepsPromiseAlone
  <1>. QED  BY <1>3, <1>4

(***************************************************************************)
(* RT_IPC_CMD_RESET fails every waiter and sets the value.                 *)
(***************************************************************************)
LEMMA ResetPromise ==
  ASSUME IInv, NEW t \in Thread, NEW v \in ResetArg, Reset(t, v)
  PROVE  Promise!Reset(ResetValue(v)) /\ ResetValue(v) \in 0 .. ValueMax
  <1>1. /\ IInv' /\ AllFailed(k, Sem, k') /\ pc' = Moved(pc, t, "sched")
        /\ t \notin Sleepers(k) /\ pc[t] = "run"
    BY StepReset
  <1>2. DOMAIN pc = Thread
    BY InvFacts
  <1>3. value' = ResetValue(v) /\ arrived' = << >> /\ flag' = flag
    BY DEF Reset
  <1>4. \A x \in Thread : pc'[x] \in {"block", "woken"} <=> pc[x] \in {"block", "woken"}
    BY <1>1, <1>2 DEF Moved
  <1>5. /\ Sleepers(k') = Sleepers(k) \ Range(k.wait[Sem])
        /\ k'.err = [x \in Thread |-> IF x \in Range(k.wait[Sem]) THEN "error" ELSE k.err[x]]
    BY <1>1 DEF AllFailed
  <1>6. ASSUME NEW x \in Thread
        PROVE  OutcomeAt(k', pc', x)
                 = IF OutcomeAt(k, pc, x) = "waiting" THEN "error" ELSE OutcomeAt(k, pc, x)
    <2>1. CASE x \in Range(k.wait[Sem])
      <3>1. pc[x] \in {"block", "woken"} /\ OutcomeAt(k, pc, x) = "waiting"
        BY <2>1, WaitingOutcome
      <3>. QED  BY <3>1, <2>1, <1>4, <1>5 DEF OutcomeAt
    <2>2. CASE x \notin Range(k.wait[Sem])
      <3>1. OutcomeAt(k, pc, x) # "waiting"
        BY <2>2, WaitingOutcome
      <3>. QED  BY <3>1, <2>2, <1>4, <1>5 DEF OutcomeAt
    <2>. QED  BY <2>1, <2>2
  <1>7. Outcome' = [x \in Thread |-> IF Outcome[x] = "waiting" THEN "error" ELSE Outcome[x]]
    BY <1>6, OutcomeIs DEF OutcomeIn
  <1>8. value' \in 0 .. ValueMax
    BY <1>1 DEF IInv
  <1>. QED  BY <1>3, <1>7, <1>8 DEF Promise!Reset

(***************************************************************************)
(* A round of the loop in rt_sem_detach fails one waiter.                  *)
(***************************************************************************)
LEMMA FlushPromise ==
  ASSUME IInv, NEW t \in Thread, FlushWaiter(t), NEW x, x = Head(k.wait[Sem])
  PROVE  Promise!Fail(x, "error") /\ x \in Thread
  <1>1. /\ Awake(k, x, k') /\ k'.err = [k.err EXCEPT ![x] = "error"]
        /\ x \in Range(k.wait[Sem]) /\ x \in Thread /\ x # t
        /\ pc[t] = "flush" /\ pc' = Moved(pc, t, "test")
    BY StepFlush
  <1>2. DOMAIN pc = Thread /\ k.err \in [Thread -> Err]
    BY InvFacts
  <1>3. \A y \in Thread : pc'[y] \in {"block", "woken"} <=> pc[y] \in {"block", "woken"}
    BY <1>1, <1>2 DEF Moved
  <1>4. /\ pc[x] \in {"block", "woken"}
        /\ OutcomeIn(k, pc)[x] = "waiting"
    BY <1>1, WaitingOutcome
  <1>5. \A y \in Thread \ {x} : SameOutcome(k, pc, k', pc', y)
    BY <1>1, <1>2, <1>3 DEF SameOutcome, Awake
  <1>6. OutcomeAt(k', pc', x) = "error"
    BY <1>1, <1>2, <1>3, <1>4 DEF OutcomeAt, Awake
  <1>7. Outcome' = [Outcome EXCEPT ![x] = "error"] /\ Outcome[x] = "waiting"
    BY <1>1, <1>4, <1>5, <1>6, OutcomeSet, OutcomeIs
  <1>. QED  BY <1>1, <1>7, PromiseLists DEF FlushWaiter, Promise!Fail

(***************************************************************************)
(* A timeout ends the wait of a thread that waits, and is nothing to the   *)
(* semaphore when the thread only sleeps.                                  *)
(***************************************************************************)
LEMMA TimeoutPromise ==
  ASSUME IInv, NEW x \in Thread, TickTimeout(x), arrived' = Unlinked(arrived, x),
         UNCHANGED << value, flag, open >>
  PROVE  Promise!Fail(x, "timeout") \/ UNCHANGED Promise!specvars
  <1>1. /\ Awake(k, x, k') /\ k'.err = [k.err EXCEPT ![x] = "timeout"]
        /\ x \in Sleepers(k) /\ pc' = pc
    BY StepTimesOut
  <1>2. k.err \in [Thread -> Err] /\ Range(arrived) = Range(k.wait[Sem])
    BY InvFacts
  <1>3. \A y \in Thread \ {x} : SameOutcome(k, pc, k', pc', y)
    BY <1>1, <1>2 DEF SameOutcome, Awake
  <1>4. CASE x \in Range(k.wait[Sem])
    <2>1. pc[x] \in {"block", "woken"} /\ OutcomeIn(k, pc)[x] = "waiting"
      BY <1>4, WaitingOutcome
    <2>2. OutcomeAt(k', pc', x) = "timeout"
      BY <2>1, <1>1, <1>2 DEF OutcomeAt, Awake
    <2>3. Outcome' = [Outcome EXCEPT ![x] = "timeout"] /\ Outcome[x] = "waiting"
      BY <2>1, <2>2, <1>3, OutcomeSet, OutcomeIs
    <2>. QED  BY <2>3, PromiseLists DEF Promise!Fail
  <1>5. CASE x \notin Range(k.wait[Sem])
    <2>1. pc[x] \notin {"block", "woken"}
      BY <1>1, <1>5 DEF IInv, Attended
    <2>2. \A y \in Thread : SameOutcome(k, pc, k', pc', y)
      BY <2>1, <1>1, <1>3 DEF SameOutcome
    <2>3. Outcome' = Outcome
      BY <2>2, OutcomeKept, OutcomeIs
    <2>4. arrived' = arrived
      BY <1>2, <1>5 DEF Unlinked
    <2>. QED  BY <2>3, <2>4 DEF Promise!specvars
  <1>. QED  BY <1>4, <1>5

(***************************************************************************)
(* rt_sem_init of a semaphore that is gone sets the value, and nobody      *)
(* waits.                                                                  *)
(***************************************************************************)
LEMMA InitialisePromise ==
  ASSUME IInv, NEW t \in Thread, NEW v \in InitValue, Initialise(t, v)
  PROVE  Promise!Reset(v) /\ v \in 0 .. ValueMax
  <1>1. k.wait[Sem] = << >>
    BY StepInitialise
  <1>2. Range(k.wait[Sem]) = {}
    BY <1>1 DEF Range
  <1>3. arrived = << >>
    BY <1>2, InvFacts, HeadFacts
  <1>4. \A x \in Thread : OutcomeIn(k, pc)[x] # "waiting"
    BY <1>2, WaitingOutcome
  <1>5. Outcome' = Outcome
    BY DEF Initialise, Outcome
  <1>6. Outcome = [x \in Thread |-> Outcome[x]]
    BY DEF Outcome
  <1>7. Outcome' = [x \in Thread |-> IF Outcome[x] = "waiting" THEN "error" ELSE Outcome[x]]
    BY <1>4, <1>5, <1>6, OutcomeIs
  <1>. QED  BY <1>3, <1>7, SemaphoreAssumption DEF Initialise, Promise!Reset

(***************************************************************************)
(* The steps of rt_schedule, of rt_thread_sleep and of the clock that the  *)
(* users of the semaphore do not notice.                                   *)
(***************************************************************************)
LEMMA QuietPromise ==
  ASSUME IInv, UNCHANGED semvars,
         \/ Tick
         \/ \E t \in Thread : DoSchedule(t) \/ Sleep(t) \/ SleepReturns(t) \/ TestList(t, Sem)
  PROVE  UNCHANGED Promise!specvars
  <1>1. value' = value /\ flag' = flag /\ arrived' = arrived
    BY DEF semvars
  <1>2. DOMAIN pc = Thread /\ k.err \in [Thread -> Err]
    BY InvFacts
  <1>3. \A x \in Thread : SameOutcome(k, pc, k', pc', x)
    <2>1. CASE Tick
      <3>1. SameWaits(k, k') /\ pc' = pc
        BY <2>1, StepTicks
      <3>. QED  BY <3>1 DEF SameOutcome, SameWaits
    <2>2. ASSUME NEW t \in Thread, DoSchedule(t)
          PROVE  \A x \in Thread : SameOutcome(k, pc, k', pc', x)
      <3>1. /\ SameWaits(k, k') /\ pc[t] \in {"sched", "block", "nap"}
            /\ pc' = Moved(pc, t, IF pc[t] = "block" THEN "woken"
                                  ELSE IF pc[t] = "nap" THEN "slept" ELSE "run")
        BY <2>2, StepSchedules
      <3>2. \A x \in Thread : pc'[x] \in {"block", "woken"} <=> pc[x] \in {"block", "woken"}
        BY <3>1, <1>2 DEF Moved
      <3>. QED  BY <3>1, <3>2 DEF SameOutcome, SameWaits
    <2>3. ASSUME NEW t \in Thread, Sleep(t)
          PROVE  \A x \in Thread : SameOutcome(k, pc, k', pc', x)
      <3>1. FallsAsleep(k, t, k') /\ pc' = Moved(pc, t, "nap") /\ pc[t] = "run"
        BY <2>3, StepSleeps
      <3>2. \A x \in Thread : pc'[x] = IF x = t THEN "nap" ELSE pc[x]
        BY <3>1, <1>2 DEF Moved
      <3>. QED  BY <3>1, <3>2, <1>2 DEF SameOutcome, FallsAsleep
    <2>4. ASSUME NEW t \in Thread, SleepReturns(t)
          PROVE  \A x \in Thread : SameOutcome(k, pc, k', pc', x)
      <3>1. /\ Sleepers(k') = Sleepers(k)
            /\ \A x \in Thread \ {t} : k'.err[x] = k.err[x]
            /\ pc' = Moved(pc, t, "run") /\ pc[t] = "slept"
        BY <2>4, StepWakesUp
      <3>2. \A x \in Thread : pc'[x] = IF x = t THEN "run" ELSE pc[x]
        BY <3>1, <1>2 DEF Moved
      <3>. QED  BY <3>1, <3>2 DEF SameOutcome
    <2>5. ASSUME NEW t \in Thread, TestList(t, Sem)
          PROVE  \A x \in Thread : SameOutcome(k, pc, k', pc', x)
      <3>1. /\ k' = k /\ pc[t] = "test"
            /\ pc' = Moved(pc, t, IF k.wait[Sem] = << >> THEN "run" ELSE "flush")
        BY <2>5, StepTest
      <3>2. \A x \in Thread : pc'[x] \in {"block", "woken"} <=> pc[x] \in {"block", "woken"}
        BY <3>1, <1>2 DEF Moved
      <3>. QED  BY <3>1, <3>2 DEF SameOutcome
    <2>. QED  BY <2>1, <2>2, <2>3, <2>4, <2>5
  <1>4. Outcome' = Outcome
    BY <1>3, OutcomeKept, OutcomeIs
  <1>. QED  BY <1>1, <1>4 DEF Promise!specvars

(***************************************************************************)
(* That rt_sem_detach has begun is nothing the waiters notice.             *)
(***************************************************************************)
LEMMA DetachPromise ==
  ASSUME IInv, DetachTimed = FALSE, NEW t \in Thread, Detach(t)
  PROVE  UNCHANGED Promise!specvars
  <1>1. k' = k /\ pc' = Moved(pc, t, "test") /\ pc[t] = "run" /\ DOMAIN pc = Thread
    BY StepDetach, InvFacts
  <1>2. \A x \in Thread : pc'[x] = IF x = t THEN "test" ELSE pc[x]
    BY <1>1 DEF Moved
  <1>3. \A x \in Thread : SameOutcome(k, pc, k', pc', x)
    BY <1>1, <1>2 DEF SameOutcome
  <1>4. Outcome' = Outcome
    BY <1>3, OutcomeKept, OutcomeIs
  <1>. QED  BY <1>4 DEF Detach, Promise!specvars

(***************************************************************************)
(* Every step of the semaphore is a step of SemaphoreSpec or changes       *)
(* nothing there.                                                          *)
(***************************************************************************)
LEMMA NextPromise ==
  ASSUME DetachTimed = FALSE, IInv, [Next]_vars
  PROVE  [Promise!Next]_(Promise!specvars)
  <1>1. CASE UNCHANGED vars
    BY <1>1 DEF vars, Promise!specvars, Outcome
  <1>2. CASE IrqRelease
    BY <1>2, IrqReleasePromise DEF Promise!Next
  <1>3. CASE ClockStep
    <2>1. CASE Tick /\ UNCHANGED semvars
      BY <2>1, QuietPromise
    <2>2. CASE \E x \in Thread : /\ TickTimeout(x) /\ arrived' = Unlinked(arrived, x)
                                 /\ UNCHANGED << value, flag, open >>
      <3>1. PICK x \in Thread : /\ TickTimeout(x) /\ arrived' = Unlinked(arrived, x)
                                /\ UNCHANGED << value, flag, open >>
        BY <2>2
      <3>2. Promise!Fail(x, "timeout") \/ UNCHANGED Promise!specvars
        BY <3>1, TimeoutPromise
      <3>. QED  BY <3>2 DEF Promise!Next
    <2>. QED  BY <1>3, <2>1, <2>2 DEF ClockStep
  <1>4. ASSUME NEW t \in Thread, ThreadStep(t) PROVE [Promise!Next]_(Promise!specvars)
    <2>1. CASE TakeNow(t)
      <3>1. Promise!Take
        BY <2>1 DEF TakeNow, Promise!Take, Outcome
      <3>. QED  BY <3>1 DEF Promise!Next
    <2>2. CASE TakeFails(t)
      BY <2>2 DEF TakeFails, vars, Promise!specvars, Outcome
    <2>3. CASE TakeReturns(t)
      BY <2>3, TakeReturnsPromise DEF Promise!Next
    <2>4. CASE Release(t)
      BY <2>4, ReleasePromise DEF Promise!Next
    <2>5. CASE Detach(t)
      BY <2>5, DetachPromise
    <2>6. CASE FlushWaiter(t)
      BY <2>6, FlushPromise DEF Promise!Next
    <2>7. CASE \E timeout \in Timeouts : TakeWaits(t, timeout)
      BY <2>7, TakeWaitsPromise DEF Promise!Next
    <2>8. CASE \E v \in ResetArg : Reset(t, v)
      BY <2>8, ResetPromise DEF Promise!Next
    <2>9. CASE \E v \in InitValue : Initialise(t, v)
      BY <2>9, InitialisePromise DEF Promise!Next
    <2>10. CASE (DoSchedule(t) \/ Sleep(t) \/ SleepReturns(t) \/ TestList(t, Sem))
                /\ UNCHANGED semvars
      BY <2>10, QuietPromise
    <2>. QED  BY <1>4, <2>1, <2>2, <2>3, <2>4, <2>5, <2>6, <2>7, <2>8, <2>9, <2>10
              DEF ThreadStep
  <1>. QED  BY <1>1, <1>2, <1>3, <1>4 DEF Next

(***************************************************************************)
(* The semaphore implements SemaphoreSpec: permits go to waiters in the    *)
(* order of service, each call ends in one outcome, and no permit is lost  *)
(* or made.                                                                *)
(***************************************************************************)
THEOREM PromiseKept ==
  ASSUME DetachTimed = FALSE
  PROVE  Spec => KeepsPromise
  <1>1. Init => Promise!Init
    BY InitPromise
  <1>2. IInv /\ [Next]_vars => [Promise!Next]_(Promise!specvars)
    BY NextPromise
  <1>. QED  BY <1>1, <1>2, SpecIInv, PTL DEF Spec, KeepsPromise, Promise!Spec
=============================================================================
