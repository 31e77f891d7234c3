---------------------------- MODULE MutexProofs ----------------------------
(***************************************************************************)
(* The mutex excludes: at every moment at most one thread has got it, and  *)
(* value, owner, hold and the suspend list agree, for any number of        *)
(* threads, priorities and mutexes, whether or not they are nested.  While *)
(* nobody nests them, priority inheritance does what it is for.            *)
(***************************************************************************)
EXTENDS Mutex, IpcProofs

(* The points where a thread has not finished the call it gave want for *)
Inside == {"block", "woken", "test", "flush"}

(***************************************************************************)
(* The suspend list of each mutex holds the threads that are suspended in  *)
(* rt_mutex_take of it, and nothing has been decided about them; w is want.*)
(***************************************************************************)
Listed(s, at, w) ==
  /\ \A t \in Thread : w[t] # None <=> at[t] \in Inside
  /\ \A m \in Queue : Range(s.wait[m]) = {t \in Sleepers(s) : w[t] = m}
  /\ \A m \in Queue : \A t \in Range(s.wait[m]) : s.err[t] = "ok"

(***************************************************************************)
(* At most one thread empties the list of a mutex, which is closed; as no  *)
(* waiter can time out meanwhile, the list is not empty where a thread is  *)
(* to be woken.                                                            *)
(***************************************************************************)
Swept(s, at, w, isopen) ==
  \A u \in Sweeping(at) :
    /\ w[u] \notin isopen
    /\ Range(s.wait[w[u]]) \cap s.armed = {}
    /\ \A v \in Sweeping(at) : w[v] = w[u] => v = u
    /\ at[u] = "flush" => s.wait[w[u]] # << >>

(***************************************************************************)
(* The fields v, o, p and h of mutex m and its suspend list agree.         *)
(***************************************************************************)
Account(s, w, m, v, o, p, h) ==
  /\ v = 1 <=> o = None
  /\ h = 0 <=> o = None
  /\ o # None => p \in Prio
  /\ o = None => s.wait[m] = << >>
  /\ o \in Sleepers(s) => w[o] # m

(* t was woken as the new owner of m, and its call has not returned. *)
Granted(s, at, w, t, m) ==
  /\ at[t] \in {"block", "woken"} /\ w[t] = m
  /\ t \notin Sleepers(s) /\ s.err[t] = "ok"

(* n, which t has got m for, and the hold to come, are the hold h of m's
   owner o. *)
Got(s, at, w, t, m, n, o, h) ==
  n + (IF Granted(s, at, w, t, m) THEN 1 ELSE 0) = IF o = t THEN h ELSE 0

(* The types of what is not the kernel's *)
Typed ==
  /\ pc \in [Thread -> IpcPC]
  /\ value \in [Queue -> 0 .. 1]
  /\ owner \in [Queue -> Thread \cup {None}]
  /\ orig \in [Queue -> Prio \cup {Unowned}]
  /\ hold \in [Queue -> 0 .. HoldMax]
  /\ open \subseteq Queue
  /\ want \in [Thread -> Queue \cup {None}]
  /\ held \in [Thread -> [Queue -> 0 .. HoldMax]]
  /\ plain \in BOOLEAN

AccountOK(s, w) ==
  \A m \in Queue : Account(s, w, m, value[m], owner[m], orig[m], hold[m])

GotOK(s, at, w) ==
  \A t \in Thread, m \in Queue : Got(s, at, w, t, m, held[t][m], owner[m], hold[m])

(***************************************************************************)
(* The inductive invariant.                                                *)
(***************************************************************************)
IInv ==
  /\ Typed
  /\ Sound(k, pc)
  /\ Listed(k, pc, want)
  /\ Swept(k, pc, want, open)
  /\ AccountOK(k, want)
  /\ GotOK(k, pc, want)

-----------------------------------------------------------------------------
(* The suspend lists *)

(***************************************************************************)
(* A step that changes neither lists nor what the waiters want.            *)
(***************************************************************************)
LEMMA ListedSame2 ==
  ASSUME NEW s, NEW at, NEW w, Listed(s, at, w),
         NEW n, NEW to, NEW v, Sleepers(n) = Sleepers(s), n.wait = s.wait,
         \A t \in Sleepers(s) : n.err[t] = s.err[t] /\ v[t] = w[t],
         \A t \in Thread : v[t] # None <=> to[t] \in Inside
  PROVE  Listed(n, to, v)
  <1>1. ASSUME NEW m \in Queue
        PROVE  Range(n.wait[m]) = {t \in Sleepers(n) : v[t] = m}
    BY DEF Listed
  <1>2. ASSUME NEW m \in Queue, NEW t \in Range(n.wait[m]) PROVE n.err[t] = "ok"
    BY DEF Listed
  <1>. QED  BY <1>1, <1>2 DEF Listed

(***************************************************************************)
(* The lists are disjoint: a thread stands in the list it waits in only.   *)
(***************************************************************************)
LEMMA OwnList ==
  ASSUME NEW s, NEW at, Sound(s, at), NEW w, Listed(s, at, w), NEW m \in Queue
  PROVE  /\ s.wait[m] \in Seq(Thread) /\ IsInjective(s.wait[m])
         /\ Range(s.wait[m]) \subseteq Thread /\ Range(s.wait[m]) \subseteq Sleepers(s)
         /\ \A x : x \in Range(s.wait[m]) <=> x \in Sleepers(s) /\ w[x] = m
  <1>1. s.wait[m] \in Seq(Thread) /\ IsInjective(s.wait[m])
    BY SoundFacts, Members DEF ListsInjective
  <1>2. Range(s.wait[m]) = {t \in Sleepers(s) : w[t] = m}
    BY DEF Listed
  <1>. QED  BY <1>1, <1>2 DEF Sleepers

(***************************************************************************)
(* A thread that becomes runnable leaves its list and no other changes.    *)
(***************************************************************************)
LEMMA ListedWithout ==
  ASSUME NEW s, NEW at, Sound(s, at), NEW w, Listed(s, at, w),
         NEW x \in Sleepers(s), NEW n, Awake(s, x, n),
         \A y \in Thread \ {x} : n.err[y] = s.err[y]
  PROVE  /\ Listed(n, at, w)
         /\ \A m \in Queue : /\ Range(n.wait[m]) = Range(s.wait[m]) \ {x}
                             /\ w[x] # m => n.wait[m] = s.wait[m]
                             /\ s.wait[m] = << >> => n.wait[m] = << >>
  <1>1. ASSUME NEW m \in Queue
        PROVE  /\ Range(n.wait[m]) = Range(s.wait[m]) \ {x}
               /\ w[x] # m => n.wait[m] = s.wait[m]
               /\ s.wait[m] = << >> => n.wait[m] = << >>
    <2>1. n.wait[m] = Unlinked(s.wait[m], x)
      BY DEF Awake, WaitsWithout
    <2>2. /\ s.wait[m] \in Seq(Thread) /\ IsInjective(s.wait[m])
          /\ x \in Range(s.wait[m]) <=> w[x] = m
      <3>1. /\ s.wait[m] \in Seq(Thread) /\ IsInjective(s.wait[m])
            /\ \A y : y \in Range(s.wait[m]) <=> y \in Sleepers(s) /\ w[y] = m
        BY OwnList
      <3>. QED  BY <3>1
    <2>3. s.wait[m] = << >> => x \notin Range(s.wait[m])
      BY <2>2, HeadFacts
    <2>4. Range(n.wait[m]) = Range(s.wait[m]) \ {x}
      BY <2>1, <2>2, UnlinkedFacts
    <2>5. x \notin Range(s.wait[m]) => n.wait[m] = s.wait[m]
      BY <2>1 DEF Unlinked
    <2>. QED  BY <2>2, <2>3, <2>4, <2>5
  <1>2. ASSUME NEW m \in Queue
        PROVE  Range(n.wait[m]) = {t \in Sleepers(n) : w[t] = m}
    <2>1. Range(s.wait[m]) = {t \in Sleepers(s) : w[t] = m}
      BY DEF Listed
    <2>. QED  BY <2>1, <1>1 DEF Awake
  <1>3. ASSUME NEW m \in Queue, NEW t \in Range(n.wait[m]) PROVE n.err[t] = "ok"
    <2>1. t \in Range(s.wait[m]) /\ t # x
      BY <1>1
    <2>2. t \in Thread
      BY <2>1, OwnList
    <2>. QED  BY <2>1, <2>2 DEF Listed
  <1>. QED  BY <1>1, <1>2, <1>3 DEF Listed

(***************************************************************************)
(* A thread that blocks joins the list of the mutex it takes.              *)
(***************************************************************************)
LEMMA ListedJoined ==
  ASSUME NEW s, NEW at, Sound(s, at), NEW w, Listed(s, at, w),
         NEW t \in Thread, t \notin Sleepers(s), NEW q \in Queue, q # None,
         NEW flag, NEW timeout, NEW n, BlocksOn(s, q, t, flag, timeout, n),
         NEW to, \A x \in Thread : to[x] = IF x = t THEN "block" ELSE at[x],
         NEW v, \A x \in Thread : v[x] = IF x = t THEN q ELSE w[x]
  PROVE  /\ Listed(n, to, v)
         /\ \A m \in Queue : /\ m # q => n.wait[m] = s.wait[m]
  <1>1. /\ s.wait \in [Queue -> Seq(Thread)] /\ s.err \in [Thread -> Err]
    BY SoundFacts
  <1>2. /\ Sleepers(n) = Sleepers(s) \cup {t} /\ n.err = [s.err EXCEPT ![t] = "ok"]
        /\ n.wait = [s.wait EXCEPT ![q] = Joined(s.wait[q], s.prio, t, flag)]
    BY DEF BlocksOn, FallsAsleep
  <1>3. \A x \in Thread : /\ v[x] = IF x = t THEN q ELSE w[x]
                          /\ to[x] = IF x = t THEN "block" ELSE at[x]
    OBVIOUS
  <1>4. \A x \in Sleepers(s) : x \in Thread /\ x # t
    BY DEF Sleepers
  <1>5. \A m \in Queue : m # q => n.wait[m] = s.wait[m]
    BY <1>1, <1>2
  <1>6. Range(n.wait[q]) = Range(s.wait[q]) \cup {t}
    <2>1. s.wait[q] \in Seq(Thread) /\ IsInjective(s.wait[q]) /\ t \notin Range(s.wait[q])
      BY OwnList
    <2>. QED  BY <2>1, <1>1, <1>2, JoinedFacts
  <1>7. ASSUME NEW m \in Queue
        PROVE  Range(n.wait[m]) = {x \in Sleepers(n) : v[x] = m}
    <2>1. Range(s.wait[m]) = {x \in Sleepers(s) : w[x] = m}
      BY DEF Listed
    <2>2. \A x \in Sleepers(n) : v[x] = IF x = t THEN q ELSE w[x]
      BY <1>2, <1>3, <1>4
    <2>3. CASE m = q
      BY <2>1, <2>2, <2>3, <1>2, <1>4, <1>6
    <2>4. CASE m # q
      BY <2>1, <2>2, <2>4, <1>2, <1>4, <1>5
    <2>. QED  BY <2>3, <2>4
  <1>8. ASSUME NEW m \in Queue, NEW x \in Range(n.wait[m]) PROVE n.err[x] = "ok"
    <2>1. CASE x = t
      BY <2>1, <1>1, <1>2
    <2>2. CASE x # t
      <3>1. x \in Range(s.wait[m])
        BY <2>2, <1>5, <1>6
      <3>2. s.err[x] = "ok" /\ x \in Thread
        BY <3>1, OwnList DEF Listed
      <3>. QED  BY <3>2, <2>2, <1>1, <1>2
    <2>. QED  BY <2>1, <2>2
  <1>9. \A x \in Thread : v[x] # None <=> to[x] \in Inside
    BY <1>3 DEF Listed, Inside
  <1>. QED  BY <1>5, <1>7, <1>8, <1>9 DEF Listed

(***************************************************************************)
(* A thread that sleeps for a time waits for no mutex.                     *)
(***************************************************************************)
LEMMA ListedNapping ==
  ASSUME NEW s, NEW at, Sound(s, at), DOMAIN at = Thread, NEW w, Listed(s, at, w),
         NEW t \in Thread, t \notin Sleepers(s), at[t] = "run", None \notin Queue,
         NEW n, FallsAsleep(s, t, n), n.wait = s.wait,
         NEW to, to = Moved(at, t, "nap")
  PROVE  Listed(n, to, w) /\ w[t] = None
  <1>1. Sleepers(n) = Sleepers(s) \cup {t} /\ n.err = [s.err EXCEPT ![t] = "ok"]
    BY DEF FallsAsleep
  <1>2. w[t] = None
    BY DEF Listed, Inside
  <1>3. ASSUME NEW m \in Queue
        PROVE  Range(n.wait[m]) = {x \in Sleepers(n) : w[x] = m}
    BY <1>1, <1>2 DEF Listed
  <1>4. ASSUME NEW m \in Queue, NEW x \in Range(n.wait[m]) PROVE n.err[x] = "ok"
    <2>1. x \in Range(s.wait[m]) /\ x \in Thread /\ x # t
      BY OwnList
    <2>. QED  BY <2>1, <1>1, SoundFacts DEF Listed
  <1>5. \A x \in Thread : w[x] # None <=> to[x] \in Inside
    BY DEF Listed, Inside, Moved
  <1>. QED  BY <1>2, <1>3, <1>4, <1>5 DEF Listed

-----------------------------------------------------------------------------
(* What a step leaves alone *)

(***************************************************************************)
(* A step that concerns no list that is being emptied.                     *)
(***************************************************************************)
LEMMA SweptKept ==
  ASSUME NEW s, NEW at, NEW w, NEW isopen, Swept(s, at, w, isopen),
         NEW n, NEW to, NEW v, NEW opened, Sweeping(to) = Sweeping(at),
         \A u \in Sweeping(at) :
           /\ to[u] = at[u] /\ v[u] = w[u] /\ w[u] \notin opened
           /\ n.wait[w[u]] = s.wait[w[u]]
           /\ Range(s.wait[w[u]]) \cap n.armed \subseteq s.armed
  PROVE  Swept(n, to, v, opened)
  <1>1. ASSUME NEW u \in Sweeping(to)
        PROVE  /\ v[u] \notin opened
               /\ Range(n.wait[v[u]]) \cap n.armed = {}
               /\ to[u] = "flush" => n.wait[v[u]] # << >>
    BY DEF Swept
  <1>2. ASSUME NEW u \in Sweeping(to), NEW x \in Sweeping(to), v[x] = v[u]
        PROVE  x = u
    BY <1>2 DEF Swept
  <1>. QED  BY <1>1, <1>2 DEF Swept

(***************************************************************************)
(* A step that changes no field of a mutex, makes nobody wait for it, and  *)
(* lets no owner wait for its own mutex.                                   *)
(***************************************************************************)
LEMMA AccountKept ==
  ASSUME NEW s, NEW w, NEW m, NEW v, NEW o, NEW p, NEW h, Account(s, w, m, v, o, p, h),
         NEW n, NEW z, s.wait[m] = << >> => n.wait[m] = << >>,
         o \in Sleepers(n) => z[o] # m \/ (o \in Sleepers(s) /\ z[o] = w[o])
  PROVE  Account(n, z, m, v, o, p, h)
  BY DEF Account

(***************************************************************************)
(* A step that changes no field of a mutex and hands it to nobody.         *)
(***************************************************************************)
LEMMA GotKept ==
  ASSUME NEW s, NEW at, NEW w, NEW t, NEW m, NEW c, NEW o, NEW h,
         Got(s, at, w, t, m, c, o, h), NEW n, NEW to, NEW z,
         Granted(n, to, z, t, m) <=> Granted(s, at, w, t, m)
  PROVE  Got(n, to, z, t, m, c, o, h)
  BY DEF Got

(***************************************************************************)
(* What the proofs of the steps start from.                                *)
(***************************************************************************)
LEMMA InvFacts ==
  ASSUME IInv
  PROVE  /\ Sound(k, pc) /\ Listed(k, pc, want) /\ DOMAIN pc = Thread /\ DOMAIN want = Thread
         /\ pc \in [Thread -> IpcPC] /\ want \in [Thread -> Queue \cup {None}]
         /\ None \notin Thread /\ None \notin Queue /\ HoldMax \in Nat \ {0}
         /\ k.wait \in [Queue -> Seq(Thread)] /\ k.err \in [Thread -> Err]
         /\ k.prio \in [Thread -> Prio] /\ k.cur \in Thread
         /\ Sleepers(k) \subseteq Thread
         /\ \A t \in Thread : pc[t] \notin Inside => want[t] = None
         /\ \A t \in Thread : pc[t] \in Inside => want[t] \in Queue
         /\ \A u \in Sweeping(pc) : u \in Thread /\ want[u] \in Queue /\ want[u] \notin open
  <1>1. Sound(k, pc) /\ Listed(k, pc, want)
    BY DEF IInv
  <1>2. /\ k.wait \in [Queue -> Seq(Thread)] /\ k.err \in [Thread -> Err]
        /\ k.prio \in [Thread -> Prio] /\ k.cur \in Thread
    BY <1>1, SoundFacts
  <1>3. /\ pc \in [Thread -> IpcPC] /\ want \in [Thread -> Queue \cup {None}]
    BY DEF IInv, Typed
  <1>4. \A t \in Thread : pc[t] \notin Inside => want[t] = None
    BY <1>1 DEF Listed
  <1>5. \A t \in Thread : pc[t] \in Inside => want[t] \in Queue
    BY <1>1, <1>3 DEF Listed
  <1>6. \A u \in Sweeping(pc) : u \in Thread /\ want[u] \in Queue /\ want[u] \notin open
    BY <1>5 DEF IInv, Swept, Sweeping, Inside
  <1>. QED  BY <1>1, <1>2, <1>3, <1>4, <1>5, <1>6, MutexAssumption DEF Sleepers

(***************************************************************************)
(* The thread that calls a function of a mutex runs, and is in no other    *)
(* call.                                                                   *)
(***************************************************************************)
LEMMA CallerFacts ==
  ASSUME IInv, NEW t \in Thread, NEW f, InCall(t, f)
  PROVE  /\ t = k.cur /\ t # Idle /\ t \notin Sleepers(k) /\ pc[t] = "run" /\ want[t] = None
         /\ \A m : ~ Granted(k, pc, want, t, m)
  <1>1. t = k.cur /\ t # Idle /\ pc[t] = "run"
    BY DEF InCall
  <1>2. t \notin Sleepers(k)
    BY <1>1, InvFacts, CurrentAwake
  <1>3. want[t] = None
    BY <1>1, InvFacts DEF Inside
  <1>. QED  BY <1>1, <1>2, <1>3 DEF Granted

(* n differs from s in nothing a waiter can tell but the error of t. *)
Calm(s, n, t) ==
  /\ Sleepers(n) = Sleepers(s) /\ n.wait = s.wait /\ n.armed = s.armed
  /\ \A x \in Thread \ {t} : n.err[x] = s.err[x]

(***************************************************************************)
(* What a running thread changes calmly, without moving, disturbs no list  *)
(* and hands no mutex over.                                                *)
(***************************************************************************)
LEMMA CalmStep ==
  ASSUME IInv, NEW t \in Thread, t \notin Sleepers(k), pc[t] \notin Inside,
         Calm(k, k', t), NEW p \in {"run", "sched"}, pc' = Moved(pc, t, p), want' = want
  PROVE  /\ Listed(k', pc', want')
         /\ Swept(k', pc', want', open)
         /\ AccountOK(k', want')
         /\ \A x \in Thread, m \in Queue :
              Granted(k', pc', want', x, m) <=> Granted(k, pc, want, x, m)
  <1>1. \A x \in Thread : pc'[x] = IF x = t THEN p ELSE pc[x]
    BY InvFacts DEF Moved
  <1>2. \A x \in Thread : want'[x] # None <=> pc'[x] \in Inside
    BY <1>1, InvFacts DEF Inside, Listed
  <1>3. \A x \in Sleepers(k) : x \in Thread /\ x # t /\ k'.err[x] = k.err[x] /\ want'[x] = want[x]
    BY InvFacts DEF Calm
  <1>4. Listed(k', pc', want')
    <2>1. Sleepers(k') = Sleepers(k) /\ k'.wait = k.wait
      BY DEF Calm
    <2>. QED  BY <2>1, <1>2, <1>3, InvFacts, ListedSame2
  <1>5. Swept(k', pc', want', open)
    <2>1. Sweeping(pc') = Sweeping(pc)
      BY <1>1 DEF Sweeping, Inside
    <2>2. \A u \in Sweeping(pc) :
            /\ pc'[u] = pc[u] /\ want'[u] = want[u] /\ want[u] \notin open
            /\ k'.wait[want[u]] = k.wait[want[u]]
            /\ Range(k.wait[want[u]]) \cap k'.armed \subseteq k.armed
      BY <1>1, InvFacts DEF Calm, Sweeping, Inside
    <2>3. Swept(k, pc, want, open)
      BY DEF IInv
    <2>. QED  BY <2>1, <2>2, <2>3, SweptKept
  <1>6. AccountOK(k', want')
    <2>1. ASSUME NEW m \in Queue
          PROVE  Account(k', want', m, value[m], owner[m], orig[m], hold[m])
      <3>1. Account(k, want, m, value[m], owner[m], orig[m], hold[m])
        BY DEF IInv, AccountOK
      <3>2. Sleepers(k') = Sleepers(k) /\ k'.wait = k.wait /\ want' = want
        BY DEF Calm
      <3>3. /\ k.wait[m] = << >> => k'.wait[m] = << >>
            /\ owner[m] \in Sleepers(k') =>
                 want'[owner[m]] # m
                   \/ (owner[m] \in Sleepers(k) /\ want'[owner[m]] = want[owner[m]])
        BY <3>2
      <3>. QED  BY <3>1, <3>3, AccountKept
    <2>. QED  BY <2>1 DEF AccountOK
  <1>7. ASSUME NEW x \in Thread, NEW m \in Queue
        PROVE  Granted(k', pc', want', x, m) <=> Granted(k, pc, want, x, m)
    <2>1. CASE x = t
      BY <2>1, <1>1 DEF Granted, Inside
    <2>2. CASE x # t
      BY <2>2, <1>1 DEF Granted, Calm
    <2>. QED  BY <2>1, <2>2
  <1>. QED  BY <1>4, <1>5, <1>6, <1>7

(***************************************************************************)
(* thread->error is written at the head of the calls.                      *)
(***************************************************************************)
LEMMA ErrorCalm ==
  ASSUME NEW s, NEW at, Sound(s, at), NEW t \in Thread, NEW e \in Err,
         NEW n, n = ErrSet(s, t, e)
  PROVE  Sound(n, at) /\ Calm(s, n, t) /\ n.cur = s.cur /\ n.prio = s.prio
  <1>1. s.err \in [Thread -> Err]
    BY SoundFacts
  <1>2. /\ Sound(n, at) /\ n.wait = s.wait /\ n.armed = s.armed /\ n.prio = s.prio
        /\ n.cur = s.cur /\ Sleepers(n) = Sleepers(s) /\ n.err = [s.err EXCEPT ![t] = e]
    BY ErrSound
  <1>3. \A x \in Thread \ {t} : n.err[x] = s.err[x]
    BY <1>1, <1>2
  <1>. QED  BY <1>2, <1>3 DEF Calm

(***************************************************************************)
(* RT_THREAD_CTRL_CHANGE_PRIORITY moves a thread between the ready lists   *)
(* and does not touch the suspend lists, not even when the thread waits.   *)
(***************************************************************************)
LEMMA PriorityCalm ==
  ASSUME NEW s, NEW at, Sound(s, at), NEW x \in Thread, NEW p \in Prio,
         NEW n, n = ChangePriority(s, x, p)
  PROVE  /\ Sound(n, at) /\ n.cur = s.cur /\ n.err = s.err
         /\ \A t : Calm(s, n, t)
  <1>1. KernelInv(s, {}) /\ x \notin {}
    BY DEF Sound
  <1>2. /\ KernelInv(n, {})
        /\ n.stat = s.stat /\ n.cur = s.cur /\ n.lock = s.lock
        /\ n.armed = s.armed /\ n.err = s.err /\ n.wait = s.wait
    BY <1>1, ChangePriorityInv
  <1>3. Sleepers(n) = Sleepers(s)
    BY <1>2 DEF Sleepers
  <1>4. Control(n, at)
    BY <1>2, <1>3 DEF Sound, Control
  <1>. QED  BY <1>2, <1>3, <1>4 DEF Sound, Calm

(***************************************************************************)
(* The owner of a mutex inherits a priority and goes back to its own one.  *)
(***************************************************************************)
LEMMA InheritanceCalm ==
  ASSUME NEW s, NEW at, Sound(s, at), NEW x \in Thread, NEW p \in Prio,
         NEW n, n \in {Boosted(s, x, p), Restored(s, x, p)}
  PROVE  /\ Sound(n, at) /\ n.cur = s.cur /\ n.err = s.err
         /\ \A t : Calm(s, n, t)
  <1>1. CASE n = ChangePriority(s, x, p)
    BY <1>1, PriorityCalm
  <1>2. CASE n = s
    BY <1>2 DEF Calm
  <1>. QED  BY <1>1, <1>2 DEF Boosted, Restored

(***************************************************************************)
(* ... and what priorities they have then.                                 *)
(***************************************************************************)
LEMMA InheritedPrio ==
  ASSUME NEW s, NEW at, Sound(s, at), NEW x \in Thread, NEW p \in Prio, NEW n
  PROVE  /\ n = Boosted(s, x, p) =>
              \A y \in Thread : n.prio[y] = IF y = x /\ p < s.prio[x] THEN p ELSE s.prio[y]
         /\ n = Restored(s, x, p) =>
              \A y \in Thread : n.prio[y] = IF y = x THEN p ELSE s.prio[y]
  <1>1. PICK j : j = ChangePriority(s, x, p)
    OBVIOUS
  <1>2. \A y \in Thread : j.prio[y] = IF y = x THEN p ELSE s.prio[y]
    <2>1. KernelInv(s, {}) /\ x \notin {}
      BY DEF Sound
    <2>. QED  BY <2>1, <1>1, ChangePriorityInv
  <1>3. ASSUME n = Boosted(s, x, p), NEW y \in Thread
        PROVE  n.prio[y] = IF y = x /\ p < s.prio[x] THEN p ELSE s.prio[y]
    <2>1. n = IF p < s.prio[x] THEN j ELSE s
      BY <1>1, <1>3 DEF Boosted
    <2>. QED  BY <2>1, <1>2
  <1>4. ASSUME n = Restored(s, x, p), NEW y \in Thread
        PROVE  n.prio[y] = IF y = x THEN p ELSE s.prio[y]
    <2>1. n = IF p # s.prio[x] THEN j ELSE s
      BY <1>1, <1>4 DEF Restored
    <2>. QED  BY <2>1, <1>2
  <1>. QED  BY <1>3, <1>4

-----------------------------------------------------------------------------
(* Every step keeps the invariant *)

(***************************************************************************)
(* The invariant holds at the start: all the mutexes are free.             *)
(***************************************************************************)
LEMMA InitInv == Init => IInv
  <1> SUFFICES ASSUME Init PROVE IInv
    OBVIOUS
  <1>1. /\ Sound(k, pc) /\ Sleepers(k) = {} /\ pc \in [Thread -> {"run"}]
        /\ k.wait = [q \in Queue |-> << >>]
    BY InitSound DEF Init
  <1>2. /\ \A m \in Queue : k.wait[m] = << >> /\ Range(k.wait[m]) = {}
        /\ \A t \in Thread : pc[t] = "run" /\ want[t] = None
    BY <1>1 DEF Init, Range
  <1>3. Typed
    BY <1>2, <1>1, MutexAssumption DEF Init, Typed, IpcPC
  <1>4. Listed(k, pc, want)
    BY <1>1, <1>2 DEF Listed, Inside
  <1>5. Swept(k, pc, want, open)
    BY <1>2 DEF Swept, Sweeping
  <1>6. AccountOK(k, want)
    BY <1>1, <1>2 DEF Init, AccountOK, Account
  <1>7. GotOK(k, pc, want)
    <2>1. ASSUME NEW t \in Thread, NEW m \in Queue
          PROVE  /\ ~ Granted(k, pc, want, t, m)
                 /\ held[t][m] = 0 /\ owner[m] # t
      BY <1>2, MutexAssumption DEF Init, Granted
    <2>. QED  BY <2>1 DEF GotOK, Got
  <1>. QED  BY <1>1, <1>3, <1>4, <1>5, <1>6, <1>7 DEF IInv

(***************************************************************************)
(* What the invariant says of mutex m.                                     *)
(***************************************************************************)
LEMMA MutexFacts ==
  ASSUME IInv, NEW m \in Queue
  PROVE  /\ value[m] \in 0 .. 1 /\ hold[m] \in 0 .. HoldMax
         /\ owner[m] \in Thread \cup {None}
         /\ Account(k, want, m, value[m], owner[m], orig[m], hold[m])
         /\ \A t \in Thread : /\ held[t][m] \in 0 .. HoldMax
                              /\ Got(k, pc, want, t, m, held[t][m], owner[m], hold[m])
  BY DEF IInv, Typed, AccountOK, GotOK

(***************************************************************************)
(* The owner of a mutex that is at application code has got it as often as *)
(* hold says.                                                              *)
(***************************************************************************)
LEMMA OwnerFacts ==
  ASSUME IInv, NEW m \in Queue, NEW t \in Thread, \A n : ~ Granted(k, pc, want, t, n)
  PROVE  /\ owner[m] = t => held[t][m] = hold[m] /\ hold[m] # 0
         /\ owner[m] # t => held[t][m] = 0
  <1>1. /\ Account(k, want, m, value[m], owner[m], orig[m], hold[m])
        /\ Got(k, pc, want, t, m, held[t][m], owner[m], hold[m])
        /\ held[t][m] \in 0 .. HoldMax /\ HoldMax \in Nat
    BY MutexFacts, InvFacts
  <1>2. t # None
    BY InvFacts
  <1>. QED  BY <1>1, <1>2 DEF Account, Got

(***************************************************************************)
(* The hold of mutex m goes from h to g, by its owner t, who has got it    *)
(* that often more or less.                                                *)
(***************************************************************************)
LEMMA HoldChanged ==
  ASSUME IInv, NEW m \in Queue, NEW t \in Thread, owner[m] = t,
         \A n : ~ Granted(k, pc, want, t, n),
         NEW g \in 1 .. HoldMax,
         hold' = [hold EXCEPT ![m] = g], held' = [held EXCEPT ![t][m] = g],
         UNCHANGED << value, owner, orig, open, want, plain, pc >>,
         Calm(k, k', t), t \notin Sleepers(k), pc[t] = "run", Sound(k', pc')
  PROVE  IInv'
  <1>1. /\ Listed(k', pc', want') /\ Swept(k', pc', want', open) /\ AccountOK(k', want')
        /\ \A x \in Thread, n \in Queue :
             Granted(k', pc', want', x, n) <=> Granted(k, pc, want, x, n)
    <2>1. pc' = Moved(pc, t, "run") /\ want' = want /\ pc[t] \notin Inside
      BY InvFacts DEF Moved, Inside
    <2>. QED  BY <2>1, CalmStep
  <1>2. /\ hold \in [Queue -> 0 .. HoldMax] /\ held \in [Thread -> [Queue -> 0 .. HoldMax]]
        /\ HoldMax \in Nat /\ g # 0 /\ g \in 0 .. HoldMax
    BY InvFacts DEF IInv, Typed
  <1>3. /\ \A n \in Queue : hold'[n] = IF n = m THEN g ELSE hold[n]
        /\ \A x \in Thread, n \in Queue :
             held'[x][n] = IF x = t /\ n = m THEN g ELSE held[x][n]
    BY <1>2
  <1>4. Typed'
    <2>1. hold' \in [Queue -> 0 .. HoldMax] /\ held' \in [Thread -> [Queue -> 0 .. HoldMax]]
      BY <1>2
    <2>. QED  BY <2>1 DEF IInv, Typed
  <1>5. AccountOK(k, want)'
    <2>1. ASSUME NEW n \in Queue
          PROVE  Account(k', want', n, value'[n], owner'[n], orig'[n], hold'[n])
      <3>1. Account(k', want', n, value[n], owner[n], orig[n], hold[n])
        BY <1>1 DEF AccountOK
      <3>2. n = m => hold[n] # 0
        BY OwnerFacts
      <3>. QED  BY <3>1, <3>2, <1>2, <1>3 DEF Account
    <2>. QED  BY <2>1 DEF AccountOK
  <1>6. GotOK(k, pc, want)'
    <2>1. ASSUME NEW x \in Thread, NEW n \in Queue
          PROVE  Got(k', pc', want', x, n, held'[x][n], owner'[n], hold'[n])
      <3>1. Got(k, pc, want, x, n, held[x][n], owner[n], hold[n])
        BY MutexFacts
      <3>2. Got(k', pc', want', x, n, held[x][n], owner[n], hold[n])
        BY <3>1, <1>1, GotKept
      <3>3. CASE n # m
        BY <3>2, <3>3, <1>3
      <3>4. CASE n = m /\ x # t
        BY <3>2, <3>4, <1>3 DEF Got
      <3>5. CASE n = m /\ x = t
        <4>1. ~ Granted(k', pc', want', x, n)
          BY <3>5, <1>1
        <4>. QED  BY <4>1, <3>5, <1>2, <1>3 DEF Got
      <3>. QED  BY <3>3, <3>4, <3>5
    <2>. QED  BY <2>1 DEF GotOK
  <1>. QED  BY <1>1, <1>4, <1>5, <1>6 DEF IInv

(***************************************************************************)
(* The owner takes the mutex again, up to RT_MUTEX_HOLD_MAX.               *)
(***************************************************************************)
LEMMA StepTakeAgain ==
  ASSUME IInv, NEW t \in Thread, NEW m \in Queue, TakeAgain(t, m)
  PROVE  IInv'
  <1>1. /\ InCall(t, "take") /\ owner[m] = t /\ k' = ErrSet(k, t, "ok")
        /\ UNCHANGED << pc, value, owner, orig, open, want, plain >>
    BY DEF TakeAgain, Call, ErrorReset, ErrSet
  <1>2. /\ t \notin Sleepers(k) /\ pc[t] = "run"
        /\ \A n : ~ Granted(k, pc, want, t, n)
    BY <1>1, CallerFacts
  <1>3. Sound(k', pc) /\ Calm(k, k', t)
    <2>1. "ok" \in Err
      BY DEF Err
    <2>. QED  BY <2>1, <1>1, InvFacts, ErrorCalm
  <1>4. /\ held[t][m] = hold[m] /\ hold[m] # 0 /\ hold[m] \in 0 .. HoldMax /\ HoldMax \in Nat
    BY <1>1, <1>2, OwnerFacts, MutexFacts, InvFacts
  <1>5. \E g \in 1 .. HoldMax : /\ hold' = [hold EXCEPT ![m] = g]
                                /\ held' = [held EXCEPT ![t][m] = g]
    <2>1. CASE CanHold(m)
      <3>1. hold[m] + 1 \in 1 .. HoldMax
        BY <2>1, <1>4 DEF CanHold
      <3>. QED  BY <3>1, <2>1, <1>4 DEF TakeAgain
    <2>2. CASE ~ CanHold(m)
      <3>1. hold' = hold /\ held' = held
        BY <2>2 DEF TakeAgain
      <3>2. hold[m] \in 1 .. HoldMax
        BY <1>4
      <3>. QED  BY <3>1, <3>2, <1>4 DEF IInv, Typed
    <2>. QED  BY <2>1, <2>2
  <1>6. PICK g \in 1 .. HoldMax : /\ hold' = [hold EXCEPT ![m] = g]
                                  /\ held' = [held EXCEPT ![t][m] = g]
    BY <1>5
  <1>. QED  BY <1>1, <1>2, <1>3, <1>6, HoldChanged

(***************************************************************************)
(* A release that is not the last one.                                     *)
(***************************************************************************)
LEMMA StepReleaseInner ==
  ASSUME IInv, NEW t \in Thread, NEW m \in Queue, ReleaseInner(t, m)
  PROVE  IInv'
  <1>1. /\ InCall(t, "release") /\ owner[m] = t /\ k' = k /\ hold[m] > 1
        /\ UNCHANGED << pc, value, owner, orig, open, want, plain >>
    BY DEF ReleaseInner, Call
  <1>2. /\ t \notin Sleepers(k) /\ pc[t] = "run"
        /\ \A n : ~ Granted(k, pc, want, t, n)
    BY <1>1, CallerFacts
  <1>3. Sound(k', pc') /\ Calm(k, k', t)
    BY <1>1, InvFacts DEF Calm
  <1>4. /\ held[t][m] = hold[m] /\ hold[m] \in 0 .. HoldMax /\ HoldMax \in Nat
    BY <1>1, <1>2, OwnerFacts, MutexFacts, InvFacts
  <1>5. PICK g \in 1 .. HoldMax : g = hold[m] - 1
    BY <1>1, <1>4
  <1>6. hold' = [hold EXCEPT ![m] = g] /\ held' = [held EXCEPT ![t][m] = g]
    BY <1>4, <1>5 DEF ReleaseInner
  <1>. QED  BY <1>1, <1>2, <1>3, <1>6, HoldChanged

(***************************************************************************)
(* A call that fails at once changes the error of its caller only.         *)
(***************************************************************************)
LEMMA StepFails ==
  ASSUME IInv, NEW t \in Thread, NEW m \in Queue, TakeFails(t, m) \/ ReleaseRefused(t, m)
  PROVE  IInv'
  <1>1. PICK e \in {"timeout", "error"} : k' = ErrSet(k, t, e)
    BY DEF TakeFails, ReleaseRefused, ErrSet
  <1>2. /\ \E f : InCall(t, f)
        /\ UNCHANGED << pc, want, value, owner, orig, hold, open, held, plain >>
    BY DEF TakeFails, ReleaseRefused, Call, mvars
  <1>3. t \notin Sleepers(k) /\ pc[t] = "run"
    BY <1>2, CallerFacts
  <1>4. Sound(k', pc') /\ Calm(k, k', t)
    <2>1. e \in Err
      BY DEF Err
    <2>. QED  BY <2>1, <1>1, <1>2, InvFacts, ErrorCalm
  <1>5. /\ Listed(k', pc', want') /\ Swept(k', pc', want', open) /\ AccountOK(k', want')
        /\ \A x \in Thread, n \in Queue :
             Granted(k', pc', want', x, n) <=> Granted(k, pc, want, x, n)
    <2>1. pc' = Moved(pc, t, "run") /\ want' = want /\ pc[t] \notin Inside
      BY <1>2, <1>3, InvFacts DEF Moved, Inside
    <2>. QED  BY <2>1, <1>3, <1>4, CalmStep
  <1>6. AccountOK(k, want)' /\ Typed'
    BY <1>2, <1>5 DEF AccountOK, IInv, Typed
  <1>7. GotOK(k, pc, want)'
    <2>1. ASSUME NEW x \in Thread, NEW n \in Queue
          PROVE  Got(k', pc', want', x, n, held[x][n], owner[n], hold[n])
      BY <1>5, MutexFacts, GotKept
    <2>. QED  BY <2>1, <1>2 DEF GotOK
  <1>. QED  BY <1>2, <1>4, <1>5, <1>6, <1>7 DEF IInv

(***************************************************************************)
(* The mutex is free and the caller becomes its owner.                     *)
(***************************************************************************)
LEMMA StepTakeFree ==
  ASSUME IInv, NEW t \in Thread, NEW m \in Queue, TakeFree(t, m)
  PROVE  IInv'
  <1>1. /\ InCall(t, "take") /\ value[m] > 0 /\ k' = ErrSet(k, t, "ok")
        /\ value' = [value EXCEPT ![m] = @ - 1] /\ owner' = [owner EXCEPT ![m] = t]
        /\ orig' = [orig EXCEPT ![m] = k.prio[t]]
        /\ hold' = [hold EXCEPT ![m] = @ + 1] /\ held' = [held EXCEPT ![t][m] = @ + 1]
        /\ plain' = (plain /\ \A n \in Queue : owner[n] # t)
        /\ UNCHANGED << pc, open, want >>
    BY DEF TakeFree, Call, ErrorReset, ErrSet
  <1>2. /\ t \notin Sleepers(k) /\ pc[t] = "run"
        /\ \A n : ~ Granted(k, pc, want, t, n)
    BY <1>1, CallerFacts
  <1>3. Sound(k', pc') /\ Calm(k, k', t)
    <2>1. "ok" \in Err
      BY DEF Err
    <2>. QED  BY <2>1, <1>1, InvFacts, ErrorCalm
  <1>4. /\ Listed(k', pc', want') /\ Swept(k', pc', want', open) /\ AccountOK(k', want')
        /\ \A x \in Thread, n \in Queue :
             Granted(k', pc', want', x, n) <=> Granted(k, pc, want, x, n)
    <2>1. pc' = Moved(pc, t, "run") /\ want' = want /\ pc[t] \notin Inside
      BY <1>1, <1>2, InvFacts DEF Moved, Inside
    <2>. QED  BY <2>1, <1>2, <1>3, CalmStep
  <1>5. /\ value[m] = 1 /\ owner[m] = None /\ hold[m] = 0 /\ held[t][m] = 0
        /\ k.prio[t] \in Prio /\ t # None
    <2>1. value[m] = 1
      BY <1>1, MutexFacts
    <2>2. owner[m] = None /\ hold[m] = 0
      BY <2>1, MutexFacts DEF Account
    <2>. QED  BY <2>1, <2>2, <1>2, OwnerFacts, InvFacts
  <1>6. /\ \A n \in Queue : /\ value'[n] = IF n = m THEN 0 ELSE value[n]
                            /\ owner'[n] = IF n = m THEN t ELSE owner[n]
                            /\ orig'[n] = IF n = m THEN k.prio[t] ELSE orig[n]
                            /\ hold'[n] = IF n = m THEN 1 ELSE hold[n]
        /\ \A x \in Thread, n \in Queue :
             held'[x][n] = IF x = t /\ n = m THEN 1 ELSE held[x][n]
    BY <1>1, <1>5 DEF IInv, Typed
  <1>7. Typed'
    <2>1. value' = [value EXCEPT ![m] = 0] /\ hold' = [hold EXCEPT ![m] = 1]
          /\ held' = [held EXCEPT ![t][m] = 1]
      BY <1>1, <1>5 DEF IInv, Typed
    <2>2. 1 \in 0 .. HoldMax
      BY InvFacts
    <2>3. /\ value' \in [Queue -> 0 .. 1] /\ hold' \in [Queue -> 0 .. HoldMax]
          /\ owner' \in [Queue -> Thread \cup {None}]
          /\ orig' \in [Queue -> Prio \cup {Unowned}]
      BY <2>1, <2>2, <1>1, <1>5 DEF IInv, Typed
    <2>4. held' \in [Thread -> [Queue -> 0 .. HoldMax]]
      BY <2>1, <2>2 DEF IInv, Typed
    <2>. QED  BY <2>3, <2>4, <1>1 DEF IInv, Typed
  <1>8. AccountOK(k, want)'
    <2>1. ASSUME NEW n \in Queue
          PROVE  Account(k', want', n, value'[n], owner'[n], orig'[n], hold'[n])
      <3>1. CASE n = m
        <4>1. t \notin Sleepers(k')
          BY <1>2, <1>3 DEF Calm
        <4>. QED  BY <4>1, <3>1, <1>5, <1>6 DEF Account
      <3>2. CASE n # m
        BY <3>2, <1>4, <1>6 DEF AccountOK
      <3>. QED  BY <3>1, <3>2
    <2>. QED  BY <2>1 DEF AccountOK
  <1>9. GotOK(k, pc, want)'
    <2>1. ASSUME NEW x \in Thread, NEW n \in Queue
          PROVE  Got(k', pc', want', x, n, held'[x][n], owner'[n], hold'[n])
      <3>1. Got(k', pc', want', x, n, held[x][n], owner[n], hold[n])
        BY <1>4, MutexFacts, GotKept
      <3>2. CASE n # m
        BY <3>1, <3>2, <1>6
      <3>3. CASE n = m /\ x # t
        BY <3>1, <3>3, <1>5, <1>6, InvFacts DEF Got
      <3>4. CASE n = m /\ x = t
        <4>1. ~ Granted(k', pc', want', x, n)
          BY <3>4, <1>2, <1>4
        <4>. QED  BY <4>1, <3>4, <1>6 DEF Got
      <3>. QED  BY <3>2, <3>3, <3>4
    <2>. QED  BY <2>1 DEF GotOK
  <1>. QED  BY <1>1, <1>3, <1>4, <1>7, <1>8, <1>9 DEF IInv

(***************************************************************************)
(* The owner of the mutex inherits the priority of the caller, which       *)
(* blocks.                                                                 *)
(***************************************************************************)
LEMMA BoostThenBlock ==
  ASSUME IInv, NEW t \in Thread, NEW m \in Queue, NEW timeout, TakeWaits(t, m, timeout)
  PROVE  /\ Sound(k', pc') /\ Listed(k', pc', want')
         /\ Sleepers(k') = Sleepers(k) \cup {t} /\ t \notin Sleepers(k) /\ pc[t] = "run"
         /\ \A r \in Queue : r # m => k'.wait[r] = k.wait[r]
         /\ k'.armed \subseteq k.armed \cup {t}
         /\ \A x \in Thread \ {t} : k'.err[x] = k.err[x]
         /\ k'.wait[m] = InsertedByKey(k.wait[m], k'.prio, t)
         /\ \A x \in Thread :
              k'.prio[x] = IF x = owner[m] /\ k.prio[t] < k.prio[x] THEN k.prio[t] ELSE k.prio[x]
  <1>1. /\ InCall(t, "take") /\ value[m] = 0
        /\ k' = WaitOn(Boosted(ErrSet(k, t, "ok"), owner[m], k.prio[t]), m, t, "prio", timeout)
        /\ want' = [want EXCEPT ![t] = m] /\ pc' = Moved(pc, t, "block")
    BY DEF TakeWaits, Call, ErrorReset, ErrSet, Goto, Moved
  <1>2. t = k.cur /\ t # Idle /\ t \notin Sleepers(k) /\ pc[t] = "run" /\ want[t] = None
    BY <1>1, CallerFacts
  <1>3. owner[m] \in Thread /\ k.prio[t] \in Prio
    <2>1. value[m] # 1
      BY <1>1
    <2>2. owner[m] # None
      BY <2>1, MutexFacts DEF Account
    <2>. QED  BY <2>2, MutexFacts, InvFacts
  <1>4. PICK e : e = ErrSet(k, t, "ok")
    OBVIOUS
  <1>5. Sound(e, pc) /\ Calm(k, e, t) /\ e.cur = k.cur
    <2>1. "ok" \in Err
      BY DEF Err
    <2>2. Sound(k, pc)
      BY InvFacts
    <2>. QED  BY <2>1, <2>2, <1>4, ErrorCalm
  <1>6. PICK z : z = Boosted(e, owner[m], k.prio[t])
    OBVIOUS
  <1>7. Sound(z, pc) /\ z.cur = e.cur /\ Calm(e, z, t)
    <2>1. z \in {Boosted(e, owner[m], k.prio[t]), Restored(e, owner[m], k.prio[t])}
      BY <1>6
    <2>. QED  BY <2>1, <1>3, <1>5, InheritanceCalm
  <1>8. Calm(k, z, t)
    BY <1>5, <1>7 DEF Calm
  <1>9. Listed(z, pc, want)
    <2>1. /\ Sleepers(z) = Sleepers(k) /\ z.wait = k.wait
          /\ \A x \in Sleepers(k) : z.err[x] = k.err[x] /\ want[x] = want[x]
      BY <1>2, <1>8, InvFacts DEF Calm
    <2>2. \A x \in Thread : want[x] # None <=> pc[x] \in Inside
      BY InvFacts DEF Listed
    <2>. QED  BY <2>1, <2>2, InvFacts, ListedSame2
  <1>10. /\ t = z.cur /\ t \notin Sleepers(z)
    BY <1>2, <1>5, <1>7, <1>8 DEF Calm
  <1>11. Sound(k', pc') /\ BlocksOn(z, m, t, "prio", timeout, k')
    BY <1>1, <1>2, <1>4, <1>6, <1>7, <1>10, InvFacts, WaitOnSound
  <1>12. Listed(k', pc', want') /\ \A r \in Queue : r # m => k'.wait[r] = z.wait[r]
    <2>1. m # None
      BY InvFacts
    <2>2. \A x \in Thread : /\ pc'[x] = IF x = t THEN "block" ELSE pc[x]
                            /\ want'[x] = IF x = t THEN m ELSE want[x]
      BY <1>1, InvFacts DEF Moved
    <2>. QED  BY <2>1, <2>2, <1>7, <1>9, <1>10, <1>11, ListedJoined
  <1>13. /\ Sleepers(k') = Sleepers(z) \cup {t} /\ k'.err = [z.err EXCEPT ![t] = "ok"]
         /\ k'.armed \subseteq z.armed \cup {t}
    BY <1>11 DEF BlocksOn, FallsAsleep
  <1>14. \A x \in Thread \ {t} : k'.err[x] = k.err[x]
    <2>1. z.err \in [Thread -> Err]
      BY <1>7, SoundFacts
    <2>. QED  BY <2>1, <1>8, <1>13 DEF Calm
  <1>15. \A x \in Thread :
           k'.prio[x] = IF x = owner[m] /\ k.prio[t] < k.prio[x] THEN k.prio[t] ELSE k.prio[x]
    <2>1. e.prio = k.prio
      <3>1. "ok" \in Err /\ Sound(k, pc)
        BY InvFacts DEF Err
      <3>. QED  BY <3>1, <1>4, ErrorCalm
    <2>2. \A x \in Thread :
            z.prio[x] = IF x = owner[m] /\ k.prio[t] < e.prio[owner[m]] THEN k.prio[t] ELSE e.prio[x]
      BY <1>3, <1>5, <1>6, InheritedPrio
    <2>3. k'.prio = z.prio
      BY <1>11 DEF BlocksOn, FallsAsleep
    <2>. QED  BY <2>1, <2>2, <2>3
  <1>16. k'.wait[m] = InsertedByKey(k.wait[m], k'.prio, t)
    <2>1. z.wait = k.wait /\ k.wait \in [Queue -> Seq(Thread)]
      BY <1>8, InvFacts DEF Calm
    <2>2. /\ k'.wait = [z.wait EXCEPT ![m] = Joined(z.wait[m], z.prio, t, "prio")]
          /\ k'.prio = z.prio
      BY <1>11 DEF BlocksOn, FallsAsleep
    <2>. QED  BY <2>1, <2>2 DEF Joined
  <1>. QED  BY <1>2, <1>8, <1>11, <1>12, <1>13, <1>14, <1>15, <1>16 DEF Calm

(***************************************************************************)
(* rt_mutex_take of a mutex that another thread owns.                      *)
(***************************************************************************)
LEMMA StepTakeWaits ==
  ASSUME IInv, NEW t \in Thread, NEW m \in Queue, NEW timeout, TakeWaits(t, m, timeout)
  PROVE  IInv'
  <1>1. /\ value[m] = 0 /\ m \in open /\ owner[m] # t
        /\ want' = [want EXCEPT ![t] = m] /\ pc' = Moved(pc, t, "block")
        /\ plain' = (plain /\ \A n \in Queue : owner[n] # t)
        /\ UNCHANGED << value, owner, orig, hold, open, held >>
    BY DEF TakeWaits, Call, Goto, Moved
  <1>2. /\ Sound(k', pc') /\ Listed(k', pc', want')
        /\ Sleepers(k') = Sleepers(k) \cup {t} /\ t \notin Sleepers(k) /\ pc[t] = "run"
        /\ \A r \in Queue : r # m => k'.wait[r] = k.wait[r]
        /\ k'.armed \subseteq k.armed \cup {t}
        /\ \A x \in Thread \ {t} : k'.err[x] = k.err[x]
    BY BoostThenBlock
  <1>3. \A x \in Thread : /\ pc'[x] = IF x = t THEN "block" ELSE pc[x]
                          /\ want'[x] = IF x = t THEN m ELSE want[x]
    BY <1>1, InvFacts DEF Moved
  <1>4. Typed'
    BY <1>1 DEF IInv, Typed, Moved, IpcPC
  <1>5. Swept(k', pc', want', open)
    <2>1. Sweeping(pc') = Sweeping(pc) /\ t \notin Sweeping(pc)
      BY <1>2, <1>3 DEF Sweeping
    <2>2. ASSUME NEW u \in Sweeping(pc)
          PROVE  /\ pc'[u] = pc[u] /\ want'[u] = want[u] /\ want[u] \notin open
                 /\ k'.wait[want[u]] = k.wait[want[u]]
                 /\ Range(k.wait[want[u]]) \cap k'.armed \subseteq k.armed
      <3>1. u \in Thread /\ u # t /\ want[u] \in Queue /\ want[u] \notin open
        BY <2>1, InvFacts
      <3>2. t \notin Range(k.wait[want[u]])
        BY <3>1, <1>2, InvFacts, OwnList
      <3>. QED  BY <3>1, <3>2, <1>1, <1>2, <1>3
    <2>3. Swept(k, pc, want, open)
      BY DEF IInv
    <2>. QED  BY <2>1, <2>2, <2>3, SweptKept
  <1>6. AccountOK(k, want)'
    <2>1. ASSUME NEW n \in Queue
          PROVE  Account(k', want', n, value[n], owner[n], orig[n], hold[n])
      <3>1. Account(k, want, n, value[n], owner[n], orig[n], hold[n])
        BY MutexFacts
      <3>2. owner[n] \in Sleepers(k') =>
              want'[owner[n]] # n
                \/ (owner[n] \in Sleepers(k) /\ want'[owner[n]] = want[owner[n]])
        <4>1. CASE owner[n] = t
          BY <4>1, <1>1, <1>3
        <4>2. CASE owner[n] # t
          BY <4>2, <1>2, <1>3, InvFacts
        <4>. QED  BY <4>1, <4>2
      <3>3. CASE n # m
        BY <3>1, <3>2, <3>3, <1>2, AccountKept
      <3>4. CASE n = m
        BY <3>1, <3>2, <3>4, <1>1 DEF Account
      <3>. QED  BY <3>3, <3>4
    <2>. QED  BY <2>1, <1>1 DEF AccountOK
  <1>7. GotOK(k, pc, want)'
    <2>1. ASSUME NEW x \in Thread, NEW n \in Queue
          PROVE  Got(k', pc', want', x, n, held[x][n], owner[n], hold[n])
      <3>1. Granted(k', pc', want', x, n) <=> Granted(k, pc, want, x, n)
        <4>1. CASE x = t
          BY <4>1, <1>2 DEF Granted
        <4>2. CASE x # t
          BY <4>2, <1>2, <1>3 DEF Granted
        <4>. QED  BY <4>1, <4>2
      <3>. QED  BY <3>1, MutexFacts, GotKept
    <2>. QED  BY <2>1, <1>1 DEF GotOK
  <1>. QED  BY <1>1, <1>2, <1>4, <1>5, <1>6, <1>7 DEF IInv

(***************************************************************************)
(* rt_mutex_take returns: a thread that was woken as the new owner has got *)
(* the mutex once.                                                         *)
(***************************************************************************)
LEMMA StepTakeReturns ==
  ASSUME IInv, NEW t \in Thread, TakeReturns(t)
  PROVE  IInv'
  <1>1. /\ t = k.cur /\ pc[t] = "woken" /\ pc' = Moved(pc, t, "run") /\ k' = k
        /\ held' = (IF k.err[t] = "ok" THEN [held EXCEPT ![t][want[t]] = @ + 1] ELSE held)
        /\ want' = [want EXCEPT ![t] = None]
        /\ UNCHANGED << value, owner, orig, hold, open, plain >>
    BY DEF TakeReturns, Goto, Moved
  <1>2. t \notin Sleepers(k) /\ t # Idle
    BY <1>1, InvFacts, CurrentAwake
  <1>3. PICK m : m = want[t]
    OBVIOUS
  <1>4. m \in Queue
    BY <1>1, <1>3, InvFacts DEF Inside
  <1>5. \A x \in Thread : /\ pc'[x] = IF x = t THEN "run" ELSE pc[x]
                          /\ want'[x] = IF x = t THEN None ELSE want[x]
    BY <1>1, InvFacts DEF Moved
  <1>6. Sound(k', pc')
    BY <1>1, <1>2, InvFacts, MoveSound
  <1>7. Listed(k', pc', want')
    <2>1. \A x \in Sleepers(k) : k'.err[x] = k.err[x] /\ want'[x] = want[x]
      BY <1>1, <1>2, <1>5, InvFacts
    <2>2. \A x \in Thread : want'[x] # None <=> pc'[x] \in Inside
      BY <1>5, InvFacts DEF Listed, Inside
    <2>3. Sleepers(k') = Sleepers(k) /\ k'.wait = k.wait /\ Listed(k, pc, want)
      BY <1>1, InvFacts
    <2>. QED  BY <2>1, <2>2, <2>3, ListedSame2
  <1>8. Swept(k', pc', want', open')
    <2>1. Sweeping(pc') = Sweeping(pc) /\ t \notin Sweeping(pc)
      BY <1>1, <1>5 DEF Sweeping
    <2>2. \A u \in Sweeping(pc) :
            /\ pc'[u] = pc[u] /\ want'[u] = want[u] /\ want[u] \notin open'
            /\ k'.wait[want[u]] = k.wait[want[u]]
            /\ Range(k.wait[want[u]]) \cap k'.armed \subseteq k.armed
      BY <2>1, <1>1, <1>5, InvFacts
    <2>3. Swept(k, pc, want, open)
      BY DEF IInv
    <2>. QED  BY <2>1, <2>2, <2>3, SweptKept
  <1>9. AccountOK(k, want)'
    <2>1. ASSUME NEW n \in Queue
          PROVE  Account(k', want', n, value[n], owner[n], orig[n], hold[n])
      <3>1. owner[n] \in Sleepers(k') =>
              owner[n] \in Sleepers(k) /\ want'[owner[n]] = want[owner[n]]
        BY <1>1, <1>2, <1>5, InvFacts
      <3>. QED  BY <3>1, <1>1, MutexFacts, AccountKept
    <2>. QED  BY <2>1, <1>1 DEF AccountOK
  <1>10. \A x \in Thread, n \in Queue :
           Granted(k', pc', want', x, n) <=> Granted(k, pc, want, x, n) /\ x # t
    BY <1>1, <1>5 DEF Granted
  <1>11. \A n \in Queue : Granted(k, pc, want, t, n) <=> n = m /\ k.err[t] = "ok"
    BY <1>1, <1>2, <1>3 DEF Granted
  <1>12. \A x \in Thread, n \in Queue :
           held'[x][n] = IF x = t /\ n = m /\ k.err[t] = "ok" THEN held[x][n] + 1 ELSE held[x][n]
    BY <1>1, <1>3, <1>4 DEF IInv, Typed
  <1>13. ASSUME k.err[t] = "ok"
         PROVE  held[t][m] + 1 \in 0 .. HoldMax
    <2>1. Got(k, pc, want, t, m, held[t][m], owner[m], hold[m])
      BY <1>4, MutexFacts
    <2>2. held[t][m] \in 0 .. HoldMax /\ hold[m] \in 0 .. HoldMax /\ HoldMax \in Nat
      BY <1>4, MutexFacts, InvFacts
    <2>. QED  BY <2>1, <2>2, <1>4, <1>11, <1>13 DEF Got
  <1>14. Typed'
    <2>1. held' \in [Thread -> [Queue -> 0 .. HoldMax]]
      BY <1>1, <1>3, <1>4, <1>13 DEF IInv, Typed
    <2>2. want' \in [Thread -> Queue \cup {None}] /\ pc' \in [Thread -> IpcPC]
      BY <1>1, InvFacts DEF Moved, IpcPC
    <2>. QED  BY <2>1, <2>2, <1>1 DEF IInv, Typed
  <1>15. GotOK(k, pc, want)'
    <2>1. ASSUME NEW x \in Thread, NEW n \in Queue
          PROVE  Got(k', pc', want', x, n, held'[x][n], owner[n], hold[n])
      <3>1. /\ Got(k, pc, want, x, n, held[x][n], owner[n], hold[n])
            /\ held[x][n] \in 0 .. HoldMax
        BY MutexFacts
      <3>2. CASE x = t /\ n = m /\ k.err[t] = "ok"
        BY <3>1, <3>2, <1>10, <1>11, <1>12 DEF Got
      <3>3. CASE ~ (x = t /\ n = m /\ k.err[t] = "ok")
        <4>1. Granted(k', pc', want', x, n) <=> Granted(k, pc, want, x, n)
          BY <3>3, <1>10, <1>11
        <4>2. held'[x][n] = held[x][n]
          BY <3>3, <1>12
        <4>. QED  BY <3>1, <4>1, <4>2, GotKept
      <3>. QED  BY <3>2, <3>3
    <2>. QED  BY <2>1, <1>1 DEF GotOK
  <1>. QED  BY <1>6, <1>7, <1>8, <1>9, <1>14, <1>15 DEF IInv

(***************************************************************************)
(* The last release of a mutex nobody waits for: it becomes free.          *)
(***************************************************************************)
LEMMA StepReleaseFree ==
  ASSUME IInv, NEW t \in Thread, NEW m \in Queue, ReleaseLast(t, m), k.wait[m] = << >>
  PROVE  IInv'
  <1>1. /\ InCall(t, "release") /\ owner[m] = t /\ hold[m] = 1
        /\ k' = Restored(k, t, orig[m])
        /\ owner' = [owner EXCEPT ![m] = None] /\ value' = [value EXCEPT ![m] = @ + 1]
        /\ hold' = [hold EXCEPT ![m] = 0] /\ orig' = [orig EXCEPT ![m] = Unowned]
        /\ held' = [held EXCEPT ![t][m] = 0]
        /\ UNCHANGED << pc, open, want, plain >>
    BY DEF ReleaseLast, Call, NewOwner, ValueAfter
  <1>2. /\ t \notin Sleepers(k) /\ pc[t] = "run"
        /\ \A n : ~ Granted(k, pc, want, t, n)
    BY <1>1, CallerFacts
  <1>3. /\ value[m] = 0 /\ orig[m] \in Prio /\ t # None
    <2>1. t # None
      BY InvFacts
    <2>. QED  BY <2>1, <1>1, MutexFacts DEF Account
  <1>4. Sound(k', pc') /\ Calm(k, k', t)
    <2>1. Sound(k, pc) /\ k' \in {Boosted(k, t, orig[m]), Restored(k, t, orig[m])}
      BY <1>1, InvFacts
    <2>. QED  BY <2>1, <1>1, <1>3, InheritanceCalm
  <1>5. /\ Listed(k', pc', want') /\ Swept(k', pc', want', open) /\ AccountOK(k', want')
        /\ \A x \in Thread, n \in Queue :
             Granted(k', pc', want', x, n) <=> Granted(k, pc, want, x, n)
    <2>1. pc' = Moved(pc, t, "run") /\ want' = want /\ pc[t] \notin Inside
      BY <1>1, <1>2, InvFacts DEF Moved, Inside
    <2>. QED  BY <2>1, <1>2, <1>4, CalmStep
  <1>6. /\ \A n \in Queue : /\ value'[n] = IF n = m THEN 1 ELSE value[n]
                            /\ owner'[n] = IF n = m THEN None ELSE owner[n]
                            /\ orig'[n] = IF n = m THEN Unowned ELSE orig[n]
                            /\ hold'[n] = IF n = m THEN 0 ELSE hold[n]
        /\ \A x \in Thread, n \in Queue :
             held'[x][n] = IF x = t /\ n = m THEN 0 ELSE held[x][n]
    BY <1>1, <1>3 DEF IInv, Typed
  <1>7. Typed'
    <2>1. value' = [value EXCEPT ![m] = 1] /\ 0 \in 0 .. HoldMax
      BY <1>1, <1>3, InvFacts DEF IInv, Typed
    <2>2. /\ value' \in [Queue -> 0 .. 1] /\ hold' \in [Queue -> 0 .. HoldMax]
          /\ owner' \in [Queue -> Thread \cup {None}]
          /\ orig' \in [Queue -> Prio \cup {Unowned}]
      BY <2>1, <1>1 DEF IInv, Typed
    <2>3. held' \in [Thread -> [Queue -> 0 .. HoldMax]]
      BY <2>1, <1>1 DEF IInv, Typed
    <2>. QED  BY <2>2, <2>3, <1>1 DEF IInv, Typed
  <1>8. AccountOK(k, want)'
    <2>1. ASSUME NEW n \in Queue
          PROVE  Account(k', want', n, value'[n], owner'[n], orig'[n], hold'[n])
      <3>1. CASE n = m
        <4>1. k'.wait[m] = << >> /\ None \notin Sleepers(k')
          BY <1>4, InvFacts DEF Calm
        <4>. QED  BY <4>1, <3>1, <1>6 DEF Account
      <3>2. CASE n # m
        BY <3>2, <1>5, <1>6 DEF AccountOK
      <3>. QED  BY <3>1, <3>2
    <2>. QED  BY <2>1 DEF AccountOK
  <1>9. GotOK(k, pc, want)'
    <2>1. ASSUME NEW x \in Thread, NEW n \in Queue
          PROVE  Got(k', pc', want', x, n, held'[x][n], owner'[n], hold'[n])
      <3>1. Got(k', pc', want', x, n, held[x][n], owner[n], hold[n])
        BY <1>5, MutexFacts, GotKept
      <3>2. CASE n # m
        BY <3>1, <3>2, <1>6
      <3>3. CASE n = m /\ x # t
        <4>1. x # None
          BY InvFacts
        <4>. QED  BY <4>1, <3>1, <3>3, <1>1, <1>6 DEF Got
      <3>4. CASE n = m /\ x = t
        <4>1. ~ Granted(k', pc', want', x, n)
          BY <3>4, <1>2, <1>5
        <4>. QED  BY <4>1, <3>4, <1>3, <1>6 DEF Got
      <3>. QED  BY <3>2, <3>3, <3>4
    <2>. QED  BY <2>1 DEF GotOK
  <1>. QED  BY <1>1, <1>4, <1>5, <1>7, <1>8, <1>9 DEF IInv

(***************************************************************************)
(* The first waiter is woken, and the caller is about to call rt_schedule. *)
(***************************************************************************)
LEMMA RestoreThenResume ==
  ASSUME IInv, NEW t \in Thread, NEW m \in Queue, ReleaseLast(t, m), k.wait[m] # << >>,
         NEW x, x = Head(k.wait[m])
  PROVE  /\ Sound(k', pc') /\ Listed(k', pc', want') /\ pc' = Moved(pc, t, "sched")
         /\ Sleepers(k') = Sleepers(k) \ {x} /\ x \in Sleepers(k) /\ want[x] = m
         /\ pc[x] \in {"block", "woken"} /\ k.err[x] = "ok"
         /\ t \notin Sleepers(k) /\ pc[t] = "run"
         /\ k'.armed \subseteq k.armed /\ k'.err = k.err
         /\ \A n \in Queue : /\ n # m => k'.wait[n] = k.wait[n]
                             /\ k.wait[n] = << >> => k'.wait[n] = << >>
         /\ k'.wait[m] = Unlinked(k.wait[m], x)
         /\ \A y \in Thread : k'.prio[y] = IF y = t THEN orig[m] ELSE k.prio[y]
  <1>1. /\ InCall(t, "release") /\ owner[m] = t
        /\ NewOwner(m) = x
        /\ pc' = Moved(pc, t, IF x = None THEN "run" ELSE "sched") \/ x = None
        /\ k' = ResumeFirst(Restored(k, t, orig[m]), m) \/ x = None
        /\ want' = want
    BY DEF ReleaseLast, Call, NewOwner, Goto, Moved
  <1>2. t = k.cur /\ t # Idle /\ t \notin Sleepers(k) /\ pc[t] = "run" /\ want[t] = None
    BY <1>1, CallerFacts
  <1>3. /\ x \in Range(k.wait[m]) /\ x \in Sleepers(k) /\ want[x] = m /\ x \in Thread
        /\ x # None /\ k.err[x] = "ok"
    <2>1. Sound(k, pc) /\ Listed(k, pc, want) /\ None \notin Thread
      BY InvFacts
    <2>2. x \in Range(k.wait[m])
      BY <2>1, OwnList, HeadFacts
    <2>. QED  BY <2>1, <2>2, OwnList DEF Listed
  <1>4. pc[x] \in {"block", "woken"}
    <2>1. pc[x] \in Inside /\ pc[x] \in {"block", "woken", "nap", "slept"}
      BY <1>3, InvFacts DEF Sound, Control
    <2>. QED  BY <2>1 DEF Inside
  <1>5. pc' = Moved(pc, t, "sched") /\ k' = ResumeFirst(Restored(k, t, orig[m]), m)
    BY <1>1, <1>3
  <1>6. orig[m] \in Prio
    <2>1. owner[m] # None
      BY <1>1, InvFacts
    <2>. QED  BY <2>1, MutexFacts DEF Account
  <1>7. PICK z : z = Restored(k, t, orig[m])
    OBVIOUS
  <1>8. Sound(z, pc) /\ z.cur = k.cur /\ Calm(k, z, t) /\ z.err = k.err
    <2>1. Sound(k, pc) /\ z \in {Boosted(k, t, orig[m]), Restored(k, t, orig[m])}
      BY <1>7, InvFacts
    <2>2. t \in Thread /\ orig[m] \in Prio
      BY <1>6
    <2>3. Sound(z, pc) /\ z.cur = k.cur /\ z.err = k.err /\ \A y : Calm(k, z, y)
      BY ONLY <2>1, <2>2, InheritanceCalm
    <2>. QED  BY <2>3
  <1>9. Sleepers(z) = Sleepers(k) /\ z.wait = k.wait /\ z.armed = k.armed
    BY <1>8 DEF Calm
  <1>10. Listed(z, pc, want)
    <2>1. \A y \in Thread : want[y] # None <=> pc[y] \in Inside
      BY InvFacts DEF Listed
    <2>2. Listed(k, pc, want)
      BY InvFacts
    <2>. QED  BY <2>1, <2>2, <1>8, <1>9, ListedSame2
  <1>11. k' = Resume(z, x)
    BY <1>5, <1>7, <1>9 DEF ResumeFirst
  <1>12. Sound(k', pc) /\ Awake(z, x, k') /\ k'.err = z.err
    BY <1>3, <1>8, <1>9, <1>11, ResumeSound
  <1>13. /\ Listed(k', pc, want)
         /\ \A n \in Queue : /\ want[x] # n => k'.wait[n] = z.wait[n]
                             /\ z.wait[n] = << >> => k'.wait[n] = << >>
    <2>1. x \in Sleepers(z) /\ \A y \in Thread \ {x} : k'.err[y] = z.err[y]
      BY <1>3, <1>9, <1>12
    <2>. QED  BY <2>1, <1>8, <1>10, <1>12, ListedWithout
  <1>14. Sleepers(k') = Sleepers(k) \ {x} /\ k'.armed \subseteq k.armed
    BY <1>9, <1>12 DEF Awake
  <1>15. Sound(k', pc')
    BY <1>2, <1>5, <1>12, <1>14, InvFacts, MoveSound
  <1>16. Listed(k', pc', want')
    <2>1. \A y \in Thread : want'[y] # None <=> pc'[y] \in Inside
      BY <1>1, <1>2, <1>5, InvFacts DEF Listed, Inside, Moved
    <2>2. \A y \in Sleepers(k') : k'.err[y] = k'.err[y] /\ want'[y] = want[y]
      BY <1>1
    <2>. QED  BY <2>1, <2>2, <1>13, ListedSame2
  <1>17. k'.wait[m] = Unlinked(k.wait[m], x)
    BY <1>9, <1>12 DEF Awake, WaitsWithout
  <1>18. \A y \in Thread : k'.prio[y] = IF y = t THEN orig[m] ELSE k.prio[y]
    <2>1. \A y \in Thread : z.prio[y] = IF y = t THEN orig[m] ELSE k.prio[y]
      <3>1. Sound(k, pc)
        BY InvFacts
      <3>. QED  BY <3>1, <1>6, <1>7, InheritedPrio
    <2>. QED  BY <2>1, <1>12 DEF Awake
  <1>. QED  BY <1>2, <1>3, <1>4, <1>5, <1>8, <1>9, <1>12, <1>13, <1>14, <1>15, <1>16, <1>17, <1>18

(***************************************************************************)
(* The last release of a mutex with waiters: the first of them owns it.    *)
(***************************************************************************)
LEMMA StepReleaseHands ==
  ASSUME IInv, NEW t \in Thread, NEW m \in Queue, ReleaseLast(t, m), k.wait[m] # << >>
  PROVE  IInv'
  <1>1. PICK x : x = Head(k.wait[m])
    OBVIOUS
  <1>2. /\ Sound(k', pc') /\ Listed(k', pc', want') /\ pc' = Moved(pc, t, "sched")
        /\ Sleepers(k') = Sleepers(k) \ {x} /\ x \in Sleepers(k) /\ want[x] = m
        /\ pc[x] \in {"block", "woken"} /\ k.err[x] = "ok"
        /\ t \notin Sleepers(k) /\ pc[t] = "run"
        /\ k'.armed \subseteq k.armed /\ k'.err = k.err
        /\ \A n \in Queue : /\ n # m => k'.wait[n] = k.wait[n]
                            /\ k.wait[n] = << >> => k'.wait[n] = << >>
    BY <1>1, RestoreThenResume
  <1>3. x \in Thread /\ x # None /\ x # t /\ k.prio[x] \in Prio
    BY <1>2, InvFacts
  <1>4. /\ InCall(t, "release") /\ m \in open /\ owner[m] = t /\ hold[m] = 1
        /\ owner' = [owner EXCEPT ![m] = x] /\ value' = [value EXCEPT ![m] = value[m]]
        /\ orig' = [orig EXCEPT ![m] = k.prio[x]] /\ held' = [held EXCEPT ![t][m] = 0]
        /\ UNCHANGED << hold, open, want, plain >>
    BY <1>1, <1>3 DEF ReleaseLast, Call, NewOwner, ValueAfter
  <1>5. \A n : ~ Granted(k, pc, want, t, n)
    BY <1>4, CallerFacts
  <1>6. \A y \in Thread : pc'[y] = IF y = t THEN "sched" ELSE pc[y]
    BY <1>2, InvFacts DEF Moved
  <1>7. /\ \A n \in Queue : /\ value'[n] = value[n]
                            /\ owner'[n] = IF n = m THEN x ELSE owner[n]
                            /\ orig'[n] = IF n = m THEN k.prio[x] ELSE orig[n]
        /\ \A y \in Thread, n \in Queue :
             held'[y][n] = IF y = t /\ n = m THEN 0 ELSE held[y][n]
    BY <1>4 DEF IInv, Typed
  <1>8. Typed'
    <2>1. /\ value' \in [Queue -> 0 .. 1] /\ owner' \in [Queue -> Thread \cup {None}]
          /\ orig' \in [Queue -> Prio \cup {Unowned}]
      BY <1>3, <1>4 DEF IInv, Typed
    <2>2. held' \in [Thread -> [Queue -> 0 .. HoldMax]]
      <3>1. 0 \in 0 .. HoldMax
        BY InvFacts
      <3>. QED  BY <3>1, <1>4 DEF IInv, Typed
    <2>3. pc' \in [Thread -> IpcPC]
      BY <1>2, InvFacts DEF Moved, IpcPC
    <2>. QED  BY <2>1, <2>2, <2>3, <1>4 DEF IInv, Typed
  <1>9. Swept(k', pc', want', open')
    <2>1. Sweeping(pc') = Sweeping(pc) /\ t \notin Sweeping(pc)
      BY <1>2, <1>6 DEF Sweeping
    <2>2. \A u \in Sweeping(pc) :
            /\ pc'[u] = pc[u] /\ want'[u] = want[u] /\ want[u] \notin open'
            /\ k'.wait[want[u]] = k.wait[want[u]]
            /\ Range(k.wait[want[u]]) \cap k'.armed \subseteq k.armed
      <3>1. \A u \in Sweeping(pc) : u \in Thread /\ want[u] \in Queue /\ want[u] \notin open
        BY InvFacts
      <3>. QED  BY <3>1, <2>1, <1>2, <1>4, <1>6
    <2>3. Swept(k, pc, want, open)
      BY DEF IInv
    <2>. QED  BY <2>1, <2>2, <2>3, SweptKept
  <1>10. AccountOK(k, want)'
    <2>1. ASSUME NEW n \in Queue
          PROVE  Account(k', want', n, value'[n], owner'[n], orig'[n], hold'[n])
      <3>1. Account(k, want, n, value[n], owner[n], orig[n], hold[n])
        BY MutexFacts
      <3>2. CASE n = m
        <4>1. x \notin Sleepers(k') /\ t # None
          BY <1>2, InvFacts
        <4>. QED  BY <4>1, <3>1, <3>2, <1>3, <1>4, <1>7 DEF Account
      <3>3. CASE n # m
        BY <3>1, <3>3, <1>2, <1>4, <1>7 DEF Account
      <3>. QED  BY <3>2, <3>3
    <2>. QED  BY <2>1 DEF AccountOK
  <1>11. \A y \in Thread, n \in Queue :
           Granted(k', pc', want', y, n) <=>
             Granted(k, pc, want, y, n) \/ (y = x /\ n = m)
    <2>1. ASSUME NEW y \in Thread, NEW n \in Queue
          PROVE  Granted(k', pc', want', y, n) <=>
                   Granted(k, pc, want, y, n) \/ (y = x /\ n = m)
      <3>1. CASE y = t
        BY <3>1, <1>2, <1>3, <1>5, <1>6 DEF Granted
      <3>2. CASE y = x
        BY <3>2, <1>2, <1>3, <1>4, <1>6 DEF Granted
      <3>3. CASE y # t /\ y # x
        BY <3>3, <1>2, <1>4, <1>6 DEF Granted
      <3>. QED  BY <3>1, <3>2, <3>3
    <2>. QED  BY <2>1
  <1>12. GotOK(k, pc, want)'
    <2>1. ASSUME NEW y \in Thread, NEW n \in Queue
          PROVE  Got(k', pc', want', y, n, held'[y][n], owner'[n], hold[n])
      <3>1. Got(k, pc, want, y, n, held[y][n], owner[n], hold[n]) /\ held[y][n] \in 0 .. HoldMax
        BY MutexFacts
      <3>2. CASE n # m
        BY <3>1, <3>2, <1>7, <1>11 DEF Got
      <3>3. CASE n = m /\ y = t
        BY <3>3, <1>3, <1>5, <1>7, <1>11 DEF Got
      <3>4. CASE n = m /\ y = x
        <4>1. ~ Granted(k, pc, want, y, n)
          BY <3>4, <1>2 DEF Granted
        <4>2. held[y][n] = 0
          BY <4>1, <3>1, <3>4, <1>3, <1>4, InvFacts DEF Got
        <4>. QED  BY <4>2, <3>4, <1>3, <1>4, <1>7, <1>11 DEF Got
      <3>5. CASE n = m /\ y # t /\ y # x
        BY <3>1, <3>5, <1>4, <1>7, <1>11 DEF Got
      <3>. QED  BY <3>2, <3>3, <3>4, <3>5
    <2>. QED  BY <2>1, <1>4 DEF GotOK
  <1>. QED  BY <1>2, <1>8, <1>9, <1>10, <1>12 DEF IInv

(***************************************************************************)
(* A step that changes no field of a mutex, lets no thread wait and hands  *)
(* no mutex over keeps what the fields tell.                               *)
(***************************************************************************)
LEMMA FieldsKept ==
  ASSUME IInv, UNCHANGED << value, owner, orig, hold, held >>,
         pc' \in [Thread -> IpcPC], want' \in [Thread -> Queue \cup {None}],
         open' \subseteq Queue, plain' \in BOOLEAN,
         Sound(k', pc'), Listed(k', pc', want'), Swept(k', pc', want', open'),
         \A m \in Queue : k.wait[m] = << >> => k'.wait[m] = << >>,
         \A x \in Sleepers(k') :
           want'[x] = None \/ (x \in Sleepers(k) /\ want'[x] = want[x]),
         \A x \in Thread, m \in Queue :
           Granted(k', pc', want', x, m) <=> Granted(k, pc, want, x, m)
  PROVE  IInv'
  <1>1. Typed'
    BY DEF IInv, Typed
  <1>2. AccountOK(k, want)'
    <2>1. ASSUME NEW m \in Queue
          PROVE  Account(k', want', m, value[m], owner[m], orig[m], hold[m])
      <3>1. Account(k, want, m, value[m], owner[m], orig[m], hold[m]) /\ m # None
        BY MutexFacts, InvFacts
      <3>. QED  BY <3>1, AccountKept
    <2>. QED  BY <2>1 DEF AccountOK
  <1>3. GotOK(k, pc, want)'
    <2>1. ASSUME NEW x \in Thread, NEW m \in Queue
          PROVE  Got(k', pc', want', x, m, held[x][m], owner[m], hold[m])
      BY MutexFacts, GotKept
    <2>. QED  BY <2>1 DEF GotOK
  <1>. QED  BY <1>1, <1>2, <1>3 DEF IInv

(***************************************************************************)
(* rt_mutex_detach closes the mutex and goes to the loop that wakes the    *)
(* waiters, none of which has a running timer.                             *)
(***************************************************************************)
LEMMA StepDetach ==
  ASSUME IInv, NEW t \in Thread, NEW m \in Queue, Detach(t, m)
  PROVE  IInv'
  <1>1. /\ InCall(t, "detach") /\ m \in open /\ Waiting(m) \cap k.armed = {}
        /\ open' = open \ {m} /\ want' = [want EXCEPT ![t] = m] /\ pc' = Moved(pc, t, "test")
        /\ plain' = (plain /\ owner[m] = None) /\ k' = k
        /\ UNCHANGED << value, owner, orig, hold, held >>
    BY DEF Detach, Call, Goto, Moved
  <1>2. /\ t = k.cur /\ t # Idle /\ t \notin Sleepers(k) /\ pc[t] = "run"
        /\ want[t] = None
    BY <1>1, CallerFacts
  <1>3. \A x \in Thread : /\ pc'[x] = IF x = t THEN "test" ELSE pc[x]
                          /\ want'[x] = IF x = t THEN m ELSE want[x]
    BY <1>1, InvFacts DEF Moved
  <1>4. /\ pc' \in [Thread -> IpcPC] /\ want' \in [Thread -> Queue \cup {None}]
        /\ open' \subseteq Queue /\ plain' \in BOOLEAN
    <2>1. open \subseteq Queue /\ plain \in BOOLEAN
      BY DEF IInv, Typed
    <2>. QED  BY <2>1, <1>1, InvFacts DEF Moved, IpcPC
  <1>5. Sound(k', pc')
    BY <1>1, <1>2, InvFacts, MoveSound
  <1>6. Sleepers(k') = Sleepers(k) /\ k'.wait = k.wait
    BY <1>1
  <1>7. \A x \in Sleepers(k) : /\ x \in Thread /\ x # t
                               /\ k'.err[x] = k.err[x] /\ want'[x] = want[x]
    BY <1>1, <1>2, <1>3, InvFacts
  <1>8. Listed(k', pc', want')
    <2>1. \A x \in Thread : want'[x] # None <=> pc'[x] \in Inside
      BY <1>3, InvFacts DEF Listed, Inside
    <2>2. Listed(k, pc, want)
      BY InvFacts
    <2>. QED  BY <2>1, <2>2, <1>6, <1>7, ListedSame2
  <1>9. Swept(k', pc', want', open')
    <2>1. \A u \in Sweeping(pc') : u = t \/ (u \in Sweeping(pc) /\ u # t)
      BY <1>3 DEF Sweeping
    <2>2. \A u \in Sweeping(pc) : u \in Thread /\ want[u] \notin open /\ want[u] # m
      BY <1>1, InvFacts
    <2>3. Swept(k, pc, want, open)
      BY DEF IInv
    <2>4. ASSUME NEW u \in Sweeping(pc')
          PROVE  /\ want'[u] \notin open' /\ Range(k.wait[want'[u]]) \cap k.armed = {}
                 /\ pc'[u] = "flush" => k.wait[want'[u]] # << >>
                 /\ \A v \in Sweeping(pc') : want'[v] = want'[u] => v = u
      <3>1. CASE u = t
        BY <3>1, <2>1, <2>2, <1>1, <1>3 DEF Waiting
      <3>2. CASE u # t
        <4>1. u \in Sweeping(pc) /\ u \in Thread /\ want'[u] = want[u] /\ pc'[u] = pc[u]
              /\ want[u] # m
          BY <3>2, <2>1, <2>2, <1>3
        <4>2. \A v \in Sweeping(pc') : want'[v] = want'[u] => v = u
          BY <4>1, <2>1, <2>2, <2>3, <1>3 DEF Swept
        <4>. QED  BY <4>1, <4>2, <2>3, <1>1 DEF Swept
      <3>. QED  BY <3>1, <3>2
    <2>. QED  BY <2>4, <1>1 DEF Swept
  <1>10. \A x \in Thread, n \in Queue :
           Granted(k', pc', want', x, n) <=> Granted(k, pc, want, x, n)
    BY <1>1, <1>2, <1>3 DEF Granted
  <1>. QED  BY <1>1, <1>4, <1>5, <1>6, <1>7, <1>8, <1>9, <1>10, FieldsKept

(***************************************************************************)
(* What is known of the thread that empties the list of mutex m.           *)
(***************************************************************************)
LEMMA SweeperFacts ==
  ASSUME IInv, NEW t \in Thread, pc[t] \in {"test", "flush"}
  PROVE  /\ want[t] \in Queue /\ t \in Sweeping(pc) /\ want[t] \notin open
         /\ Range(k.wait[want[t]]) \cap k.armed = {}
         /\ \A u \in Sweeping(pc) : u # t => want[u] # want[t]
         /\ pc[t] = "flush" => k.wait[want[t]] # << >>
  <1>1. Swept(k, pc, want, open)
    BY DEF IInv
  <1>2. want[t] \in Queue
    BY InvFacts DEF Inside
  <1>. QED  BY <1>1, <1>2 DEF Swept, Sweeping

(***************************************************************************)
(* The test of the loop.                                                   *)
(***************************************************************************)
LEMMA StepTest ==
  ASSUME IInv, NEW t \in Thread, TestWaiters(t)
  PROVE  IInv'
  <1>1. PICK m : m = want[t]
    OBVIOUS
  <1>2. /\ TestList(t, m)
        /\ want' = (IF k.wait[m] = << >> THEN [want EXCEPT ![t] = None] ELSE want)
        /\ UNCHANGED << value, owner, orig, hold, open, held, plain >>
    BY <1>1 DEF TestWaiters, mvars
  <1>3. /\ Sound(k', pc') /\ k' = k /\ t \notin Sleepers(k) /\ pc[t] = "test"
        /\ pc' = Moved(pc, t, IF k.wait[m] = << >> THEN "run" ELSE "flush")
    <2>1. Sound(k, pc) /\ DOMAIN pc = Thread
      BY InvFacts
    <2>. QED  BY <2>1, <1>2, StepTestList
  <1>4. /\ m \in Queue /\ t \in Sweeping(pc)
        /\ \A u \in Sweeping(pc) : u # t => want[u] # m
    BY <1>1, <1>3, SweeperFacts
  <1>5. \A x \in Thread :
          /\ pc'[x] = IF x = t THEN (IF k.wait[m] = << >> THEN "run" ELSE "flush") ELSE pc[x]
          /\ want'[x] = IF x = t /\ k.wait[m] = << >> THEN None ELSE want[x]
    BY <1>2, <1>3, InvFacts DEF Moved
  <1>6. /\ pc' \in [Thread -> IpcPC] /\ want' \in [Thread -> Queue \cup {None}]
        /\ open' \subseteq Queue /\ plain' \in BOOLEAN
    <2>1. open \subseteq Queue /\ plain \in BOOLEAN
      BY DEF IInv, Typed
    <2>. QED  BY <2>1, <1>2, <1>3, InvFacts DEF Moved, IpcPC
  <1>7. Sleepers(k') = Sleepers(k) /\ k'.wait = k.wait
    BY <1>3
  <1>8. \A x \in Sleepers(k) : /\ x \in Thread /\ x # t
                               /\ k'.err[x] = k.err[x] /\ want'[x] = want[x]
    BY <1>3, <1>5, InvFacts
  <1>9. Listed(k', pc', want')
    <2>1. \A x \in Thread : want'[x] # None <=> pc'[x] \in Inside
      BY <1>3, <1>5, InvFacts DEF Listed, Inside
    <2>2. Listed(k, pc, want)
      BY InvFacts
    <2>. QED  BY <2>1, <2>2, <1>7, <1>8, ListedSame2
  <1>10. Swept(k', pc', want', open')
    <2>1. \A u \in Sweeping(pc') : /\ u \in Sweeping(pc) /\ want'[u] = want[u]
                                   /\ u # t => pc'[u] = pc[u]
                                   /\ u = t => k.wait[m] # << >>
      BY <1>4, <1>5 DEF Sweeping
    <2>2. Swept(k, pc, want, open)
      BY DEF IInv
    <2>. QED  BY <2>1, <2>2, <1>1, <1>2, <1>3 DEF Swept
  <1>11. \A x \in Thread, n \in Queue :
           Granted(k', pc', want', x, n) <=> Granted(k, pc, want, x, n)
    BY <1>3, <1>5 DEF Granted
  <1>. QED  BY <1>2, <1>3, <1>6, <1>7, <1>8, <1>9, <1>10, <1>11, FieldsKept

(***************************************************************************)
(* A round of the loop: the waiter is woken with an error, and so is not   *)
(* taken for a new owner.                                                  *)
(***************************************************************************)
LEMMA StepFlush ==
  ASSUME IInv, NEW t \in Thread, FlushWaiter(t)
  PROVE  IInv'
  <1>1. PICK m : m = want[t]
    OBVIOUS
  <1>2. /\ FlushOne(t, m) /\ pc[t] = "flush"
        /\ UNCHANGED << want, value, owner, orig, hold, open, held, plain >>
    BY <1>1 DEF FlushWaiter, FlushOne, mvars
  <1>3. /\ m \in Queue /\ t \in Sweeping(pc) /\ k.wait[m] # << >>
        /\ \A u \in Sweeping(pc) : u # t => want[u] # m
    BY <1>1, <1>2, SweeperFacts
  <1>4. PICK x : x = Head(k.wait[m])
    OBVIOUS
  <1>5. /\ Sound(k', pc') /\ Awake(k, x, k') /\ k'.err = [k.err EXCEPT ![x] = "error"]
        /\ x \in Range(k.wait[m]) /\ x \in Thread /\ x \in Sleepers(k)
        /\ t \notin Sleepers(k) /\ x # t /\ pc' = Moved(pc, t, "test")
    <2>1. Sound(k, pc) /\ DOMAIN pc = Thread
      BY InvFacts
    <2>. QED  BY <2>1, <1>2, <1>3, <1>4, StepFlushOne
  <1>6. want[x] = m
    <2>1. Sound(k, pc) /\ Listed(k, pc, want)
      BY InvFacts
    <2>. QED  BY <2>1, <1>3, <1>5, OwnList
  <1>7. \A y \in Thread : /\ k'.err[y] = IF y = x THEN "error" ELSE k.err[y]
                          /\ pc'[y] = IF y = t THEN "test" ELSE pc[y]
    BY <1>5, InvFacts DEF Moved
  <1>8. /\ Listed(k', pc, want)
        /\ \A n \in Queue : /\ want[x] # n => k'.wait[n] = k.wait[n]
                            /\ Range(k'.wait[n]) = Range(k.wait[n]) \ {x}
                            /\ k.wait[n] = << >> => k'.wait[n] = << >>
    <2>1. Sound(k, pc) /\ Listed(k, pc, want)
      BY InvFacts
    <2>2. x \in Sleepers(k) /\ Awake(k, x, k') /\ \A y \in Thread \ {x} : k'.err[y] = k.err[y]
      BY <1>5, <1>7
    <2>. QED  BY <2>1, <2>2, ListedWithout
  <1>9. Sleepers(k') = Sleepers(k) \ {x} /\ k'.armed = k.armed \ {x}
    BY <1>5 DEF Awake
  <1>10. Listed(k', pc', want')
    <2>1. \A y \in Thread : want'[y] # None <=> pc'[y] \in Inside
      BY <1>2, <1>7, InvFacts DEF Listed, Inside
    <2>2. \A y \in Sleepers(k') : k'.err[y] = k'.err[y] /\ want'[y] = want[y]
      BY <1>2
    <2>. QED  BY <2>1, <2>2, <1>8, ListedSame2
  <1>11. Swept(k', pc', want', open')
    <2>1. \A u \in Sweeping(pc') : /\ u \in Sweeping(pc) /\ want[u] \in Queue
                                   /\ u # t => pc'[u] = pc[u] /\ want[u] # m
                                   /\ u = t => pc'[u] = "test"
      BY <1>3, <1>7, InvFacts DEF Sweeping
    <2>2. Swept(k, pc, want, open)
      BY DEF IInv
    <2>3. \A u \in Sweeping(pc') :
            /\ Range(k'.wait[want[u]]) \cap k'.armed \subseteq Range(k.wait[want[u]]) \cap k.armed
            /\ u # t => k'.wait[want[u]] = k.wait[want[u]]
      BY <2>1, <1>6, <1>8, <1>9
    <2>. QED  BY <2>1, <2>2, <2>3, <1>2 DEF Swept
  <1>12. \A y \in Thread, n \in Queue :
           Granted(k', pc', want', y, n) <=> Granted(k, pc, want, y, n)
    BY <1>2, <1>5, <1>7, <1>9 DEF Granted
  <1>13. /\ pc' \in [Thread -> IpcPC] /\ want' \in [Thread -> Queue \cup {None}]
         /\ open' \subseteq Queue /\ plain' \in BOOLEAN
    <2>1. open \subseteq Queue /\ plain \in BOOLEAN
      BY DEF IInv, Typed
    <2>. QED  BY <2>1, <1>2, <1>5, InvFacts DEF Moved, IpcPC
  <1>14. \A y \in Sleepers(k') : want'[y] = None \/ (y \in Sleepers(k) /\ want'[y] = want[y])
    BY <1>2, <1>9
  <1>. QED  BY <1>2, <1>5, <1>8, <1>10, <1>11, <1>12, <1>13, <1>14, FieldsKept

(***************************************************************************)
(* rt_mutex_init of a mutex nobody uses: its list is empty, so it may be   *)
(* free.                                                                   *)
(***************************************************************************)
LEMMA StepInitialise ==
  ASSUME IInv, NEW t \in Thread, NEW m \in Queue, Initialise(t, m)
  PROVE  IInv'
  <1>1. /\ \A u \in Thread : want[u] # m
        /\ value' = [value EXCEPT ![m] = 1] /\ owner' = [owner EXCEPT ![m] = None]
        /\ orig' = [orig EXCEPT ![m] = Unowned] /\ hold' = [hold EXCEPT ![m] = 0]
        /\ held' = [u \in Thread |-> [held[u] EXCEPT ![m] = 0]]
        /\ open' = open \cup {m} /\ k' = k /\ pc' = pc /\ want' = want /\ plain' = plain
    BY DEF Initialise
  <1>2. k.wait[m] = << >>
    <2>1. Sound(k, pc) /\ Listed(k, pc, want)
      BY InvFacts
    <2>2. /\ k.wait[m] \in Seq(Thread)
          /\ \A x : x \in Range(k.wait[m]) <=> x \in Sleepers(k) /\ want[x] = m
      BY <2>1, OwnList
    <2>3. Range(k.wait[m]) = {}
      BY <2>2, <1>1 DEF Sleepers
    <2>. QED  BY <2>2, <2>3, HeadFacts
  <1>3. /\ \A n \in Queue : /\ value'[n] = IF n = m THEN 1 ELSE value[n]
                            /\ owner'[n] = IF n = m THEN None ELSE owner[n]
                            /\ orig'[n] = IF n = m THEN Unowned ELSE orig[n]
                            /\ hold'[n] = IF n = m THEN 0 ELSE hold[n]
        /\ \A x \in Thread, n \in Queue :
             held'[x][n] = IF n = m THEN 0 ELSE held[x][n]
    BY <1>1 DEF IInv, Typed
  <1>4. Typed'
    <2>1. 0 \in 0 .. HoldMax
      BY InvFacts
    <2>2. /\ value' \in [Queue -> 0 .. 1] /\ hold' \in [Queue -> 0 .. HoldMax]
          /\ owner' \in [Queue -> Thread \cup {None}]
          /\ orig' \in [Queue -> Prio \cup {Unowned}]
      BY <2>1, <1>1 DEF IInv, Typed
    <2>3. held' \in [Thread -> [Queue -> 0 .. HoldMax]]
      BY <2>1, <1>1 DEF IInv, Typed
    <2>. QED  BY <2>2, <2>3, <1>1 DEF IInv, Typed
  <1>5. Sound(k', pc') /\ Listed(k', pc', want')
    BY <1>1, InvFacts
  <1>6. Swept(k', pc', want', open')
    <2>1. Swept(k, pc, want, open)
      BY DEF IInv
    <2>2. \A u \in Sweeping(pc) : u \in Thread
      BY DEF Sweeping
    <2>. QED  BY <2>1, <2>2, <1>1 DEF Swept
  <1>7. AccountOK(k, want)'
    <2>1. ASSUME NEW n \in Queue
          PROVE  Account(k', want', n, value'[n], owner'[n], orig'[n], hold'[n])
      <3>1. CASE n = m
        <4>1. None \notin Sleepers(k)
          BY InvFacts
        <4>. QED  BY <4>1, <3>1, <1>1, <1>2, <1>3 DEF Account
      <3>2. CASE n # m
        BY <3>2, <1>1, <1>3, MutexFacts
      <3>. QED  BY <3>1, <3>2
    <2>. QED  BY <2>1 DEF AccountOK
  <1>8. GotOK(k, pc, want)'
    <2>1. ASSUME NEW x \in Thread, NEW n \in Queue
          PROVE  Got(k', pc', want', x, n, held'[x][n], owner'[n], hold'[n])
      <3>1. CASE n = m
        <4>1. ~ Granted(k', pc', want', x, n) /\ x # None
          BY <3>1, <1>1, InvFacts DEF Granted
        <4>. QED  BY <4>1, <3>1, <1>3 DEF Got
      <3>2. CASE n # m
        BY <3>2, <1>1, <1>3, MutexFacts
      <3>. QED  BY <3>1, <3>2
    <2>. QED  BY <2>1 DEF GotOK
  <1>. QED  BY <1>4, <1>5, <1>6, <1>7, <1>8 DEF IInv

-----------------------------------------------------------------------------
(* The scheduler and the clock *)

(***************************************************************************)
(* A step of the scheduler moves at most one thread, between two points of *)
(* the same call or out of none.                                           *)
(***************************************************************************)
LEMMA WaitersUnaware ==
  ASSUME IInv, SameWaits(k, k'), Sound(k', pc'), pc' \in [Thread -> IpcPC],
         \A x \in Thread : \/ pc'[x] = pc[x]
                           \/ pc[x] = "block" /\ pc'[x] = "woken"
                           \/ pc[x] \notin Inside /\ pc'[x] \notin Inside,
         UNCHANGED << want, mvars >>
  PROVE  IInv'
  <1>1. UNCHANGED << want, value, owner, orig, hold, open, held, plain >>
    BY DEF mvars
  <1>2. /\ Sleepers(k') = Sleepers(k) /\ k'.wait = k.wait /\ k'.err = k.err
        /\ k'.armed = k.armed
    BY DEF SameWaits
  <1>3. Listed(k', pc', want')
    <2>1. Listed(k, pc, want)
      BY InvFacts
    <2>2. \A x \in Thread : want'[x] # None <=> pc'[x] \in Inside
      BY <2>1, <1>1 DEF Listed, Inside
    <2>3. \A x \in Sleepers(k) : k'.err[x] = k.err[x] /\ want'[x] = want[x]
      BY <1>1, <1>2
    <2>. QED  BY <2>1, <2>2, <2>3, <1>2, ListedSame2
  <1>4. Swept(k', pc', want', open')
    <2>1. Swept(k, pc, want, open)
      BY DEF IInv
    <2>2. Sweeping(pc') = Sweeping(pc) /\ \A u \in Sweeping(pc) : pc'[u] = pc[u]
      BY DEF Sweeping, Inside
    <2>. QED  BY <2>1, <2>2, <1>1, <1>2 DEF Swept
  <1>5. \A x \in Thread, n \in Queue :
          Granted(k', pc', want', x, n) <=> Granted(k, pc, want, x, n)
    BY <1>1, <1>2 DEF Granted, Inside
  <1>6. /\ want' \in [Thread -> Queue \cup {None}]
        /\ open' \subseteq Queue /\ plain' \in BOOLEAN
    BY <1>1 DEF IInv, Typed
  <1>7. \A x \in Sleepers(k') : want'[x] = None \/ (x \in Sleepers(k) /\ want'[x] = want[x])
    BY <1>1, <1>2
  <1>. QED  BY <1>1, <1>2, <1>3, <1>4, <1>5, <1>6, <1>7, FieldsKept

(***************************************************************************)
(* rt_schedule at the end of a section, and the end of a time slice.       *)
(***************************************************************************)
LEMMA StepSchedules ==
  ASSUME IInv, NEW t \in Thread, DoSchedule(t) \/ Tick, UNCHANGED << want, mvars >>
  PROVE  IInv'
  <1>1. Sound(k, pc) /\ DOMAIN pc = Thread
    BY InvFacts
  <1>2. CASE DoSchedule(t)
    <2>1. PICK p : p = IF pc[t] = "block" THEN "woken"
                       ELSE IF pc[t] = "nap" THEN "slept" ELSE "run"
      OBVIOUS
    <2>2. /\ Sound(k', pc') /\ SameWaits(k, k') /\ pc[t] \in {"sched", "block", "nap"}
          /\ pc' = Moved(pc, t, p)
      BY <2>1, <1>1, <1>2, StepDoSchedule
    <2>3. pc' \in [Thread -> IpcPC]
      BY <2>1, <2>2, InvFacts DEF Moved, IpcPC
    <2>4. \A x \in Thread : \/ pc'[x] = pc[x]
                            \/ pc[x] = "block" /\ pc'[x] = "woken"
                            \/ pc[x] \notin Inside /\ pc'[x] \notin Inside
      BY <2>1, <2>2, <1>1 DEF Moved, Inside
    <2>. QED  BY <2>2, <2>3, <2>4, WaitersUnaware
  <1>3. CASE Tick
    <2>1. Sound(k', pc') /\ SameWaits(k, k') /\ pc' = pc
      BY <1>1, <1>3, StepTick
    <2>2. pc' \in [Thread -> IpcPC]
      BY <2>1, InvFacts
    <2>. QED  BY <2>1, <2>2, WaitersUnaware
  <1>. QED  BY <1>2, <1>3

(***************************************************************************)
(* rt_thread_sleep: the thread wants no mutex.                             *)
(***************************************************************************)
LEMMA StepSleeps ==
  ASSUME IInv, NEW t \in Thread, Sleep(t), UNCHANGED << want, mvars >>
  PROVE  IInv'
  <1>1. UNCHANGED << want, value, owner, orig, hold, open, held, plain >>
    BY DEF mvars
  <1>2. /\ Sound(k', pc') /\ FallsAsleep(k, t, k') /\ k'.wait = k.wait
        /\ k'.armed = k.armed \cup {t} /\ pc[t] = "run" /\ pc' = Moved(pc, t, "nap")
    <2>1. Sound(k, pc) /\ DOMAIN pc = Thread
      BY InvFacts
    <2>. QED  BY <2>1, StepSleep
  <1>3. t \notin Sleepers(k) /\ want[t] = None
    <2>1. InCall(t, "sleep")
      BY DEF Sleep
    <2>. QED  BY <2>1, CallerFacts
  <1>4. Listed(k', pc', want')
    <2>1. Sound(k, pc) /\ Listed(k, pc, want) /\ DOMAIN pc = Thread /\ None \notin Queue
      BY InvFacts
    <2>2. Listed(k', pc', want)
      BY <2>1, <1>2, <1>3, ListedNapping
    <2>. QED  BY <2>2, <1>1
  <1>5. \A x \in Thread : /\ pc'[x] = IF x = t THEN "nap" ELSE pc[x]
                          /\ k'.err[x] = IF x = t THEN "ok" ELSE k.err[x]
                          /\ x \in Sleepers(k') <=> x = t \/ x \in Sleepers(k)
    BY <1>2, InvFacts DEF Moved, FallsAsleep
  <1>6. Swept(k', pc', want', open')
    <2>1. Swept(k, pc, want, open)
      BY DEF IInv
    <2>2. Sweeping(pc') = Sweeping(pc) /\ t \notin Sweeping(pc)
      BY <1>2, <1>5 DEF Sweeping
    <2>3. \A u \in Sweeping(pc) : u \in Thread /\ want[u] \in Queue /\ want[u] \notin open
      BY InvFacts
    <2>4. \A n \in Queue : t \notin Range(k.wait[n])
      <3>1. Sound(k, pc) /\ Listed(k, pc, want)
        BY InvFacts
      <3>. QED  BY <3>1, <1>3, OwnList
    <2>5. \A u \in Sweeping(pc) :
            /\ pc'[u] = pc[u] /\ want'[u] = want[u] /\ want[u] \notin open'
            /\ k'.wait[want[u]] = k.wait[want[u]]
            /\ Range(k.wait[want[u]]) \cap k'.armed \subseteq k.armed
      BY <2>2, <2>3, <2>4, <1>1, <1>2, <1>5
    <2>. QED  BY <2>1, <2>2, <2>5, SweptKept
  <1>7. \A x \in Thread, n \in Queue :
          Granted(k', pc', want', x, n) <=> Granted(k, pc, want, x, n)
    BY <1>1, <1>2, <1>5 DEF Granted
  <1>8. /\ pc' \in [Thread -> IpcPC] /\ want' \in [Thread -> Queue \cup {None}]
        /\ open' \subseteq Queue /\ plain' \in BOOLEAN
    <2>1. open \subseteq Queue /\ plain \in BOOLEAN
      BY DEF IInv, Typed
    <2>. QED  BY <2>1, <1>1, <1>2, InvFacts DEF Moved, IpcPC
  <1>9. \A x \in Sleepers(k') : want'[x] = None \/ (x \in Sleepers(k) /\ want'[x] = want[x])
    BY <1>1, <1>2, <1>3 DEF FallsAsleep
  <1>. QED  BY <1>1, <1>2, <1>4, <1>6, <1>7, <1>8, <1>9, FieldsKept

(***************************************************************************)
(* The end of rt_thread_sleep.                                             *)
(***************************************************************************)
LEMMA StepWakesUp ==
  ASSUME IInv, NEW t \in Thread, SleepReturns(t), UNCHANGED << want, mvars >>
  PROVE  IInv'
  <1>1. UNCHANGED << want, value, owner, orig, hold, open, held, plain >>
    BY DEF mvars
  <1>2. /\ Sound(k', pc') /\ Calm(k, k', t) /\ pc[t] = "slept" /\ pc' = Moved(pc, t, "run")
        /\ t \notin Sleepers(k)
    <2>1. Sound(k, pc) /\ DOMAIN pc = Thread
      BY InvFacts
    <2>. QED  BY <2>1, StepSleepReturns DEF Calm
  <1>3. /\ Listed(k', pc', want') /\ Swept(k', pc', want', open)
        /\ \A x \in Thread, n \in Queue :
             Granted(k', pc', want', x, n) <=> Granted(k, pc, want, x, n)
    <2>1. pc[t] \notin Inside /\ "run" \in {"run", "sched"}
      BY <1>2 DEF Inside
    <2>. QED  BY <2>1, <1>1, <1>2, CalmStep
  <1>4. /\ pc' \in [Thread -> IpcPC] /\ want' \in [Thread -> Queue \cup {None}]
        /\ open' \subseteq Queue /\ plain' \in BOOLEAN
    <2>1. open \subseteq Queue /\ plain \in BOOLEAN
      BY DEF IInv, Typed
    <2>. QED  BY <2>1, <1>1, <1>2, InvFacts DEF Moved, IpcPC
  <1>5. /\ \A x \in Sleepers(k') :
             want'[x] = None \/ (x \in Sleepers(k) /\ want'[x] = want[x])
        /\ \A n \in Queue : k.wait[n] = << >> => k'.wait[n] = << >>
    BY <1>1, <1>2 DEF Calm
  <1>. QED  BY <1>1, <1>2, <1>3, <1>4, <1>5, FieldsKept

(***************************************************************************)
(* A waiter times out: it leaves the list, which nobody empties, and its   *)
(* call will return an error.                                              *)
(***************************************************************************)
LEMMA StepTimesOut ==
  ASSUME IInv, NEW x \in Thread, TickTimeout(x), UNCHANGED << want, mvars >>
  PROVE  IInv'
  <1>1. UNCHANGED << want, value, owner, orig, hold, open, held, plain >>
    BY DEF mvars
  <1>2. /\ Sound(k', pc') /\ Awake(k, x, k') /\ k'.err = [k.err EXCEPT ![x] = "timeout"]
        /\ x \in Sleepers(k) /\ x \in k.armed /\ pc' = pc
    <2>1. Sound(k, pc)
      BY InvFacts
    <2>. QED  BY <2>1, StepTickTimeout
  <1>3. \A y \in Thread : k'.err[y] = IF y = x THEN "timeout" ELSE k.err[y]
    BY <1>2, InvFacts
  <1>4. Sleepers(k') = Sleepers(k) \ {x} /\ k'.armed = k.armed \ {x}
    BY <1>2 DEF Awake
  <1>5. Sound(k, pc) /\ Listed(k, pc, want)
    BY InvFacts
  <1>6. /\ Listed(k', pc, want)
        /\ \A n \in Queue : /\ want[x] # n => k'.wait[n] = k.wait[n]
                            /\ k.wait[n] = << >> => k'.wait[n] = << >>
    <2>1. x \in Sleepers(k) /\ Awake(k, x, k') /\ \A y \in Thread \ {x} : k'.err[y] = k.err[y]
      BY <1>2, <1>3
    <2>. QED  BY <2>1, <1>5, ListedWithout
  <1>7. Swept(k', pc', want', open')
    <2>1. Swept(k, pc, want, open)
      BY DEF IInv
    <2>2. ASSUME NEW u \in Sweeping(pc)
          PROVE  k'.wait[want[u]] = k.wait[want[u]]
      <3>1. want[u] \in Queue /\ Range(k.wait[want[u]]) \cap k.armed = {}
        BY <2>1, InvFacts DEF Swept
      <3>2. x \notin Range(k.wait[want[u]])
        BY <3>1, <1>2
      <3>3. want[x] # want[u]
        BY <3>1, <3>2, <1>2, <1>5, OwnList
      <3>. QED  BY <3>1, <3>3, <1>6
    <2>3. \A u \in Sweeping(pc) : want[u] \notin open
      BY InvFacts
    <2>. QED  BY <2>1, <2>2, <2>3, <1>1, <1>2, <1>4, SweptKept
  <1>8. \A y \in Thread, n \in Queue :
          Granted(k', pc', want', y, n) <=> Granted(k, pc, want, y, n)
    BY <1>1, <1>2, <1>3, <1>4 DEF Granted
  <1>9. /\ pc' \in [Thread -> IpcPC] /\ want' \in [Thread -> Queue \cup {None}]
        /\ open' \subseteq Queue /\ plain' \in BOOLEAN
    BY <1>1, <1>2 DEF IInv, Typed
  <1>10. \A y \in Sleepers(k') : want'[y] = None \/ (y \in Sleepers(k) /\ want'[y] = want[y])
    BY <1>1, <1>4
  <1>. QED  BY <1>1, <1>2, <1>6, <1>7, <1>8, <1>9, <1>10, FieldsKept

-----------------------------------------------------------------------------
(* The theorems *)

(***************************************************************************)
(* The invariant is inductive.                                             *)
(***************************************************************************)
LEMMA NextInv == IInv /\ [Next]_vars => IInv'
  <1> SUFFICES ASSUME IInv, [Next]_vars PROVE IInv'
    OBVIOUS
  <1>1. ASSUME NEW t \in Thread, NEW m \in Queue,
               \/ TakeAgain(t, m) \/ TakeFree(t, m) \/ TakeFails(t, m)
               \/ ReleaseRefused(t, m) \/ ReleaseInner(t, m) \/ ReleaseLast(t, m)
               \/ Detach(t, m) \/ Initialise(t, m)
               \/ \E timeout \in Timeouts : TakeWaits(t, m, timeout)
        PROVE  IInv'
    <2>1. CASE TakeAgain(t, m)
      BY <2>1, StepTakeAgain
    <2>2. CASE TakeFree(t, m)
      BY <2>2, StepTakeFree
    <2>3. CASE TakeFails(t, m) \/ ReleaseRefused(t, m)
      BY <2>3, StepFails
    <2>4. CASE ReleaseInner(t, m)
      BY <2>4, StepReleaseInner
    <2>5. CASE ReleaseLast(t, m)
      BY <2>5, StepReleaseFree, StepReleaseHands
    <2>6. CASE Detach(t, m)
      BY <2>6, StepDetach
    <2>7. CASE Initialise(t, m)
      BY <2>7, StepInitialise
    <2>8. CASE \E timeout \in Timeouts : TakeWaits(t, m, timeout)
      BY <2>8, StepTakeWaits
    <2>. QED  BY <1>1, <2>1, <2>2, <2>3, <2>4, <2>5, <2>6, <2>7, <2>8
  <1>2. ASSUME NEW t \in Thread,
               \/ TakeReturns(t) \/ TestWaiters(t) \/ FlushWaiter(t)
               \/ (DoSchedule(t) \/ Sleep(t) \/ SleepReturns(t)) /\ UNCHANGED << want, mvars >>
        PROVE  IInv'
    <2>1. CASE TakeReturns(t)
      BY <2>1, StepTakeReturns
    <2>2. CASE TestWaiters(t)
      BY <2>2, StepTest
    <2>3. CASE FlushWaiter(t)
      BY <2>3, StepFlush
    <2>4. CASE DoSchedule(t) /\ UNCHANGED << want, mvars >>
      BY <2>4, StepSchedules
    <2>5. CASE Sleep(t) /\ UNCHANGED << want, mvars >>
      BY <2>5, StepSleeps
    <2>6. CASE SleepReturns(t) /\ UNCHANGED << want, mvars >>
      BY <2>6, StepWakesUp
    <2>. QED  BY <1>2, <2>1, <2>2, <2>3, <2>4, <2>5, <2>6
  <1>3. CASE \E t \in Thread : ThreadStep(t)
    BY <1>1, <1>2, <1>3 DEF ThreadStep
  <1>4. CASE Tick /\ UNCHANGED << want, mvars >>
    BY <1>4, StepSchedules, KernelAssumption
  <1>5. CASE \E x \in Thread : TickTimeout(x) /\ UNCHANGED << want, mvars >>
    BY <1>5, StepTimesOut
  <1>6. CASE UNCHANGED vars
    <2>1. UNCHANGED << k, pc, value, owner, orig, hold, open, want, held, plain >>
      BY <1>6 DEF vars
    <2>2. AccountOK(k, want)' /\ GotOK(k, pc, want)' /\ Typed'
      BY <2>1 DEF IInv, AccountOK, GotOK, Typed
    <2>3. Sound(k', pc') /\ Listed(k', pc', want') /\ Swept(k', pc', want', open')
      BY <2>1 DEF IInv
    <2>. QED  BY <2>2, <2>3 DEF IInv
  <1>. QED  BY <1>3, <1>4, <1>5, <1>6 DEF Next, ClockStep

(***************************************************************************)
(* The inductive invariant: every mutex accounts for what each thread got  *)
(* of it, counting the thread it was handed to and which has not run yet;  *)
(* waiters stand in the list of the mutex they want and in no other.       *)
(***************************************************************************)
THEOREM SpecIInv == Spec => []IInv
  <1>1. Init => IInv
    BY InitInv
  <1>2. IInv /\ [Next]_vars => IInv'
    BY NextInv
  <1>. QED  BY <1>1, <1>2, PTL DEF Spec

(***************************************************************************)
(* The types of the kernel state, of the fields of the mutexes and of the  *)
(* calls; hold stays within RT_MUTEX_HOLD_MAX.                             *)
(***************************************************************************)
THEOREM TypeCorrect == Spec => []TypeOK
  <1>1. IInv => TypeOK
    <2> SUFFICES ASSUME IInv PROVE TypeOK
      OBVIOUS
    <2>1. k \in KernelType
      BY InvFacts, SoundFacts
    <2>. QED  BY <2>1 DEF IInv, Typed, TypeOK
  <1>. QED  BY <1>1, SpecIInv, PTL

(***************************************************************************)
(* Moving an owner between the ready lists when it inherits a priority and *)
(* when it gives it back, wherever it then is, leaves the lists, the       *)
(* priority bitmap, the timers and the status of the threads in agreement. *)
(***************************************************************************)
THEOREM KernelAlwaysConsistent == Spec => []KernelConsistent
  <1>1. IInv => KernelConsistent
    BY DEF IInv, Sound, KernelConsistent
  <1>. QED  BY <1>1, SpecIInv, PTL

(***************************************************************************)
(* value, owner, hold and the suspend list of a mutex agree: it is free    *)
(* exactly when it has no owner and no hold, nobody waits for a free       *)
(* mutex, and no owner waits for its own one.                              *)
(***************************************************************************)
THEOREM OwnershipAlwaysExact == Spec => []OwnershipExact
  <1>1. IInv => OwnershipExact
    <2> SUFFICES ASSUME IInv, NEW m \in open
                 PROVE  /\ value[m] = 1 <=> owner[m] = None
                        /\ hold[m] = 0 <=> owner[m] = None
                        /\ owner[m] = None => k.wait[m] = << >>
                        /\ owner[m] \notin Waiting(m)
      BY DEF OwnershipExact
    <2>1. m \in Queue
      BY DEF IInv, Typed
    <2>2. Account(k, want, m, value[m], owner[m], orig[m], hold[m])
      BY <2>1, MutexFacts
    <2>3. Sound(k, pc) /\ Listed(k, pc, want)
      BY InvFacts
    <2>4. \A x : x \in Range(k.wait[m]) <=> x \in Sleepers(k) /\ want[x] = m
      BY <2>1, <2>3, OwnList
    <2>. QED  BY <2>2, <2>4 DEF Account, Waiting
  <1>. QED  BY <1>1, SpecIInv, PTL

(***************************************************************************)
(* Mutual exclusion as the callers see it: whoever got a mutex more often  *)
(* than it released it is its owner with that hold, one that is being      *)
(* handed over counts as got already, and a call that returns an error     *)
(* leaves nothing behind.                                                  *)
(***************************************************************************)
THEOREM AlwaysExclusive == Spec => []ExclusiveHold
  <1>1. IInv => ExclusiveHold
    <2> SUFFICES ASSUME IInv, NEW m \in open, NEW t \in Thread
                 PROVE  held[t][m] + (IF HandedOver(t, m) THEN 1 ELSE 0) =
                          IF owner[m] = t THEN hold[m] ELSE 0
      BY DEF ExclusiveHold
    <2>1. m \in Queue
      BY DEF IInv, Typed
    <2>2. Got(k, pc, want, t, m, held[t][m], owner[m], hold[m])
      BY <2>1, MutexFacts
    <2>3. Sound(k, pc) /\ Listed(k, pc, want)
      BY InvFacts
    <2>4. \A x : x \in Range(k.wait[m]) <=> x \in Sleepers(k) /\ want[x] = m
      BY <2>1, <2>3, OwnList
    <2>5. HandedOver(t, m) <=> Granted(k, pc, want, t, m)
      BY <2>4 DEF HandedOver, Granted, Waiting
    <2>. QED  BY <2>2, <2>5 DEF Got
  <1>. QED  BY <1>1, SpecIInv, PTL

-----------------------------------------------------------------------------
(* Priority inheritance, while nobody nests mutexes *)

(***************************************************************************)
(* With owners o, original priorities r and open mutexes isopen: a thread  *)
(* owns one mutex at most and none while it waits; it has the priority it  *)
(* was created with unless it owns a mutex, which then remembers that      *)
(* priority; the owner has at least the priority of each waiter, and the   *)
(* waiters are sorted; what is closed has no owner.                        *)
(***************************************************************************)
Orderly(s, o, r, isopen) ==
  /\ \A m, n \in Queue : o[m] = o[n] => m = n \/ o[m] = None
  /\ \A m, n \in Queue : o[n] \notin Range(s.wait[m])
  /\ \A t \in Thread : (\A m \in Queue : o[m] # t) => s.prio[t] = InitPrio[t]
  /\ \A m \in Queue : o[m] # None => r[m] = InitPrio[o[m]]
  /\ \A m \in Queue : \A u \in Range(s.wait[m]) : s.prio[o[m]] <= InitPrio[u]
  /\ \A m \in Queue, x, y \in Thread :
       InFrontOf(s.wait[m], x, y) => InitPrio[x] <= InitPrio[y]
  /\ \A m \in Queue \ isopen : o[m] = None

Disciplined == plain => Orderly(k, owner, orig, open)

(* n is s after threads may have left their suspend lists. *)
Quiet(s, n) ==
  /\ n.prio = s.prio
  /\ \A m \in Queue : n.wait[m] = s.wait[m] \/ \E x : n.wait[m] = Unlinked(s.wait[m], x)

(***************************************************************************)
(* A step that gives no mutex a new owner and at most lets waiters go.     *)
(***************************************************************************)
LEMMA QuietKept ==
  ASSUME IInv, Disciplined, Quiet(k, k'), plain' => plain,
         plain' => \A m \in Queue : /\ owner'[m] = owner[m]
                                    /\ owner[m] # None => orig'[m] = orig[m]
                                    /\ m \notin open' => owner[m] = None
  PROVE  Disciplined'
  <1> SUFFICES ASSUME plain' PROVE Orderly(k', owner', orig', open')
    BY DEF Disciplined
  <1>1. /\ Orderly(k, owner, orig, open) /\ k'.prio = k.prio
        /\ \A m \in Queue : /\ owner'[m] = owner[m]
                            /\ owner[m] # None => orig'[m] = orig[m]
                            /\ m \notin open' => owner[m] = None
    BY DEF Disciplined, Quiet
  <1>2. ASSUME NEW m \in Queue
        PROVE  /\ Range(k'.wait[m]) \subseteq Range(k.wait[m])
               /\ \A x, y : InFrontOf(k'.wait[m], x, y) => InFrontOf(k.wait[m], x, y)
    <2>1. k.wait[m] \in Seq(Thread) /\ IsInjective(k.wait[m])
      <3>1. Sound(k, pc) /\ Listed(k, pc, want)
        BY InvFacts
      <3>. QED  BY <3>1, OwnList
    <2>2. CASE k'.wait[m] = k.wait[m]
      BY <2>2
    <2>3. CASE \E x : k'.wait[m] = Unlinked(k.wait[m], x)
      <3>1. PICK z : k'.wait[m] = Unlinked(k.wait[m], z)
        BY <2>3
      <3>2. Range(k'.wait[m]) = Range(k.wait[m]) \ {z}
        BY <2>1, <3>1, UnlinkedFacts
      <3>3. ASSUME NEW x, NEW y, InFrontOf(k'.wait[m], x, y) PROVE InFrontOf(k.wait[m], x, y)
        BY <2>1, <3>1, <3>3, UnlinkedInFront
      <3>. QED  BY <3>2, <3>3
    <2>. QED  BY <2>2, <2>3 DEF Quiet
  <1>3. \A m, n \in Queue : owner'[n] \notin Range(k'.wait[m])
    BY <1>1, <1>2 DEF Orderly
  <1>4. \A m \in Queue : \A u \in Range(k'.wait[m]) : k'.prio[owner'[m]] <= InitPrio[u]
    BY <1>1, <1>2 DEF Orderly
  <1>5. \A m \in Queue, x, y \in Thread :
          InFrontOf(k'.wait[m], x, y) => InitPrio[x] <= InitPrio[y]
    BY <1>1, <1>2 DEF Orderly
  <1>6. /\ \A m, n \in Queue : owner'[m] = owner'[n] => m = n \/ owner'[m] = None
        /\ \A t \in Thread : (\A m \in Queue : owner'[m] # t) => k'.prio[t] = InitPrio[t]
        /\ \A m \in Queue : owner'[m] # None => orig'[m] = InitPrio[owner'[m]]
        /\ \A m \in Queue \ open' : owner'[m] = None
    BY <1>1 DEF Orderly
  <1>. QED  BY <1>3, <1>4, <1>5, <1>6 DEF Orderly

(***************************************************************************)
(* What the kernel does for the calls that neither take nor give a mutex.  *)
(***************************************************************************)
LEMMA QuietKernel ==
  ASSUME NEW s, NEW n, n.prio = s.prio,
         n.wait = s.wait \/ \E x : n.wait = WaitsWithout(s, x)
  PROVE  Quiet(s, n)
  <1>1. CASE n.wait = s.wait
    BY <1>1 DEF Quiet
  <1>2. CASE \E x : n.wait = WaitsWithout(s, x)
    <2>1. PICK x : n.wait = WaitsWithout(s, x)
      BY <1>2
    <2>2. \A m \in Queue : n.wait[m] = Unlinked(s.wait[m], x)
      BY <2>1 DEF WaitsWithout
    <2>. QED  BY <2>2 DEF Quiet
  <1>. QED  BY <1>1, <1>2

(***************************************************************************)
(* The calls that give no mutex to anybody and take it from nobody: an     *)
(* owned mutex that is detached ends the discipline.                       *)
(***************************************************************************)
LEMMA OrderInCalls ==
  ASSUME IInv, Disciplined, NEW t \in Thread, NEW m \in Queue,
         \/ TakeAgain(t, m) \/ TakeFails(t, m) \/ ReleaseRefused(t, m)
         \/ ReleaseInner(t, m) \/ Detach(t, m) \/ Initialise(t, m)
  PROVE  Disciplined'
  <1>1. Sound(k, pc)
    BY InvFacts
  <1>2. ASSUME NEW e \in Err, k' = ErrSet(k, t, e) PROVE Quiet(k, k')
    <2>1. k'.prio = k.prio /\ k'.wait = k.wait
      BY <1>1, <1>2, ErrorCalm DEF Calm
    <2>. QED  BY <2>1, QuietKernel
  <1>3. ASSUME k' = k PROVE Quiet(k, k')
    BY <1>3 DEF Quiet
  <1>4. plain => \A n \in Queue \ open : owner[n] = None
    BY DEF Disciplined, Orderly
  <1>5. CASE TakeAgain(t, m) \/ TakeFails(t, m) \/ ReleaseRefused(t, m)
    <2>1. \E e \in Err : k' = ErrSet(k, t, e)
      BY <1>5 DEF TakeAgain, TakeFails, ReleaseRefused, ErrorReset, ErrSet, Err
    <2>2. UNCHANGED << owner, orig, open, plain >>
      BY <1>5 DEF TakeAgain, TakeFails, ReleaseRefused, mvars
    <2>3. Quiet(k, k')
      BY <2>1, <1>2
    <2>. QED  BY <2>2, <2>3, <1>4, QuietKept
  <1>6. CASE ReleaseInner(t, m)
    <2>1. k' = k /\ UNCHANGED << owner, orig, open, plain >>
      BY <1>6 DEF ReleaseInner
    <2>. QED  BY <2>1, <1>3, <1>4, QuietKept
  <1>7. CASE Detach(t, m)
    <2>1. /\ k' = k /\ UNCHANGED << owner, orig >>
          /\ open' = open \ {m} /\ plain' = (plain /\ owner[m] = None)
      BY <1>7 DEF Detach
    <2>2. plain' => \A n \in Queue : n \notin open' => owner[n] = None
      BY <2>1, <1>4
    <2>. QED  BY <2>1, <2>2, <1>3, QuietKept
  <1>8. CASE Initialise(t, m)
    <2>1. /\ k' = k /\ m \notin open /\ open' = open \cup {m} /\ plain' = plain
          /\ owner' = [owner EXCEPT ![m] = None] /\ orig' = [orig EXCEPT ![m] = Unowned]
      BY <1>8 DEF Initialise
    <2>2. \A n \in Queue : /\ owner'[n] = IF n = m THEN None ELSE owner[n]
                           /\ orig'[n] = IF n = m THEN Unowned ELSE orig[n]
      BY <2>1 DEF IInv, Typed
    <2>3. plain => owner[m] = None
      BY <2>1, <1>4
    <2>4. plain' => \A n \in Queue : /\ owner'[n] = owner[n]
                                     /\ owner[n] # None => orig'[n] = orig[n]
                                     /\ n \notin open' => owner[n] = None
      BY <2>1, <2>2, <2>3, <1>4
    <2>. QED  BY <2>1, <2>4, <1>3, QuietKept
  <1>. QED  BY <1>5, <1>6, <1>7, <1>8

(***************************************************************************)
(* The rest of the calls, the scheduler and the clock.                     *)
(***************************************************************************)
LEMMA OrderInSteps ==
  ASSUME IInv, Disciplined, NEW t \in Thread,
         \/ TakeReturns(t) \/ TestWaiters(t) \/ FlushWaiter(t)
         \/ /\ DoSchedule(t) \/ Sleep(t) \/ SleepReturns(t) \/ Tick \/ TickTimeout(t)
            /\ UNCHANGED << want, mvars >>
  PROVE  Disciplined'
  <1>1. Sound(k, pc) /\ DOMAIN pc = Thread
    BY InvFacts
  <1>2. UNCHANGED << owner, orig, open, plain >>
    BY DEF TakeReturns, TestWaiters, FlushWaiter, mvars
  <1>3. Quiet(k, k')
    <2>1. CASE TakeReturns(t) \/ TestWaiters(t)
      <3>1. k' = k
        BY <2>1 DEF TakeReturns, TestWaiters, TestList
      <3>. QED  BY <3>1 DEF Quiet
    <2>2. CASE FlushWaiter(t)
      <3>1. FlushOne(t, want[t]) /\ pc[t] = "flush"
        BY <2>2 DEF FlushWaiter, FlushOne
      <3>2. want[t] \in Queue /\ k.wait[want[t]] # << >>
        BY <3>1, SweeperFacts
      <3>3. PICK x : x = Head(k.wait[want[t]])
        OBVIOUS
      <3>4. Awake(k, x, k')
        BY <3>1, <3>2, <3>3, <1>1, StepFlushOne
      <3>. QED  BY <3>4, QuietKernel DEF Awake
    <2>3. CASE DoSchedule(t)
      <3>1. SameWaits(k, k')
        BY <2>3, <1>1, StepDoSchedule
      <3>. QED  BY <3>1, QuietKernel DEF SameWaits
    <2>4. CASE Tick
      <3>1. SameWaits(k, k')
        BY <2>4, <1>1, StepTick
      <3>. QED  BY <3>1, QuietKernel DEF SameWaits
    <2>5. CASE Sleep(t)
      <3>1. FallsAsleep(k, t, k') /\ k'.wait = k.wait
        BY <2>5, <1>1, StepSleep
      <3>. QED  BY <3>1, QuietKernel DEF FallsAsleep
    <2>6. CASE SleepReturns(t)
      <3>1. k'.prio = k.prio /\ k'.wait = k.wait
        BY <2>6, <1>1, StepSleepReturns
      <3>. QED  BY <3>1, QuietKernel
    <2>7. CASE TickTimeout(t)
      <3>1. Awake(k, t, k')
        BY <2>7, <1>1, StepTickTimeout
      <3>. QED  BY <3>1, QuietKernel DEF Awake
    <2>. QED  BY <2>1, <2>2, <2>3, <2>4, <2>5, <2>6, <2>7
  <1>4. plain => \A n \in Queue \ open : owner[n] = None
    BY DEF Disciplined, Orderly
  <1>. QED  BY <1>2, <1>3, <1>4, QuietKept

(***************************************************************************)
(* What the discipline says while it lasts.                                *)
(***************************************************************************)
LEMMA OrderFacts ==
  ASSUME IInv, Disciplined, plain
  PROVE  /\ Orderly(k, owner, orig, open)
         /\ \A m, n \in Queue : owner[m] = owner[n] /\ owner[m] # None => m = n
         /\ \A t \in Thread : (\A m \in Queue : owner[m] # t) => k.prio[t] = InitPrio[t]
         /\ \A m \in Queue : /\ owner[m] # None => orig[m] = InitPrio[owner[m]]
                             /\ owner[m] = None => Range(k.wait[m]) = {}
         /\ \A m \in Queue : \A u \in Range(k.wait[m]) :
              /\ u \in Thread /\ u \in Sleepers(k) /\ owner[m] \in Thread
              /\ \A n \in Queue : owner[n] # u
              /\ k.prio[u] = InitPrio[u] /\ k.prio[owner[m]] <= InitPrio[u]
         /\ \A m \in Queue : \A x, y :
              InFrontOf(k.wait[m], x, y) => /\ InitPrio[x] <= InitPrio[y]
                                            /\ x \in Range(k.wait[m]) /\ y \in Range(k.wait[m])
         /\ InitPrio \in [Thread -> Prio] /\ k.prio \in [Thread -> Prio] /\ Prio \subseteq Int
  <1>1. Orderly(k, owner, orig, open)
    BY DEF Disciplined
  <1>2. Sound(k, pc) /\ Listed(k, pc, want)
    BY InvFacts
  <1>3. InitPrio \in [Thread -> Prio] /\ k.prio \in [Thread -> Prio] /\ Prio \subseteq Int
    BY <1>2, SoundFacts, KernelAssumption DEF Prio
  <1>4. ASSUME NEW m \in Queue
        PROVE  /\ owner[m] = None => Range(k.wait[m]) = {}
               /\ owner[m] \in Thread \cup {None}
    <2>1. k.wait[m] \in Seq(Thread)
      BY <1>2, OwnList
    <2>. QED  BY <2>1, MutexFacts, HeadFacts DEF Account
  <1>5. ASSUME NEW m \in Queue, NEW u \in Range(k.wait[m])
        PROVE  /\ u \in Thread /\ u \in Sleepers(k) /\ owner[m] \in Thread
               /\ \A n \in Queue : owner[n] # u
               /\ k.prio[u] = InitPrio[u] /\ k.prio[owner[m]] <= InitPrio[u]
    <2>1. u \in Thread /\ u \in Sleepers(k)
      BY <1>2, OwnList
    <2>2. \A n \in Queue : owner[n] # u
      BY <1>1 DEF Orderly
    <2>. QED  BY <2>1, <2>2, <1>1, <1>4 DEF Orderly
  <1>6. ASSUME NEW m \in Queue, NEW x, NEW y, InFrontOf(k.wait[m], x, y)
        PROVE  /\ x \in Range(k.wait[m]) /\ y \in Range(k.wait[m])
               /\ InitPrio[x] <= InitPrio[y]
    <2>1. x \in Range(k.wait[m]) /\ y \in Range(k.wait[m])
      BY <1>6 DEF InFrontOf, Range
    <2>2. x \in Thread /\ y \in Thread
      BY <2>1, <1>5
    <2>. QED  BY <2>1, <2>2, <1>1, <1>6 DEF Orderly
  <1>7. /\ \A m, n \in Queue : owner[m] = owner[n] /\ owner[m] # None => m = n
        /\ \A t \in Thread : (\A m \in Queue : owner[m] # t) => k.prio[t] = InitPrio[t]
        /\ \A m \in Queue : owner[m] # None => orig[m] = InitPrio[owner[m]]
    BY <1>1 DEF Orderly
  <1>. QED  BY <1>1, <1>3, <1>4, <1>5, <1>6, <1>7

(***************************************************************************)
(* A thread that owns nothing takes a free mutex.                          *)
(***************************************************************************)
LEMMA OrderTakeFree ==
  ASSUME IInv, Disciplined, NEW t \in Thread, NEW m \in Queue, TakeFree(t, m)
  PROVE  Disciplined'
  <1>1. /\ InCall(t, "take") /\ m \in open /\ value[m] > 0 /\ k' = ErrSet(k, t, "ok")
        /\ owner' = [owner EXCEPT ![m] = t] /\ orig' = [orig EXCEPT ![m] = k.prio[t]]
        /\ plain' = (plain /\ \A n \in Queue : owner[n] # t) /\ open' = open
    BY DEF TakeFree, Call, ErrorReset, ErrSet
  <1> SUFFICES ASSUME plain' PROVE Orderly(k', owner', orig', open')
    BY DEF Disciplined
  <1>2. plain /\ \A n \in Queue : owner[n] # t
    BY <1>1
  <1>3. k'.prio = k.prio /\ k'.wait = k.wait
    <2>1. Sound(k, pc) /\ "ok" \in Err
      BY InvFacts DEF Err
    <2>. QED  BY <2>1, <1>1, ErrorCalm DEF Calm
  <1>4. t \notin Sleepers(k) /\ t # None
    BY <1>1, CallerFacts, InvFacts
  <1>5. owner[m] = None
    <2>1. value[m] = 1
      BY <1>1, MutexFacts
    <2>. QED  BY <2>1, MutexFacts DEF Account
  <1>6. \A n \in Queue : /\ owner'[n] = IF n = m THEN t ELSE owner[n]
                         /\ orig'[n] = IF n = m THEN k.prio[t] ELSE orig[n]
    BY <1>1 DEF IInv, Typed
  <1>7. k.prio[t] = InitPrio[t]
    BY <1>2, OrderFacts
  <1>8. \A n, j \in Queue : owner'[n] = owner'[j] => n = j \/ owner'[n] = None
    BY <1>2, <1>6, OrderFacts
  <1>9. \A n, j \in Queue : owner'[j] \notin Range(k'.wait[n])
    BY <1>2, <1>3, <1>4, <1>6, OrderFacts
  <1>10. ASSUME NEW x \in Thread, \A n \in Queue : owner'[n] # x
         PROVE  k'.prio[x] = InitPrio[x]
    <2>1. x # None
      BY InvFacts
    <2>2. \A n \in Queue : owner[n] # x
      BY <2>1, <1>5, <1>6, <1>10
    <2>. QED  BY <2>2, <1>2, <1>3, OrderFacts
  <1>11. \A n \in Queue : owner'[n] # None => orig'[n] = InitPrio[owner'[n]]
    BY <1>2, <1>6, <1>7, OrderFacts
  <1>12. \A n \in Queue : \A u \in Range(k'.wait[n]) : k'.prio[owner'[n]] <= InitPrio[u]
    BY <1>2, <1>3, <1>5, <1>6, OrderFacts
  <1>13. \A n \in Queue, x, y \in Thread :
           InFrontOf(k'.wait[n], x, y) => InitPrio[x] <= InitPrio[y]
    BY <1>2, <1>3, OrderFacts
  <1>14. \A n \in Queue \ open' : owner'[n] = None
    BY <1>1, <1>2, <1>6, OrderFacts DEF Orderly
  <1>. QED  BY <1>8, <1>9, <1>10, <1>11, <1>12, <1>13, <1>14 DEF Orderly

(***************************************************************************)
(* A thread that owns nothing waits, and the owner inherits its priority.  *)
(***************************************************************************)
LEMMA OrderTakeWaits ==
  ASSUME IInv, Disciplined, NEW t \in Thread, NEW m \in Queue, NEW timeout,
         TakeWaits(t, m, timeout)
  PROVE  Disciplined'
  <1>1. /\ InCall(t, "take") /\ m \in open /\ value[m] = 0
        /\ owner' = owner /\ orig' = orig /\ open' = open
        /\ plain' = (plain /\ \A n \in Queue : owner[n] # t)
    BY DEF TakeWaits, Call
  <1> SUFFICES ASSUME plain' PROVE Orderly(k', owner', orig', open')
    BY DEF Disciplined
  <1>2. plain /\ \A n \in Queue : owner[n] # t
    BY <1>1
  <1>3. /\ t \notin Sleepers(k) /\ Sound(k', pc')
        /\ \A r \in Queue : r # m => k'.wait[r] = k.wait[r]
        /\ k'.wait[m] = InsertedByKey(k.wait[m], k'.prio, t)
        /\ \A x \in Thread :
             k'.prio[x] = IF x = owner[m] /\ k.prio[t] < k.prio[x] THEN k.prio[t] ELSE k.prio[x]
    BY BoostThenBlock
  <1>4. owner[m] \in Thread /\ owner[m] # None
    <2>1. value[m] # 1
      BY <1>1
    <2>. QED  BY <2>1, MutexFacts, InvFacts DEF Account
  <1>5. k.wait[m] \in Seq(Thread) /\ IsInjective(k.wait[m]) /\ t \notin Range(k.wait[m])
    <2>1. Sound(k, pc) /\ Listed(k, pc, want)
      BY InvFacts
    <2>. QED  BY <2>1, <1>3, OwnList
  <1>6. Range(k'.wait[m]) = Range(k.wait[m]) \cup {t}
    BY <1>3, <1>5, InsertedByKeyFacts
  <1>7. /\ k'.prio \in [Thread -> Int] /\ k.prio \in [Thread -> Int]
        /\ InitPrio \in [Thread -> Int]
    <2>1. k'.prio \in [Thread -> Prio]
      BY <1>3, SoundFacts
    <2>. QED  BY <2>1, <1>2, OrderFacts
  <1>8. k.prio[t] = InitPrio[t] /\ k'.prio[t] = InitPrio[t]
    BY <1>2, <1>3, OrderFacts
  <1>9. \A n \in Queue : owner[n] \in Thread => k'.prio[owner[n]] <= k.prio[owner[n]]
    BY <1>3, <1>7
  <1>10. \A n, j \in Queue : owner[j] \notin Range(k'.wait[n])
    BY <1>2, <1>3, <1>6, OrderFacts
  <1>11. \A x \in Thread : (\A n \in Queue : owner[n] # x) => k'.prio[x] = InitPrio[x]
    BY <1>2, <1>3, OrderFacts
  <1>12. ASSUME NEW n \in Queue, NEW u \in Range(k'.wait[n])
         PROVE  k'.prio[owner[n]] <= InitPrio[u]
    <2>1. CASE n = m /\ u = t
      BY <2>1, <1>3, <1>4, <1>7, <1>8
    <2>2. CASE ~ (n = m /\ u = t)
      <3>1. u \in Range(k.wait[n])
        BY <2>2, <1>3, <1>6
      <3>2. u \in Thread /\ owner[n] \in Thread /\ k.prio[owner[n]] <= InitPrio[u]
        BY <3>1, <1>2, OrderFacts
      <3>. QED  BY <3>2, <1>7, <1>9
    <2>. QED  BY <2>1, <2>2
  <1>13. ASSUME NEW n \in Queue, NEW x \in Thread, NEW y \in Thread, InFrontOf(k'.wait[n], x, y)
         PROVE  InitPrio[x] <= InitPrio[y]
    <2>1. CASE n # m
      <3>1. InFrontOf(k.wait[n], x, y)
        BY <2>1, <1>3, <1>13
      <3>. QED  BY <3>1, <1>2, OrderFacts
    <2>2. CASE n = m
      <3>1. \A z \in Range(k.wait[m]) : z \in Thread /\ k'.prio[z] = InitPrio[z]
        BY <1>2, <1>11, OrderFacts
      <3>2. \A a, b : InFrontOf(k.wait[m], a, b) => k'.prio[a] <= k'.prio[b]
        <4>1. \A a, b : InFrontOf(k.wait[m], a, b) =>
                /\ InitPrio[a] <= InitPrio[b]
                /\ a \in Range(k.wait[m]) /\ b \in Range(k.wait[m])
          BY <1>2, OrderFacts
        <4>. QED  BY <4>1, <3>1
      <3>3. InFrontOf(InsertedByKey(k.wait[m], k'.prio, t), x, y)
        BY <2>2, <1>3, <1>13
      <3>4. \/ InFrontOf(k.wait[m], x, y)
            \/ x \in Range(k.wait[m]) /\ y = t /\ k'.prio[x] <= k'.prio[t]
            \/ x = t /\ y \in Range(k.wait[m]) /\ k'.prio[t] < k'.prio[y]
        <4>1. PICK key : key = k'.prio
          OBVIOUS
        <4>2. PICK l : l = k.wait[m]
          OBVIOUS
        <4>3. /\ l \in Seq(Thread) /\ t \in Thread /\ key \in [Thread -> Int]
              /\ \A a, b : InFrontOf(l, a, b) => key[a] <= key[b]
              /\ InFrontOf(InsertedByKey(l, key, t), x, y)
          BY <4>1, <4>2, <3>2, <3>3, <1>5, <1>7
        <4>4. \/ InFrontOf(l, x, y)
              \/ x \in Range(l) /\ y = t /\ key[x] <= key[t]
              \/ x = t /\ y \in Range(l) /\ key[t] < key[y]
          BY <4>3, InsertedByKeyOrder
        <4>. QED  BY <4>1, <4>2, <4>4
      <3>5. CASE InFrontOf(k.wait[m], x, y)
        BY <3>5, <1>2, OrderFacts
      <3>6. CASE x \in Range(k.wait[m]) /\ y = t /\ k'.prio[x] <= k'.prio[t]
        BY <3>1, <3>6, <1>8
      <3>7. CASE x = t /\ y \in Range(k.wait[m]) /\ k'.prio[t] < k'.prio[y]
        BY <3>1, <3>7, <1>7, <1>8
      <3>. QED  BY <3>4, <3>5, <3>6, <3>7
    <2>. QED  BY <2>1, <2>2
  <1>14. /\ \A n, j \in Queue : owner[n] = owner[j] => n = j \/ owner[n] = None
         /\ \A n \in Queue : owner[n] # None => orig[n] = InitPrio[owner[n]]
         /\ \A n \in Queue \ open : owner[n] = None
    BY <1>2 DEF Disciplined, Orderly
  <1>. QED  BY <1>1, <1>10, <1>11, <1>12, <1>13, <1>14 DEF Orderly

(***************************************************************************)
(* The last release without waiters: the caller goes back to the priority  *)
(* the mutex remembers, which is its own.                                  *)
(***************************************************************************)
LEMMA OrderReleaseFree ==
  ASSUME IInv, Disciplined, NEW t \in Thread, NEW m \in Queue, ReleaseLast(t, m),
         k.wait[m] = << >>
  PROVE  Disciplined'
  <1>1. /\ m \in open /\ owner[m] = t /\ k' = Restored(k, t, orig[m])
        /\ owner' = [owner EXCEPT ![m] = None] /\ orig' = [orig EXCEPT ![m] = Unowned]
        /\ open' = open /\ plain' = plain
    BY DEF ReleaseLast, Call, NewOwner
  <1> SUFFICES ASSUME plain' PROVE Orderly(k', owner', orig', open')
    BY DEF Disciplined
  <1>2. plain /\ t # None
    BY <1>1, InvFacts
  <1>3. orig[m] = InitPrio[t] /\ InitPrio[t] \in Prio
    BY <1>1, <1>2, OrderFacts
  <1>4. k'.wait = k.wait /\ \A x \in Thread : k'.prio[x] = IF x = t THEN InitPrio[t] ELSE k.prio[x]
    <2>1. Sound(k, pc) /\ k' \in {Boosted(k, t, orig[m]), Restored(k, t, orig[m])}
      BY <1>1, InvFacts
    <2>2. t \in Thread /\ orig[m] \in Prio
      BY <1>3
    <2>3. \A x \in Thread : k'.prio[x] = IF x = t THEN orig[m] ELSE k.prio[x]
      BY <2>1, <2>2, <1>1, InheritedPrio
    <2>4. \A y : Calm(k, k', y)
      BY ONLY <2>1, <2>2, InheritanceCalm
    <2>. QED  BY <2>3, <2>4, <1>3 DEF Calm
  <1>5. \A n \in Queue : /\ owner'[n] = IF n = m THEN None ELSE owner[n]
                         /\ orig'[n] = IF n = m THEN Unowned ELSE orig[n]
    BY <1>1 DEF IInv, Typed
  <1>6. Range(k.wait[m]) = {}
    BY <1>2 DEF Range
  <1>7. \A n \in Queue : n # m => owner[n] # t
    BY <1>1, <1>2, OrderFacts
  <1>8. \A n, j \in Queue : owner'[n] = owner'[j] => n = j \/ owner'[n] = None
    BY <1>2, <1>5, OrderFacts
  <1>9. ASSUME NEW n \in Queue, NEW j \in Queue PROVE owner'[j] \notin Range(k'.wait[n])
    <2>1. \A u \in Range(k.wait[n]) : u \in Thread /\ owner[j] # u
      BY <1>2, OrderFacts
    <2>2. None \notin Thread
      BY InvFacts
    <2>. QED  BY <2>1, <2>2, <1>4, <1>5
  <1>10. ASSUME NEW x \in Thread, \A n \in Queue : owner'[n] # x
         PROVE  k'.prio[x] = InitPrio[x]
    <2>1. CASE x = t
      BY <2>1, <1>4
    <2>2. CASE x # t
      <3>1. \A n \in Queue : owner[n] # x
        BY <2>2, <1>1, <1>5, <1>10
      <3>. QED  BY <2>2, <3>1, <1>2, <1>4, OrderFacts
    <2>. QED  BY <2>1, <2>2
  <1>11. \A n \in Queue : owner'[n] # None => orig'[n] = InitPrio[owner'[n]]
    BY <1>2, <1>5, OrderFacts
  <1>12. ASSUME NEW n \in Queue, NEW u \in Range(k'.wait[n])
         PROVE  k'.prio[owner'[n]] <= InitPrio[u]
    <2>1. n # m /\ u \in Range(k.wait[n])
      BY <1>4, <1>6, <1>12
    <2>2. owner[n] \in Thread /\ k.prio[owner[n]] <= InitPrio[u]
      BY <2>1, <1>2, OrderFacts
    <2>. QED  BY <2>1, <2>2, <1>4, <1>5, <1>7
  <1>13. \A n \in Queue, x, y \in Thread :
           InFrontOf(k'.wait[n], x, y) => InitPrio[x] <= InitPrio[y]
    BY <1>2, <1>4, OrderFacts
  <1>14. \A n \in Queue \ open' : owner'[n] = None
    BY <1>1, <1>2, <1>5 DEF Disciplined, Orderly
  <1>. QED  BY <1>8, <1>9, <1>10, <1>11, <1>12, <1>13, <1>14 DEF Orderly

(***************************************************************************)
(* The first waiter is one of the highest priority.                        *)
(***************************************************************************)
LEMMA HeadIsHighest ==
  ASSUME IInv, Disciplined, plain, NEW m \in Queue, k.wait[m] # << >>,
         NEW x, x = Head(k.wait[m])
  PROVE  x \in Range(k.wait[m]) /\ \A u \in Range(k.wait[m]) : InitPrio[x] <= InitPrio[u]
  <1>1. k.wait[m] \in Seq(Thread)
    BY InvFacts
  <1>2. x \in Range(k.wait[m])
    BY <1>1, HeadFacts
  <1>3. ASSUME NEW u \in Range(k.wait[m]) PROVE InitPrio[x] <= InitPrio[u]
    <2>1. CASE u = x
      <3>1. InitPrio[x] \in Int
        BY <1>2, OrderFacts
      <3>. QED  BY <2>1, <3>1
    <2>2. CASE u # x
      <3>1. InFrontOf(k.wait[m], x, u)
        BY <2>2, <1>1, HeadInFront
      <3>. QED  BY <3>1, OrderFacts
    <2>. QED  BY <2>1, <2>2
  <1>. QED  BY <1>2, <1>3

(***************************************************************************)
(* The last release with waiters: the caller goes back to its priority,    *)
(* and the new owner has at least that of the others, as it was first.     *)
(***************************************************************************)
LEMMA OrderReleaseHands ==
  ASSUME IInv, Disciplined, NEW t \in Thread, NEW m \in Queue, ReleaseLast(t, m),
         k.wait[m] # << >>
  PROVE  Disciplined'
  <1>1. PICK x : x = Head(k.wait[m])
    OBVIOUS
  <1>2. /\ Sleepers(k') = Sleepers(k) \ {x} /\ x \in Sleepers(k) /\ t \notin Sleepers(k)
        /\ \A n \in Queue : n # m => k'.wait[n] = k.wait[n]
        /\ k'.wait[m] = Unlinked(k.wait[m], x)
        /\ \A y \in Thread : k'.prio[y] = IF y = t THEN orig[m] ELSE k.prio[y]
    BY <1>1, RestoreThenResume
  <1>3. x \in Thread /\ x # None /\ x # t
    BY <1>2, InvFacts
  <1>4. /\ m \in open /\ owner[m] = t /\ open' = open /\ plain' = plain
        /\ owner' = [owner EXCEPT ![m] = x] /\ orig' = [orig EXCEPT ![m] = k.prio[x]]
    BY <1>1, <1>3 DEF ReleaseLast, Call, NewOwner
  <1> SUFFICES ASSUME plain' PROVE Orderly(k', owner', orig', open')
    BY DEF Disciplined
  <1>5. plain /\ t # None
    BY <1>4, InvFacts
  <1>6. orig[m] = InitPrio[t]
    BY <1>4, <1>5, OrderFacts
  <1>7. x \in Range(k.wait[m]) /\ \A u \in Range(k.wait[m]) : InitPrio[x] <= InitPrio[u]
    BY <1>1, <1>5, HeadIsHighest
  <1>8. k.prio[x] = InitPrio[x] /\ \A n \in Queue : owner[n] # x
    BY <1>5, <1>7, OrderFacts
  <1>9. \A n \in Queue : /\ owner'[n] = IF n = m THEN x ELSE owner[n]
                         /\ orig'[n] = IF n = m THEN InitPrio[x] ELSE orig[n]
    BY <1>4, <1>8 DEF IInv, Typed
  <1>10. /\ Range(k'.wait[m]) = Range(k.wait[m]) \ {x}
         /\ \A a, b : InFrontOf(k'.wait[m], a, b) => InFrontOf(k.wait[m], a, b)
    <2>1. k.wait[m] \in Seq(Thread) /\ IsInjective(k.wait[m])
      <3>1. Sound(k, pc) /\ Listed(k, pc, want)
        BY InvFacts
      <3>. QED  BY <3>1, OwnList
    <2>2. Range(k'.wait[m]) = Range(k.wait[m]) \ {x}
      BY <2>1, <1>2, UnlinkedFacts
    <2>3. ASSUME NEW a, NEW b, InFrontOf(k'.wait[m], a, b) PROVE InFrontOf(k.wait[m], a, b)
      BY <2>1, <2>3, <1>2, UnlinkedInFront
    <2>. QED  BY <2>2, <2>3
  <1>11. \A n \in Queue : /\ Range(k'.wait[n]) \subseteq Range(k.wait[n])
                          /\ x \notin Range(k'.wait[n])
    <2>1. \A n \in Queue : x \in Range(k.wait[n]) => n = m
      <3>1. Sound(k, pc) /\ Listed(k, pc, want)
        BY InvFacts
      <3>2. \A n \in Queue : x \in Range(k.wait[n]) => want[x] = n
        BY <3>1, OwnList
      <3>. QED  BY <3>2, <1>7
    <2>. QED  BY <2>1, <1>2, <1>10
  <1>12. \A n \in Queue : n # m => owner[n] # t
    BY <1>4, <1>5, OrderFacts
  <1>13. \A n, j \in Queue : owner'[n] = owner'[j] => n = j \/ owner'[n] = None
    BY <1>5, <1>8, <1>9, OrderFacts
  <1>14. ASSUME NEW n \in Queue, NEW j \in Queue PROVE owner'[j] \notin Range(k'.wait[n])
    <2>1. \A u \in Range(k.wait[n]) : owner[j] # u
      BY <1>5, OrderFacts
    <2>. QED  BY <2>1, <1>9, <1>11
  <1>15. ASSUME NEW y \in Thread, \A n \in Queue : owner'[n] # y
         PROVE  k'.prio[y] = InitPrio[y]
    <2>1. CASE y = t
      BY <2>1, <1>2, <1>6
    <2>2. CASE y # t
      <3>1. \A n \in Queue : owner[n] # y
        BY <2>2, <1>4, <1>9, <1>15
      <3>. QED  BY <2>2, <3>1, <1>2, <1>5, OrderFacts
    <2>. QED  BY <2>1, <2>2
  <1>16. \A n \in Queue : owner'[n] # None => orig'[n] = InitPrio[owner'[n]]
    BY <1>5, <1>9, OrderFacts
  <1>17. ASSUME NEW n \in Queue, NEW u \in Range(k'.wait[n])
         PROVE  k'.prio[owner'[n]] <= InitPrio[u]
    <2>1. u \in Range(k.wait[n])
      BY <1>11, <1>17
    <2>2. CASE n = m
      BY <2>1, <2>2, <1>2, <1>3, <1>7, <1>8, <1>9
    <2>3. CASE n # m
      <3>1. owner[n] \in Thread /\ k.prio[owner[n]] <= InitPrio[u]
        BY <2>1, <1>5, OrderFacts
      <3>. QED  BY <2>3, <3>1, <1>2, <1>9, <1>12
    <2>. QED  BY <2>2, <2>3
  <1>18. \A n \in Queue, a, b \in Thread :
           InFrontOf(k'.wait[n], a, b) => InitPrio[a] <= InitPrio[b]
    BY <1>2, <1>5, <1>10, OrderFacts
  <1>19. \A n \in Queue \ open' : owner'[n] = None
    BY <1>4, <1>5, <1>9 DEF Disciplined, Orderly
  <1>. QED  BY <1>13, <1>14, <1>15, <1>16, <1>17, <1>18, <1>19 DEF Orderly

(***************************************************************************)
(* The discipline holds at the start: nobody owns anything.                *)
(***************************************************************************)
LEMMA InitOrder == Init => Disciplined
  <1> SUFFICES ASSUME Init PROVE Orderly(k, owner, orig, open)
    BY DEF Disciplined
  <1>1. /\ k.wait = [q \in Queue |-> << >>] /\ k.prio = InitPrio
        /\ \A m \in Queue : owner[m] = None /\ m \in open
    BY InitSound DEF Init, IpcInit, Boot
  <1>2. \A m \in Queue : /\ Range(k.wait[m]) = {}
                         /\ \A x, y : ~ InFrontOf(k.wait[m], x, y)
    BY <1>1 DEF Range, InFrontOf
  <1>. QED  BY <1>1, <1>2 DEF Orderly

(***************************************************************************)
(* The discipline is inductive together with the invariant.                *)
(***************************************************************************)
LEMMA NextOrder == IInv /\ Disciplined /\ [Next]_vars => Disciplined'
  <1> SUFFICES ASSUME IInv, Disciplined, [Next]_vars PROVE Disciplined'
    OBVIOUS
  <1>1. ASSUME NEW t \in Thread, NEW m \in Queue,
               \/ TakeAgain(t, m) \/ TakeFree(t, m) \/ TakeFails(t, m)
               \/ ReleaseRefused(t, m) \/ ReleaseInner(t, m) \/ ReleaseLast(t, m)
               \/ Detach(t, m) \/ Initialise(t, m)
               \/ \E timeout \in Timeouts : TakeWaits(t, m, timeout)
        PROVE  Disciplined'
    <2>1. CASE TakeFree(t, m)
      BY <2>1, OrderTakeFree
    <2>2. CASE ReleaseLast(t, m)
      BY <2>2, OrderReleaseFree, OrderReleaseHands
    <2>3. CASE \E timeout \in Timeouts : TakeWaits(t, m, timeout)
      BY <2>3, OrderTakeWaits
    <2>4. CASE \/ TakeAgain(t, m) \/ TakeFails(t, m) \/ ReleaseRefused(t, m)
               \/ ReleaseInner(t, m) \/ Detach(t, m) \/ Initialise(t, m)
      BY <2>4, OrderInCalls
    <2>. QED  BY <1>1, <2>1, <2>2, <2>3, <2>4
  <1>2. ASSUME NEW t \in Thread,
               \/ TakeReturns(t) \/ TestWaiters(t) \/ FlushWaiter(t)
               \/ (DoSchedule(t) \/ Sleep(t) \/ SleepReturns(t)) /\ UNCHANGED << want, mvars >>
        PROVE  Disciplined'
    BY <1>2, OrderInSteps
  <1>3. CASE \E t \in Thread : ThreadStep(t)
    BY <1>1, <1>2, <1>3 DEF ThreadStep
  <1>4. CASE ClockStep
    BY <1>4, OrderInSteps, KernelAssumption DEF ClockStep
  <1>5. CASE UNCHANGED vars
    BY <1>5 DEF vars, Disciplined
  <1>. QED  BY <1>3, <1>4, <1>5 DEF Next

(***************************************************************************)
(* The discipline while nobody nests mutexes: who owns no mutex has its    *)
(* own priority, an owner has at least the priority of each waiter and can *)
(* go back to its own, and the waiters are sorted.                         *)
(***************************************************************************)
THEOREM AlwaysDisciplined == Spec => [](IInv /\ Disciplined)
  <1>1. Init => IInv /\ Disciplined
    BY InitInv, InitOrder
  <1>2. IInv /\ Disciplined /\ [Next]_vars => IInv' /\ Disciplined'
    BY NextInv, NextOrder
  <1>. QED  BY <1>1, <1>2, PTL DEF Spec

(***************************************************************************)
(* No priority inversion beyond the critical section: while a thread waits *)
(* for a mutex its owner has at least the priority of that thread, after   *)
(* handovers and after timeouts of other waiters too.                      *)
(***************************************************************************)
THEOREM NeverInverted == Spec => []NoInversion
  <1>1. IInv /\ Disciplined => NoInversion
    <2> SUFFICES ASSUME IInv, Disciplined, plain, NEW m \in open, NEW u \in Waiting(m)
                 PROVE  k.prio[owner[m]] <= k.prio[u]
      BY DEF NoInversion
    <2>1. m \in Queue /\ u \in Range(k.wait[m])
      BY DEF IInv, Typed, Waiting
    <2>. QED  BY <2>1, OrderFacts
  <1>. QED  BY <1>1, AlwaysDisciplined, PTL

(***************************************************************************)
(* A thread that owns no mutex has the priority it was created with.       *)
(***************************************************************************)
THEOREM PriorityAlwaysRestored == Spec => []PlainPriorityRestored
  <1>1. IInv /\ Disciplined => PlainPriorityRestored
    BY OrderFacts DEF PlainPriorityRestored, PriorityRestored, OwnsNothing
  <1>. QED  BY <1>1, AlwaysDisciplined, PTL

(***************************************************************************)
(* A release hands the mutex to a waiter, one of the highest priority.     *)
(***************************************************************************)
THEOREM AlwaysHandedToHighest == Spec => HandedToHighest
  <1> DEFINE Handed == \A m \in open : k.wait[m] # << >> /\ owner'[m] # owner[m] /\ plain =>
                         /\ owner'[m] \in Waiting(m)
                         /\ \A u \in Waiting(m) : k.prio[owner'[m]] <= k.prio[u]
  <1>1. IInv /\ Disciplined /\ [Next]_vars => Handed
    <2> SUFFICES ASSUME IInv, Disciplined, [Next]_vars, plain, NEW m \in open,
                        k.wait[m] # << >>, owner'[m] # owner[m]
                 PROVE  /\ owner'[m] \in Waiting(m)
                        /\ \A u \in Waiting(m) : k.prio[owner'[m]] <= k.prio[u]
      OBVIOUS
    <2>1. m \in Queue /\ owner \in [Queue -> Thread \cup {None}]
      BY DEF IInv, Typed
    <2>2. owner[m] # None /\ value[m] = 0
      BY <2>1, MutexFacts DEF Account
    <2>3. \E t \in Thread : ThreadStep(t)
      BY DEF Next, ClockStep, vars, mvars
    <2>4. PICK t \in Thread : ThreadStep(t)
      BY <2>3
    <2>5. \E n \in Queue : TakeFree(t, n) \/ ReleaseLast(t, n) \/ Initialise(t, n)
      BY <2>4 DEF ThreadStep, mvars, TakeAgain, TakeFails, ReleaseRefused, ReleaseInner,
                  Detach, TakeWaits, TakeReturns, TestWaiters, FlushWaiter
    <2>6. ASSUME NEW n \in Queue, n # m,
                 TakeFree(t, n) \/ ReleaseLast(t, n) \/ Initialise(t, n)
          PROVE  FALSE
      <3>1. \E o : owner' = [owner EXCEPT ![n] = o]
        BY <2>6 DEF TakeFree, ReleaseLast, Initialise
      <3>. QED  BY <3>1, <2>1, <2>6
    <2>7. ReleaseLast(t, m)
      <3>1. ~ TakeFree(t, m)
        BY <2>2 DEF TakeFree
      <3>2. ~ Initialise(t, m)
        BY DEF Initialise
      <3>3. PICK n \in Queue : TakeFree(t, n) \/ ReleaseLast(t, n) \/ Initialise(t, n)
        BY <2>5
      <3>4. n = m
        BY <3>3, <2>6
      <3>. QED  BY <3>1, <3>2, <3>3, <3>4
    <2>8. PICK x : x = Head(k.wait[m])
      OBVIOUS
    <2>9. owner'[m] = x
      BY <2>1, <2>7, <2>8 DEF ReleaseLast, NewOwner
    <2>10. x \in Range(k.wait[m]) /\ \A u \in Range(k.wait[m]) : InitPrio[x] <= InitPrio[u]
      BY <2>1, <2>8, HeadIsHighest
    <2>11. \A u \in Range(k.wait[m]) : k.prio[u] = InitPrio[u]
      BY <2>1, OrderFacts
    <2>. QED  BY <2>9, <2>10, <2>11 DEF Waiting
  <1> HIDE DEF Handed
  <1>2. Spec => [][Handed]_vars
    BY <1>1, AlwaysDisciplined, PTL DEF Spec
  <1>. QED  BY <1>2 DEF HandedToHighest, Handed
=============================================================================
