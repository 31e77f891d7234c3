---------------------------- MODULE WaitsProofs ----------------------------
(***************************************************************************)
(* An event, a memory pool and a completion used by the same threads: no   *)
(* thread is left waiting for bits that are set, a block that is free, or  *)
(* something that is done, and bits are consumed once, for any threads,    *)
(* priorities, bits and numbers of blocks.                                 *)
(***************************************************************************)
EXTENDS Waits, IpcProofs

Ops == {"evrecv", "evdetach", "alloc", "mpdetach", "wait"}
Jobs == JobType(Ops, EventArgs)

(* The suspend lists, and those that a detach empties *)
Lists == {EventList, PoolList, DoneList}
Swept == {EventList, PoolList}

(* The call that waits in list q, and the one that empties it *)
OpOf(q) == IF q = EventList THEN "evrecv" ELSE IF q = PoolList THEN "alloc" ELSE "wait"
WaitOps == {"evrecv", "alloc", "wait"}
DetachOf(q) == IF q = EventList THEN "evdetach" ELSE "mpdetach"
DetachOps == {"evdetach", "mpdetach"}

(* The lists of the objects that are closed *)
ShutLists(evOpen, mpOpen) ==
  {q \in Swept : ~ (IF q = EventList THEN evOpen ELSE mpOpen)}

(***************************************************************************)
(* At most one thread empties list q, and only when the object is closed;  *)
(* as no waiter can time out meanwhile, a list that was not empty has      *)
(* still a thread in it; a list that has been emptied stays empty; and     *)
(* nobody goes on in a call on an object that is closed.                   *)
(***************************************************************************)
Sweepers(jb, q) == {u \in Thread : jb[u].op = DetachOf(q)}

SweepOK(s, at, jb, shut, q) ==
  /\ \A u, v \in Sweepers(jb, q) : u = v
  /\ Sweepers(jb, q) # {} => q \in shut /\ Range(s.wait[q]) \cap s.armed = {}
  /\ \A u \in Sweepers(jb, q) : at[u] = "flush" => s.wait[q] # << >>
  /\ q \in shut /\ Sweepers(jb, q) = {} => s.wait[q] = << >>
  /\ q \in shut => \A t \in Thread : jb[t].op = OpOf(q) => t \in Sleepers(s) \/ s.err[t] # "ok"

(***************************************************************************)
(* The waiters are listed, and a thread keeps a call only while it is      *)
(* suspended in it, on its way back, or emptying a list.                   *)
(***************************************************************************)
WaitsInv(s, at, jb, shut) ==
  /\ Sound(s, at)
  /\ at \in [Thread -> IpcPC \cup {"done"}]
  /\ jb \in [Thread -> Jobs]
  /\ \A t \in Thread : jb[t].op \in WaitOps => at[t] \in {"block", "woken"}
  /\ \A t \in Thread : jb[t].op \in DetachOps <=> at[t] \in {"test", "flush"}
  /\ \A t \in Thread : jb[t].op = "evrecv" => jb[t].arg \in EventArgs
  /\ \A q \in Lists : ListedIn(s, jb, q, OpOf(q))
  /\ \A x, y \in Range(s.wait[DoneList]) : x = y
  /\ \A q \in Swept : SweepOK(s, at, jb, shut, q)

Shut == ShutLists(eventOpen, poolOpen)

(***************************************************************************)
(* The inductive invariant.                                                *)
(***************************************************************************)
Unmet(s, jb, set) == \A t \in Range(s.wait[EventList]) : ~ Satisfied(jb[t].arg, set)

IInv ==
  /\ WaitsInv(k, pc, job, Shut)
  /\ EventType /\ PoolType /\ done \in BOOLEAN
  /\ Unmet(k, job, events)
  /\ Enough(k.wait[PoolList], Coming(k, pc, job, "alloc"), free)
  /\ done => k.wait[DoneList] = << >>
-----------------------------------------------------------------------------
(* Facts about the invariant *)

(***************************************************************************)
(* The constants: three lists, each with the call that waits in it.        *)
(***************************************************************************)
LEMMA ListsFacts ==
  /\ EventList \in Queue /\ PoolList \in Queue /\ DoneList \in Queue
  /\ EventList # PoolList /\ PoolList # DoneList /\ EventList # DoneList
  BY WaitsAssumption, EventAssumption, PoolAssumption, CompletionAssumption

(***************************************************************************)
(* Each list has its own calls that wait in it and that empty it.          *)
(***************************************************************************)
LEMMA OpFacts ==
  /\ \A q \in Lists : q \in Queue /\ OpOf(q) \in WaitOps
  /\ \A q, r \in Lists : q = r <=> OpOf(q) = OpOf(r)
  /\ \A q \in Swept : q \in Lists /\ DetachOf(q) \in DetachOps
  /\ \A q, r \in Swept : q = r <=> DetachOf(q) = DetachOf(r)
  /\ OpOf(EventList) = "evrecv" /\ OpOf(PoolList) = "alloc" /\ OpOf(DoneList) = "wait"
  /\ DetachOf(EventList) = "evdetach" /\ DetachOf(PoolList) = "mpdetach"
  /\ EventList \in Swept /\ PoolList \in Swept /\ DoneList \in Lists \ Swept
  /\ EventList \in Lists /\ PoolList \in Lists /\ DoneList \in Lists
  BY ListsFacts DEF Lists, Swept, OpOf, WaitOps, DetachOf, DetachOps

(***************************************************************************)
(* The calls that wait are other ones than those that empty a list.        *)
(***************************************************************************)
LEMMA OpsSplit ==
  /\ Ops = WaitOps \cup DetachOps /\ WaitOps \cap DetachOps = {}
  /\ "none" \notin WaitOps /\ "none" \notin DetachOps
  /\ \A q \in Lists : OpOf(q) \notin DetachOps /\ OpOf(q) # "none"
  /\ \A q \in Swept : DetachOf(q) \notin WaitOps /\ DetachOf(q) # "none"
  BY OpFacts DEF Ops, WaitOps, DetachOps

(***************************************************************************)
(* What the proofs start from.                                             *)
(***************************************************************************)
LEMMA WaitsFacts ==
  ASSUME NEW s, NEW at, NEW jb, NEW shut, WaitsInv(s, at, jb, shut)
  PROVE  /\ DOMAIN at = Thread /\ DOMAIN jb = Thread /\ Sound(s, at)
         /\ s.err \in [Thread -> Err] /\ s.wait \in [Queue -> Seq(Thread)] /\ s.cur \in Thread
         /\ \A q \in Queue : Range(s.wait[q]) \subseteq Sleepers(s)
         /\ s.armed \subseteq Sleepers(s) /\ Sleepers(s) \subseteq Thread
         /\ \A t \in Thread : jb[t].op \in WaitOps \cup DetachOps \cup {"none"}
         /\ \A t \in Thread : at[t] \notin {"block", "woken", "test", "flush"} => jb[t].op = "none"
  <1>1. /\ DOMAIN at = Thread /\ DOMAIN jb = Thread /\ Sound(s, at)
        /\ \A t \in Thread : jb[t].op \in WaitOps \cup DetachOps \cup {"none"}
    BY OpsSplit DEF WaitsInv, Jobs, JobType
  <1>2. /\ s.err \in [Thread -> Err] /\ s.wait \in [Queue -> Seq(Thread)] /\ s.cur \in Thread
        /\ \A q \in Queue : Range(s.wait[q]) \subseteq Sleepers(s)
        /\ s.armed \subseteq Sleepers(s)
    BY <1>1, SoundFacts
  <1>3. \A t \in Thread : at[t] \notin {"block", "woken", "test", "flush"} => jb[t].op = "none"
    BY <1>1 DEF WaitsInv
  <1>. QED  BY <1>1, <1>2, <1>3 DEF Sleepers

(***************************************************************************)
(* A thread that calls a function runs, and is in no call.                 *)
(***************************************************************************)
LEMMA CallerFacts ==
  ASSUME NEW shut, WaitsInv(k, pc, job, shut), NEW t \in Thread, NEW f, InCall(t, f)
  PROVE  /\ t = k.cur /\ t # Idle /\ t \notin Sleepers(k) /\ pc[t] = "run"
         /\ job[t].op = "none"
  <1>1. t = k.cur /\ t # Idle /\ pc[t] = "run" /\ Sound(k, pc)
    BY DEF InCall, WaitsInv
  <1>. QED  BY <1>1, CurrentAwake, WaitsFacts

(***************************************************************************)
(* So does one that goes on in a call, and its object is open.             *)
(***************************************************************************)
LEMMA WokenFacts ==
  ASSUME NEW shut, WaitsInv(k, pc, job, shut), NEW t \in Thread, t = k.cur, pc[t] = "woken"
  PROVE  /\ t # Idle /\ t \notin Sleepers(k)
         /\ \A q \in Swept : job[t].op = OpOf(q) /\ k.err[t] = "ok" => q \notin shut
  <1>1. Sound(k, pc)
    BY DEF WaitsInv
  <1>2. t # Idle /\ t \notin Sleepers(k)
    BY <1>1, CurrentAwake
  <1>. QED  BY <1>2 DEF WaitsInv, SweepOK

-----------------------------------------------------------------------------
(* What a step does to the waiters *)

(***************************************************************************)
(* A step that no waiter notices.                                          *)
(***************************************************************************)
LEMMA SameKeeps ==
  ASSUME NEW s, NEW at, NEW jb, NEW shut, WaitsInv(s, at, jb, shut),
         NEW n, SameWaits(s, n), Sound(n, at)
  PROVE  /\ WaitsInv(n, at, jb, shut)
         /\ \A op : Coming(n, at, jb, op) = Coming(s, at, jb, op)
  <1>1. \A q \in Lists : ListedIn(n, jb, q, OpOf(q))
    <2>1. ASSUME NEW q \in Lists PROVE ListedIn(n, jb, q, OpOf(q))
      <3>1. ListedIn(s, jb, q, OpOf(q))
        BY DEF WaitsInv
      <3>. QED  BY <3>1, ListedSame DEF SameWaits
    <2>. QED  BY <2>1
  <1>2. \A q \in Swept : SweepOK(n, at, jb, shut, q)
    BY DEF WaitsInv, SameWaits, SweepOK
  <1>3. \A op : Coming(n, at, jb, op) = Coming(s, at, jb, op)
    BY DEF Coming, Comes, SameWaits
  <1>. QED  BY <1>1, <1>2, <1>3 DEF WaitsInv, SameWaits

(***************************************************************************)
(* A thread that goes to another point and keeps or has no call.           *)
(***************************************************************************)
LEMMA MoveKeeps ==
  ASSUME NEW s, NEW at, NEW jb, NEW shut, WaitsInv(s, at, jb, shut),
         NEW t \in Thread, at[t] \notin {"test", "flush"},
         NEW p \in IpcPC, p \notin {"test", "flush"},
         p \in {"block", "woken"} <=> at[t] \in {"block", "woken"},
         Sound(s, Moved(at, t, p))
  PROVE  /\ WaitsInv(s, Moved(at, t, p), jb, shut)
         /\ \A op : Coming(s, Moved(at, t, p), jb, op) = Coming(s, at, jb, op)
  <1>1. PICK to : to = Moved(at, t, p)
    OBVIOUS
  <1>2. \A x \in Thread : to[x] = IF x = t THEN p ELSE at[x]
    BY <1>1, WaitsFacts DEF Moved
  <1>3. to \in [Thread -> IpcPC \cup {"done"}]
    BY <1>1 DEF WaitsInv, Moved
  <1>4. \A q \in Swept : SweepOK(s, to, jb, shut, q)
    BY <1>2 DEF WaitsInv, SweepOK, Sweepers
  <1>5. \A op : Coming(s, to, jb, op) = Coming(s, at, jb, op)
    BY <1>2 DEF Coming, Comes
  <1>6. \A x \in Thread : jb[x].op \in WaitOps => to[x] \in {"block", "woken"}
    BY <1>2 DEF WaitsInv
  <1>7. \A x \in Thread : jb[x].op \in DetachOps <=> to[x] \in {"test", "flush"}
    BY <1>2 DEF WaitsInv
  <1>. QED  BY <1>1, <1>3, <1>4, <1>5, <1>6, <1>7 DEF WaitsInv

(***************************************************************************)
(* A thread that is not suspended ends its call, if it is in one, with any *)
(* error number.                                                           *)
(***************************************************************************)
LEMMA ReturnKeeps ==
  ASSUME NEW s, NEW at, NEW jb, NEW shut, WaitsInv(s, at, jb, shut),
         NEW t \in Thread, t # Idle, t \notin Sleepers(s), at[t] \notin {"test", "flush"},
         NEW n, Sound(n, at), Sleepers(n) = Sleepers(s), n.wait = s.wait, n.armed = s.armed,
         \A x \in Thread \ {t} : n.err[x] = s.err[x],
         NEW p \in {"run", "sched", "done"},
         NEW j \in [Thread -> Jobs],
         \A x \in Thread \ {t} : j[x] = jb[x], j[t].op = "none"
  PROVE  /\ WaitsInv(n, Moved(at, t, p), j, shut)
         /\ \A op \in WaitOps : Coming(n, Moved(at, t, p), j, op) = Coming(s, at, jb, op) \ {t}
  <1>1. PICK to : to = Moved(at, t, p)
    OBVIOUS
  <1>2. /\ \A x \in Thread : to[x] = IF x = t THEN p ELSE at[x]
        /\ DOMAIN at = Thread
    BY <1>1, WaitsFacts DEF Moved
  <1>3. to \in [Thread -> IpcPC \cup {"done"}]
    BY <1>1 DEF WaitsInv, Moved, IpcPC
  <1>4. j[t].op = "none" /\ \A x \in Thread : x # t => j[x] = jb[x]
    OBVIOUS
  <1>5. jb[t].op \notin DetachOps
    BY DEF WaitsInv
  <1>6. Sound(n, to)
    BY <1>1, <1>2, MoveSound
  <1>7. \A x \in Sleepers(s) : j[x] = jb[x] /\ n.err[x] = s.err[x]
    BY <1>4, WaitsFacts
  <1>8. ASSUME NEW q \in Lists PROVE ListedIn(n, j, q, OpOf(q))
    <2>1. ListedIn(s, jb, q, OpOf(q)) /\ n.wait[q] = s.wait[q]
      BY DEF WaitsInv
    <2>. QED  BY <2>1, <1>7, ListedSame
  <1>9. ASSUME NEW q \in Swept PROVE SweepOK(n, to, j, shut, q)
    <2>1. Sweepers(j, q) = Sweepers(jb, q) /\ t \notin Sweepers(j, q)
      BY <1>4, <1>5, OpFacts, OpsSplit DEF Sweepers
    <2>2. SweepOK(s, at, jb, shut, q)
      BY DEF WaitsInv
    <2>3. \A x \in Thread : j[x].op = OpOf(q) => x # t
      BY <1>4, OpFacts, OpsSplit
    <2>4. \A u \in Sweepers(j, q) : to[u] = at[u]
      BY <2>1, <1>2 DEF Sweepers
    <2>. QED  BY <2>1, <2>2, <2>3, <2>4, <1>4 DEF SweepOK
  <1>10. \A x \in Thread : j[x].op \in WaitOps => to[x] \in {"block", "woken"}
    BY <1>2, <1>4, OpsSplit DEF WaitsInv
  <1>11. \A x \in Thread : j[x].op \in DetachOps <=> to[x] \in {"test", "flush"}
    BY <1>2, <1>4, OpsSplit DEF WaitsInv
  <1>12. ASSUME NEW op \in WaitOps
         PROVE  Coming(n, to, j, op) = Coming(s, at, jb, op) \ {t}
    <2>1. ~ Comes(n, to, j, op, t)
      BY <1>4, OpsSplit DEF Comes
    <2>2. \A x \in Thread \ {t} : Comes(n, to, j, op, x) <=> Comes(s, at, jb, op, x)
      BY <1>2, <1>4 DEF Comes
    <2>. QED  BY <2>1, <2>2 DEF Coming
  <1>13. \A x \in Thread : j[x].op = "evrecv" => j[x].arg \in EventArgs
    BY <1>4 DEF WaitsInv
  <1>. QED  BY <1>1, <1>3, <1>6, <1>8, <1>9, <1>10, <1>11, <1>12, <1>13 DEF WaitsInv

(***************************************************************************)
(* The same when the thread has been in the call, which is over.           *)
(***************************************************************************)
LEMMA DoneKeeps ==
  ASSUME NEW s, NEW at, NEW shut, WaitsInv(s, at, job, shut),
         NEW t \in Thread, t # Idle, t \notin Sleepers(s), at[t] \notin {"test", "flush"},
         NEW n, Sound(n, at), Sleepers(n) = Sleepers(s), n.wait = s.wait, n.armed = s.armed,
         \A x \in Thread \ {t} : n.err[x] = s.err[x],
         NEW p \in {"run", "sched", "done"}, Done(t)
  PROVE  /\ WaitsInv(n, Moved(at, t, p), job', shut)
         /\ \A op \in WaitOps : Coming(n, Moved(at, t, p), job', op) = Coming(s, at, job, op) \ {t}
  <1>1. /\ job' \in [Thread -> Jobs]
        /\ \A x \in Thread \ {t} : job'[x] = job[x]
        /\ job'[t].op = "none"
    BY DEF Done, WaitsInv, Jobs, JobType, NoJob
  <1>2. PICK j : j = job'
    OBVIOUS
  <1>3. /\ j \in [Thread -> Jobs] /\ j[t].op = "none"
        /\ \A x \in Thread \ {t} : j[x] = job[x]
    BY <1>1, <1>2
  <1>4. /\ WaitsInv(n, Moved(at, t, p), j, shut)
        /\ \A op \in WaitOps : Coming(n, Moved(at, t, p), j, op) = Coming(s, at, job, op) \ {t}
    BY <1>3, ReturnKeeps
  <1>. QED  BY <1>2, <1>4

(***************************************************************************)
(* A thread of a list is woken without an error: it comes back.            *)
(***************************************************************************)
LEMMA WakeOneKeeps ==
  ASSUME NEW s, NEW at, NEW jb, NEW shut, WaitsInv(s, at, jb, shut),
         NEW q \in Lists, q \notin shut, NEW x \in Range(s.wait[q]), NEW n, n = Resume(s, x)
  PROVE  /\ WaitsInv(n, at, jb, shut)
         /\ x \in Sleepers(s) /\ Sleepers(n) = Sleepers(s) \ {x} /\ n.cur = s.cur
         /\ n.err = s.err /\ jb[x].op = OpOf(q)
         /\ x \notin Coming(s, at, jb, OpOf(q))
         /\ Coming(n, at, jb, OpOf(q)) = Coming(s, at, jb, OpOf(q)) \cup {x}
         /\ \A op \in WaitOps \ {OpOf(q)} : Coming(n, at, jb, op) = Coming(s, at, jb, op)
         /\ \A r \in Lists \ {q} : n.wait[r] = s.wait[r]
         /\ Range(n.wait[q]) = Range(s.wait[q]) \ {x}
  <1>1. /\ s.wait \in [Queue -> Seq(Thread)] /\ Sleepers(s) \subseteq Thread
        /\ s.err \in [Thread -> Err] /\ q \in Queue /\ Sound(s, at)
        /\ Range(s.wait[q]) \subseteq Sleepers(s)
    BY WaitsFacts, OpFacts
  <1>3. x \in Sleepers(s) /\ x \in Thread /\ jb[x].op = OpOf(q) /\ s.err[x] = "ok"
    BY <1>1 DEF WaitsInv, ListedIn
  <1>4. Sound(n, at) /\ Awake(s, x, n) /\ n.err = s.err /\ n.cur = s.cur
    BY <1>1, <1>3, ResumeSound
  <1>5. ASSUME NEW r \in Lists
        PROVE  /\ ListedIn(n, jb, r, OpOf(r))
               /\ Range(n.wait[r]) = Range(s.wait[r]) \ {x}
               /\ x \notin Range(s.wait[r]) => n.wait[r] = s.wait[r]
    <2>1. ListedIn(s, jb, r, OpOf(r)) /\ r \in Queue
      BY OpFacts DEF WaitsInv
    <2>2. /\ \A y \in Thread \ {x} : n.err[y] = s.err[y]
          /\ Sound(s, at) /\ x \in Sleepers(s) /\ Awake(s, x, n)
      BY <1>1, <1>3, <1>4
    <2>. QED  BY ONLY <2>1, <2>2, ListedAwake
  <1>6. Sleepers(n) = Sleepers(s) \ {x} /\ n.armed = s.armed \ {x}
    BY <1>4 DEF Awake
  <1>7. \A r \in Lists \ {q} : x \notin Range(s.wait[r])
    <2>1. ASSUME NEW r \in Lists \ {q} PROVE x \notin Range(s.wait[r])
      <3>1. OpOf(r) # OpOf(q) /\ ListedIn(s, jb, r, OpOf(r))
        BY OpFacts DEF WaitsInv
      <3>. QED  BY <3>1, <1>3 DEF ListedIn
    <2>. QED  BY <2>1
  <1>8. \A r \in Lists \ {q} : n.wait[r] = s.wait[r]
    BY <1>5, <1>7
  <1>9. ASSUME NEW r \in Swept PROVE SweepOK(n, at, jb, shut, r)
    <2>1. SweepOK(s, at, jb, shut, r) /\ r \in Lists
      BY OpFacts DEF WaitsInv
    <2>2. CASE r \in shut
      <3>1. n.wait[r] = s.wait[r]
        BY <2>1, <2>2, <1>8
      <3>2. jb[x].op # OpOf(r)
        BY <1>3, <2>1, <2>2, OpFacts
      <3>. QED  BY <2>1, <3>1, <3>2, <1>4, <1>6 DEF SweepOK
    <2>3. CASE r \notin shut
      BY <2>1, <2>3 DEF SweepOK
    <2>. QED  BY <2>2, <2>3
  <1>10. at[x] \in {"block", "woken"}
    BY <1>3, OpFacts DEF WaitsInv
  <1>11. Comes(n, at, jb, OpOf(q), x) /\ ~ Comes(s, at, jb, OpOf(q), x)
    BY <1>3, <1>4, <1>6, <1>10 DEF Comes
  <1>12. \A y \in Thread \ {x} : \A op : Comes(n, at, jb, op, y) <=> Comes(s, at, jb, op, y)
    BY <1>4, <1>6 DEF Comes
  <1>13. Coming(n, at, jb, OpOf(q)) = Coming(s, at, jb, OpOf(q)) \cup {x}
    BY <1>3, <1>11, <1>12 DEF Coming
  <1>14. ASSUME NEW op \in WaitOps \ {OpOf(q)}
         PROVE  Coming(n, at, jb, op) = Coming(s, at, jb, op)
    <2>1. ~ Comes(n, at, jb, op, x) /\ ~ Comes(s, at, jb, op, x)
      BY <1>3 DEF Comes
    <2>. QED  BY <2>1, <1>12 DEF Coming
  <1>15. x \notin Coming(s, at, jb, OpOf(q))
    BY <1>11 DEF Coming
  <1>16. \A y, z \in Range(n.wait[DoneList]) : y = z
    BY <1>5, OpFacts DEF WaitsInv
  <1>17. WaitsInv(n, at, jb, shut)
    BY <1>4, <1>5, <1>9, <1>16 DEF WaitsInv
  <1>. QED  BY <1>3, <1>4, <1>5, <1>6, <1>8, <1>13, <1>14, <1>15, <1>17

(***************************************************************************)
(* The first thread of a list is woken without an error: it comes back.    *)
(***************************************************************************)
LEMMA WakeKeeps ==
  ASSUME NEW s, NEW at, NEW jb, NEW shut, WaitsInv(s, at, jb, shut),
         NEW q \in Lists, q \notin shut, s.wait[q] # << >>,
         NEW n, n = ResumeFirst(s, q), NEW x, x = Head(s.wait[q])
  PROVE  /\ WaitsInv(n, at, jb, shut)
         /\ x \in Sleepers(s) /\ Sleepers(n) = Sleepers(s) \ {x} /\ n.cur = s.cur
         /\ n.err = s.err /\ jb[x].op = OpOf(q)
         /\ x \notin Coming(s, at, jb, OpOf(q))
         /\ Coming(n, at, jb, OpOf(q)) = Coming(s, at, jb, OpOf(q)) \cup {x}
         /\ \A op \in WaitOps \ {OpOf(q)} : Coming(n, at, jb, op) = Coming(s, at, jb, op)
         /\ \A r \in Lists \ {q} : n.wait[r] = s.wait[r]
         /\ Range(n.wait[q]) = Range(s.wait[q]) \ {x}
  <1>1. n = Resume(s, x) /\ s.wait[q] \in Seq(Thread)
    BY WaitsFacts, OpFacts DEF ResumeFirst
  <1>2. x \in Range(s.wait[q])
    BY <1>1, HeadFacts
  <1>3. WaitsInv(s, at, jb, shut) /\ q \in Lists /\ q \notin shut
    OBVIOUS
  <1>. QED  BY ONLY <1>1, <1>2, <1>3, WakeOneKeeps

(* t, which runs, has blocked in the call that waits in list q, which is l now. *)
Blocking(s, at, jb, shut, q, t, l, timeout, n, j) ==
  /\ t = s.cur /\ t \notin Sleepers(s) /\ at[t] \notin {"test", "flush"}
  /\ q \notin shut /\ (q = DoneList => s.wait[q] = << >>)
  /\ Range(l) = Range(s.wait[q]) \cup {t}
  /\ Sound(n, Moved(at, t, "block")) /\ Enters(s, q, t, l, timeout, n)
  /\ j \in [Thread -> Jobs] /\ \A x \in Thread \ {t} : j[x] = jb[x]
  /\ j[t].op = OpOf(q) /\ j[t].wait = timeout
  /\ q = EventList => j[t].arg \in EventArgs

(***************************************************************************)
(* A thread blocks in a call and no longer comes back to it.               *)
(***************************************************************************)
LEMMA EnterKeeps ==
  ASSUME NEW s, NEW at, NEW jb, NEW shut, WaitsInv(s, at, jb, shut), NEW q \in Lists,
         NEW t, NEW l, NEW timeout, NEW n, NEW j,
         Blocking(s, at, jb, shut, q, t, l, timeout, n, j)
  PROVE  /\ WaitsInv(n, Moved(at, t, "block"), j, shut)
         /\ \A op \in WaitOps :
              Coming(n, Moved(at, t, "block"), j, op) = Coming(s, at, jb, op) \ {t}
         /\ \A r \in Lists \ {q} : n.wait[r] = s.wait[r]
         /\ Range(n.wait[q]) = Range(s.wait[q]) \cup {t}
         /\ Sleepers(s) \subseteq Sleepers(n)
  <1>0. /\ t = s.cur /\ t \notin Sleepers(s) /\ at[t] \notin {"test", "flush"}
        /\ q \notin shut /\ (q = DoneList => s.wait[q] = << >>)
        /\ Range(l) = Range(s.wait[q]) \cup {t}
        /\ Sound(n, Moved(at, t, "block")) /\ Enters(s, q, t, l, timeout, n)
        /\ j \in [Thread -> Jobs] /\ \A x \in Thread \ {t} : j[x] = jb[x]
        /\ j[t].op = OpOf(q) /\ j[t].wait = timeout
        /\ q = EventList => j[t].arg \in EventArgs
    BY DEF Blocking
  <1>1. /\ q \in Queue /\ Sound(s, at) /\ s.wait \in [Queue -> Seq(Thread)]
        /\ s.err \in [Thread -> Err] /\ DOMAIN at = Thread /\ t \in Thread
        /\ \A r \in Queue : Range(s.wait[r]) \subseteq Sleepers(s)
    BY <1>0, WaitsFacts, OpFacts
  <1>2. PICK to : to = Moved(at, t, "block")
    OBVIOUS
  <1>3. \A x \in Thread : to[x] = IF x = t THEN "block" ELSE at[x]
    BY <1>1, <1>2 DEF Moved
  <1>4. to \in [Thread -> IpcPC \cup {"done"}]
    BY <1>2 DEF WaitsInv, Moved, IpcPC
  <1>5. jb[t].op \notin DetachOps /\ j[t].op \notin DetachOps /\ j[t].op \in WaitOps
    BY <1>0, <1>1, OpFacts, OpsSplit DEF WaitsInv
  <1>6. /\ Sleepers(n) = Sleepers(s) \cup {t} /\ n.err = [s.err EXCEPT ![t] = "ok"]
        /\ n.armed = (IF timeout = "timed" THEN s.armed \cup {t} ELSE s.armed)
        /\ n.wait = [s.wait EXCEPT ![q] = l]
    BY <1>0 DEF Enters, FallsAsleep
  <1>7. ASSUME NEW r \in Lists
        PROVE  ListedIn(n, j, r, OpOf(r)) /\ (r # q => n.wait[r] = s.wait[r])
    <2>1. ListedIn(s, jb, r, OpOf(r)) /\ r \in Queue /\ (r = q <=> j[t].op = OpOf(r))
      BY <1>0, OpFacts DEF WaitsInv
    <2>2. /\ \A x \in Thread \ {t} : j[x] = jb[x]
          /\ Sound(s, at) /\ t \in Thread /\ t \notin Sleepers(s) /\ q \in Queue
          /\ Range(l) = Range(s.wait[q]) \cup {t} /\ Enters(s, q, t, l, timeout, n)
          /\ r = q <=> j[t].op = OpOf(r)
          /\ j[t].wait = timeout
      BY <1>0, <2>1, <1>1
    <2>. QED  BY ONLY <2>1, <2>2, ListedEnters
  <1>8. ASSUME NEW r \in Swept PROVE SweepOK(n, to, j, shut, r)
    <2>1. SweepOK(s, at, jb, shut, r) /\ r \in Lists /\ r \in Queue /\ DetachOf(r) \in DetachOps
      BY OpFacts DEF WaitsInv
    <2>2. Sweepers(j, r) = Sweepers(jb, r) /\ t \notin Sweepers(j, r)
      BY <1>0, <2>1, <1>5 DEF Sweepers
    <2>3. CASE r \in shut
      <3>1. n.wait[r] = s.wait[r] /\ j[t].op # OpOf(r)
        BY <1>0, <2>1, <2>3, <1>7, OpFacts
      <3>2. Range(n.wait[r]) \cap n.armed \subseteq Range(s.wait[r]) \cap s.armed
        BY <1>0, <2>1, <3>1, <1>1, <1>6
      <3>3. \A u \in Sweepers(j, r) : to[u] = at[u]
        BY <2>2, <1>3 DEF Sweepers
      <3>4. \A y \in Thread : y # t => n.err[y] = s.err[y]
        BY <1>1, <1>6
      <3>. QED  BY <1>0, <2>1, <2>2, <3>1, <3>2, <3>3, <3>4, <1>6 DEF SweepOK
    <2>4. CASE r \notin shut
      BY <2>1, <2>2, <2>4 DEF SweepOK
    <2>. QED  BY <2>3, <2>4
  <1>9. \A x \in Thread : j[x].op \in WaitOps => to[x] \in {"block", "woken"}
    BY <1>0, <1>3 DEF WaitsInv
  <1>10. \A x \in Thread : j[x].op \in DetachOps <=> to[x] \in {"test", "flush"}
    BY <1>0, <1>3, <1>5 DEF WaitsInv
  <1>11. \A x \in Thread : j[x].op = "evrecv" => j[x].arg \in EventArgs
    BY <1>0, OpFacts DEF WaitsInv
  <1>12. ASSUME NEW op \in WaitOps
         PROVE  Coming(n, to, j, op) = Coming(s, at, jb, op) \ {t}
    <2>1. ~ Comes(n, to, j, op, t)
      BY <1>6 DEF Comes
    <2>2. \A x \in Thread \ {t} : Comes(n, to, j, op, x) <=> Comes(s, at, jb, op, x)
      BY <1>0, <1>1, <1>3, <1>6 DEF Comes
    <2>. QED  BY <2>1, <2>2 DEF Coming
  <1>13. Range(n.wait[q]) = Range(s.wait[q]) \cup {t}
    BY <1>0, <1>1, <1>6
  <1>14. \A x, y \in Range(n.wait[DoneList]) : x = y
    <2>1. CASE q = DoneList
      <3>1. Range(s.wait[q]) = {}
        BY <1>0, <2>1 DEF Range
      <3>. QED  BY <3>1, <2>1, <1>13
    <2>2. CASE q # DoneList
      BY <2>2, <1>7, OpFacts DEF WaitsInv
    <2>. QED  BY <2>1, <2>2
  <1>15. WaitsInv(n, to, j, shut)
    BY <1>0, <1>2, <1>4, <1>7, <1>8, <1>9, <1>10, <1>11, <1>14 DEF WaitsInv
  <1>. QED  BY <1>2, <1>6, <1>7, <1>12, <1>13, <1>15

(***************************************************************************)
(* All the waiters of an object that is open are woken with an error.      *)
(***************************************************************************)
LEMMA FailKeeps ==
  ASSUME NEW s, NEW at, NEW jb, NEW shut, WaitsInv(s, at, jb, shut),
         NEW q \in Lists, q \notin shut, NEW n, n = ResumeAll(s, q)
  PROVE  /\ WaitsInv(n, at, jb, shut)
         /\ Sleepers(n) = Sleepers(s) \ Range(s.wait[q])
         /\ \A x \in Range(s.wait[q]) : n.err[x] # "ok"
         /\ \A op : Coming(n, at, jb, op) = Coming(s, at, jb, op)
         /\ \A r \in Lists : n.wait[r] = IF r = q THEN << >> ELSE s.wait[r]
  <1>1. /\ q \in Queue /\ Sound(s, at) /\ s.err \in [Thread -> Err]
        /\ Range(s.wait[q]) \subseteq Sleepers(s) /\ Sleepers(s) \subseteq Thread
    BY WaitsFacts, OpFacts
  <1>2. Sound(n, at) /\ AllFailed(s, q, n)
    BY <1>1, ResumeAllSound
  <1>3. ASSUME NEW r \in Lists
        PROVE  ListedIn(n, jb, r, OpOf(r)) /\ n.wait[r] = IF r = q THEN << >> ELSE s.wait[r]
    <2>1. ListedIn(s, jb, r, OpOf(r)) /\ r \in Queue
      BY OpFacts DEF WaitsInv
    <2>. QED  BY <2>1, <1>1, <1>2, ListedFailed
  <1>4. /\ Sleepers(n) = Sleepers(s) \ Range(s.wait[q]) /\ n.armed = s.armed \ Range(s.wait[q])
        /\ \A x \in Thread : n.err[x] = IF x \in Range(s.wait[q]) THEN "error" ELSE s.err[x]
    BY <1>2 DEF AllFailed
  <1>5. \A op : \A x \in Thread : Comes(n, at, jb, op, x) <=> Comes(s, at, jb, op, x)
    BY <1>1, <1>4 DEF Comes
  <1>6. \A op : Coming(n, at, jb, op) = Coming(s, at, jb, op)
    BY <1>5 DEF Coming
  <1>7. ASSUME NEW r \in Swept PROVE SweepOK(n, at, jb, shut, r)
    <2>1. SweepOK(s, at, jb, shut, r) /\ r \in Lists
      BY OpFacts DEF WaitsInv
    <2>2. CASE r \in shut
      <3>1. n.wait[r] = s.wait[r]
        BY <2>1, <2>2, <1>3
      <3>. QED  BY <2>1, <3>1, <1>4 DEF SweepOK
    <2>3. CASE r \notin shut
      BY <2>1, <2>3 DEF SweepOK
    <2>. QED  BY <2>2, <2>3
  <1>8. \A x, y \in Range(n.wait[DoneList]) : x = y
    <2>1. Range(<< >>) = {}
      BY DEF Range
    <2>. QED  BY <2>1, <1>3, OpFacts DEF WaitsInv
  <1>9. WaitsInv(n, at, jb, shut)
    BY <1>2, <1>3, <1>7, <1>8 DEF WaitsInv
  <1>. QED  BY <1>1, <1>3, <1>4, <1>6, <1>9

(***************************************************************************)
(* A thread that is woken with a timeout or an error leaves its list; a    *)
(* list that is being emptied keeps a thread unless it is that one.        *)
(***************************************************************************)
LEMMA ErrorKeeps ==
  ASSUME NEW s, NEW at, NEW jb, NEW shut, WaitsInv(s, at, jb, shut),
         NEW x \in Sleepers(s), NEW e \in Err \ {"ok"},
         NEW n, Sound(n, at), Awake(s, x, n), n.err = [s.err EXCEPT ![x] = e],
         \A q \in Swept : \A u \in Sweepers(jb, q) : at[u] = "flush" => x \notin Range(s.wait[q])
  PROVE  /\ WaitsInv(n, at, jb, shut)
         /\ \A op : Coming(n, at, jb, op) = Coming(s, at, jb, op)
         /\ \A q \in Lists : Range(n.wait[q]) \subseteq Range(s.wait[q])
  <1>1. Sound(s, at) /\ s.err \in [Thread -> Err] /\ x \in Thread
    BY WaitsFacts
  <1>2. \A y \in Thread : n.err[y] = IF y = x THEN e ELSE s.err[y]
    BY <1>1
  <1>3. ASSUME NEW q \in Lists
        PROVE  /\ ListedIn(n, jb, q, OpOf(q))
               /\ Range(n.wait[q]) = Range(s.wait[q]) \ {x}
               /\ x \notin Range(s.wait[q]) => n.wait[q] = s.wait[q]
    <2>1. \A y \in Thread \ {x} : n.err[y] = s.err[y]
      BY <1>2
    <2>2. ListedIn(s, jb, q, OpOf(q)) /\ q \in Queue
      BY OpFacts DEF WaitsInv
    <2>. QED  BY <2>1, <2>2, <1>1, ListedAwake
  <1>4. Sleepers(n) = Sleepers(s) \ {x} /\ n.armed = s.armed \ {x}
    BY DEF Awake
  <1>5. ASSUME NEW q \in Swept PROVE SweepOK(n, at, jb, shut, q)
    <2>1. /\ SweepOK(s, at, jb, shut, q) /\ Range(n.wait[q]) = Range(s.wait[q]) \ {x}
          /\ x \notin Range(s.wait[q]) => n.wait[q] = s.wait[q]
      BY <1>3, OpFacts DEF WaitsInv
    <2>2. s.wait[q] = << >> => n.wait[q] = << >>
      <3>1. Range(<< >>) = {}
        BY DEF Range
      <3>. QED  BY <3>1, <2>1
    <2>. QED  BY <2>1, <2>2, <1>2, <1>4 DEF SweepOK, Sweepers
  <1>6. \A op : \A y \in Thread : Comes(n, at, jb, op, y) <=> Comes(s, at, jb, op, y)
    BY <1>1, <1>2, <1>4 DEF Comes
  <1>7. \A op : Coming(n, at, jb, op) = Coming(s, at, jb, op)
    BY <1>6 DEF Coming
  <1>8. \A y, z \in Range(n.wait[DoneList]) : y = z
    BY <1>3, OpFacts DEF WaitsInv
  <1>9. WaitsInv(n, at, jb, shut)
    BY <1>3, <1>5, <1>8 DEF WaitsInv
  <1>. QED  BY <1>3, <1>7, <1>9

(***************************************************************************)
(* Who moves into, in or out of the loop that empties a list, and the      *)
(* other list.                                                             *)
(***************************************************************************)
LEMMA SweeperMoves ==
  ASSUME NEW s, NEW at, NEW jb, NEW shut, WaitsInv(s, at, jb, shut),
         NEW t \in Thread, t # Idle, t \notin Sleepers(s), jb[t].op \notin WaitOps,
         NEW p \in IpcPC \ {"block", "woken"},
         NEW j \in [Thread -> Jobs], \A x \in Thread \ {t} : j[x] = jb[x],
         j[t].op \notin WaitOps, j[t].op \in DetachOps <=> p \in {"test", "flush"},
         NEW q \in Swept, jb[t].op \in {"none", DetachOf(q)}, j[t].op \in {"none", DetachOf(q)},
         NEW fin, \A r \in Swept \ {q} : r \in fin <=> r \in shut,
         SweepOK(s, Moved(at, t, p), j, fin, q)
  PROVE  /\ WaitsInv(s, Moved(at, t, p), j, fin)
         /\ \A op \in WaitOps : Coming(s, Moved(at, t, p), j, op) = Coming(s, at, jb, op)
  <1>1. PICK to : to = Moved(at, t, p)
    OBVIOUS
  <1>2. \A x \in Thread : to[x] = IF x = t THEN p ELSE at[x]
    BY <1>1, WaitsFacts DEF Moved
  <1>3. to \in [Thread -> IpcPC \cup {"done"}]
    BY <1>1 DEF WaitsInv, Moved
  <1>4. Sound(s, to)
    BY <1>1, WaitsFacts, MoveSound
  <1>5. ASSUME NEW r \in Lists PROVE ListedIn(s, j, r, OpOf(r))
    <2>1. ListedIn(s, jb, r, OpOf(r)) /\ \A x \in Sleepers(s) : j[x] = jb[x]
      BY WaitsFacts DEF WaitsInv
    <2>. QED  BY <2>1, ListedSame
  <1>6. ASSUME NEW r \in Swept PROVE SweepOK(s, to, j, fin, r)
    <2>1. CASE r = q
      BY <2>1, <1>1
    <2>2. CASE r # q
      <3>1. /\ SweepOK(s, at, jb, shut, r) /\ (r \in fin <=> r \in shut)
            /\ jb[t].op # DetachOf(r) /\ j[t].op # DetachOf(r) /\ j[t].op # OpOf(r)
        BY <2>2, OpFacts, OpsSplit DEF WaitsInv
      <3>2. Sweepers(j, r) = Sweepers(jb, r) /\ t \notin Sweepers(j, r)
        BY <3>1 DEF Sweepers
      <3>3. \A u \in Sweepers(j, r) : to[u] = at[u]
        BY <3>2, <1>2 DEF Sweepers
      <3>. QED  BY <3>1, <3>2, <3>3 DEF SweepOK
    <2>. QED  BY <2>1, <2>2
  <1>7. \A x \in Thread : j[x].op \in WaitOps => to[x] \in {"block", "woken"}
    BY <1>2 DEF WaitsInv
  <1>8. \A x \in Thread : j[x].op \in DetachOps <=> to[x] \in {"test", "flush"}
    BY <1>2 DEF WaitsInv
  <1>9. \A x \in Thread : j[x].op = "evrecv" => j[x].arg \in EventArgs
    BY DEF WaitsInv, WaitOps
  <1>10. ASSUME NEW op \in WaitOps PROVE Coming(s, to, j, op) = Coming(s, at, jb, op)
    <2>1. \A x \in Thread : Comes(s, to, j, op, x) <=> Comes(s, at, jb, op, x)
      BY <1>2 DEF Comes
    <2>. QED  BY <2>1 DEF Coming
  <1>. QED  BY <1>1, <1>3, <1>4, <1>5, <1>6, <1>7, <1>8, <1>9, <1>10 DEF WaitsInv

(***************************************************************************)
(* A thread that runs goes to sleep for a time.                            *)
(***************************************************************************)
LEMMA NapKeeps ==
  ASSUME NEW s, NEW at, NEW jb, NEW shut, WaitsInv(s, at, jb, shut),
         NEW t \in Thread, at[t] = "run", t \notin Sleepers(s),
         NEW n, Sound(n, Moved(at, t, "nap")), FallsAsleep(s, t, n),
         n.wait = s.wait, n.armed = s.armed \cup {t}
  PROVE  /\ WaitsInv(n, Moved(at, t, "nap"), jb, shut)
         /\ \A op \in WaitOps : Coming(n, Moved(at, t, "nap"), jb, op) = Coming(s, at, jb, op)
  <1>1. /\ Sound(s, at) /\ s.err \in [Thread -> Err] /\ DOMAIN at = Thread
        /\ \A q \in Queue : Range(s.wait[q]) \subseteq Sleepers(s)
        /\ jb[t].op = "none"
    BY WaitsFacts
  <1>2. PICK to : to = Moved(at, t, "nap")
    OBVIOUS
  <1>3. \A x \in Thread : to[x] = IF x = t THEN "nap" ELSE at[x]
    BY <1>1, <1>2 DEF Moved
  <1>4. to \in [Thread -> IpcPC \cup {"done"}]
    BY <1>2 DEF WaitsInv, Moved, IpcPC
  <1>5. /\ Sleepers(n) = Sleepers(s) \cup {t} /\ n.err = [s.err EXCEPT ![t] = "ok"]
        /\ \A x \in Thread \ {t} : n.err[x] = s.err[x]
    BY <1>1 DEF FallsAsleep
  <1>6. ASSUME NEW q \in Lists PROVE ListedIn(n, jb, q, OpOf(q))
    <2>1. ListedIn(s, jb, q, OpOf(q)) /\ q \in Queue /\ jb[t].op # OpOf(q) /\ Sound(s, at)
      BY <1>1, OpFacts, OpsSplit DEF WaitsInv
    <2>. QED  BY <2>1, ListedAsleep
  <1>7. ASSUME NEW q \in Swept PROVE SweepOK(n, to, jb, shut, q)
    <2>1. /\ SweepOK(s, at, jb, shut, q) /\ q \in Queue
          /\ jb[t].op # OpOf(q) /\ jb[t].op # DetachOf(q)
      BY <1>1, OpFacts, OpsSplit DEF WaitsInv
    <2>2. Range(n.wait[q]) \cap n.armed = Range(s.wait[q]) \cap s.armed
      BY <1>1, <2>1
    <2>3. \A u \in Sweepers(jb, q) : to[u] = at[u]
      BY <2>1, <1>3 DEF Sweepers
    <2>. QED  BY <2>1, <2>2, <2>3, <1>5 DEF SweepOK
  <1>8. \A x \in Thread : jb[x].op \in WaitOps => to[x] \in {"block", "woken"}
    BY <1>1, <1>3, OpsSplit DEF WaitsInv
  <1>9. \A x \in Thread : jb[x].op \in DetachOps <=> to[x] \in {"test", "flush"}
    BY <1>1, <1>3, OpsSplit DEF WaitsInv
  <1>10. ASSUME NEW op \in WaitOps PROVE Coming(n, to, jb, op) = Coming(s, at, jb, op)
    <2>1. \A x \in Thread : Comes(n, to, jb, op, x) <=> Comes(s, at, jb, op, x)
      BY <1>1, <1>3, <1>5, OpsSplit DEF Comes
    <2>. QED  BY <2>1 DEF Coming
  <1>. QED  BY <1>2, <1>4, <1>6, <1>7, <1>8, <1>9, <1>10 DEF WaitsInv

-----------------------------------------------------------------------------
(* What the users of one object notice of a step *)

(* Nobody begins to wait for the event or changes what it waits for, and
   nobody is woken with its bits. *)
EventQuiet(s, jb, n, j) ==
  /\ Range(n.wait[EventList]) \subseteq Range(s.wait[EventList])
  /\ \A t \in Range(n.wait[EventList]) : j[t].arg = jb[t].arg
  /\ \A t \in Sleepers(s) \ Sleepers(n) : jb[t].op = "evrecv" => n.err[t] # "ok"

(* Nobody begins to wait for a block, and as many threads come for one. *)
PoolQuiet(s, at, jb, n, to, j) ==
  /\ Range(n.wait[PoolList]) \subseteq Range(s.wait[PoolList])
  /\ Coming(n, to, j, "alloc") = Coming(s, at, jb, "alloc")

(* Nobody begins to wait for the completion. *)
DoneQuiet(s, n) == Range(n.wait[DoneList]) \subseteq Range(s.wait[DoneList])

Quiet(s, at, jb, n, to, j) ==
  EventQuiet(s, jb, n, j) /\ PoolQuiet(s, at, jb, n, to, j) /\ DoneQuiet(s, n)

(***************************************************************************)
(* With fewer bits in the event no request is met that was not.            *)
(***************************************************************************)
LEMMA SatisfiedLess ==
  ASSUME NEW r, NEW set, NEW less, less \subseteq set, Satisfied(r, less)
  PROVE  Satisfied(r, set)
  BY DEF Satisfied

(***************************************************************************)
(* A list whose threads all stood in an empty one is empty.                *)
(***************************************************************************)
LEMMA StillEmpty ==
  ASSUME NEW l \in Seq(Thread), NEW w, Range(l) \subseteq Range(w), w = << >>
  PROVE  l = << >>
  <1>1. Range(w) = {}
    BY DEF Range
  <1>. QED  BY <1>1, HeadFacts

(***************************************************************************)
(* Such steps keep the parts of the invariant that concern one object.     *)
(***************************************************************************)
LEMMA EventKept ==
  ASSUME IInv, EventQuiet(k, job, k', job'), events' \subseteq events
  PROVE  Unmet(k', job', events') /\ ConsumedOnce
  <1>1. ASSUME NEW t \in Range(k'.wait[EventList])
        PROVE  ~ Satisfied(job'[t].arg, events')
    <2>1. t \in Range(k.wait[EventList]) /\ job'[t].arg = job[t].arg
      BY <1>1 DEF EventQuiet
    <2>2. ~ Satisfied(job[t].arg, events)
      BY <2>1 DEF IInv, Unmet
    <2>. QED  BY <2>1, <2>2, SatisfiedLess
  <1>2. Unmet(k', job', events')
    BY <1>1 DEF Unmet
  <1>3. \A t \in Thread : ~ GetsBits(t)
    BY DEF EventQuiet, GetsBits, Sleepers
  <1>. QED  BY <1>2, <1>3 DEF ConsumedOnce

(***************************************************************************)
(* A step that neither frees a block nor begins to wait for one leaves     *)
(* enough threads on their way to the free blocks.                         *)
(***************************************************************************)
LEMMA PoolKept ==
  ASSUME IInv, WaitsInv(k', pc', job', Shut'),
         PoolQuiet(k, pc, job, k', pc', job'), free' = free
  PROVE  Enough(k'.wait[PoolList], Coming(k', pc', job', "alloc"), free')
  <1>1. k'.wait[PoolList] \in Seq(Thread) /\ k.wait[PoolList] \in Seq(Thread)
    BY WaitsFacts, OpFacts DEF IInv
  <1>2. k'.wait[PoolList] # << >> => k.wait[PoolList] # << >>
    BY <1>1, StillEmpty DEF PoolQuiet
  <1>. QED  BY <1>2 DEF IInv, PoolQuiet, Enough

(***************************************************************************)
(* A step after which nobody new waits leaves the list of a completion     *)
(* that is done empty.                                                     *)
(***************************************************************************)
LEMMA DoneKept ==
  ASSUME IInv, WaitsInv(k', pc', job', Shut'), DoneQuiet(k, k'), done' => done
  PROVE  done' => k'.wait[DoneList] = << >>
  <1>1. k'.wait[DoneList] \in Seq(Thread) /\ k.wait[DoneList] \in Seq(Thread)
    BY WaitsFacts, OpFacts DEF IInv
  <1>. QED  BY <1>1, StillEmpty DEF IInv, DoneQuiet

(***************************************************************************)
(* So the invariant is kept by a step that no user notices.                *)
(***************************************************************************)
LEMMA QuietKept ==
  ASSUME IInv, WaitsInv(k', pc', job', Shut'), Quiet(k, pc, job, k', pc', job'),
         EventType', PoolType', done' \in BOOLEAN,
         events' \subseteq events, free' = free, done' => done
  PROVE  IInv' /\ ConsumedOnce
  <1>1. Unmet(k', job', events') /\ ConsumedOnce
    BY EventKept DEF Quiet
  <1>2. Enough(k'.wait[PoolList], Coming(k', pc', job', "alloc"), free')
    BY PoolKept DEF Quiet
  <1>3. done' => k'.wait[DoneList] = << >>
    BY DoneKept DEF Quiet
  <1>. QED  BY <1>1, <1>2, <1>3 DEF IInv

-----------------------------------------------------------------------------
(* The steps that the users of the objects do not notice *)

(***************************************************************************)
(* A step that wakes nobody without an error and lets nobody begin to      *)
(* wait is quiet.                                                          *)
(***************************************************************************)
LEMMA QuietIf ==
  ASSUME NEW s, NEW at, NEW jb, NEW shut, WaitsInv(s, at, jb, shut), NEW n, NEW to, NEW j,
         \A q \in Lists : Range(n.wait[q]) \subseteq Range(s.wait[q]),
         Coming(n, to, j, "alloc") = Coming(s, at, jb, "alloc"),
         \A x \in Sleepers(s) : j[x] = jb[x] /\ (x \notin Sleepers(n) => n.err[x] # "ok")
  PROVE  Quiet(s, at, jb, n, to, j)
  <1>1. \A x \in Range(s.wait[EventList]) : x \in Sleepers(s)
    BY WaitsFacts, OpFacts
  <1>. QED  BY <1>1, OpFacts DEF Quiet, EventQuiet, PoolQuiet, DoneQuiet

(***************************************************************************)
(* A call fails after its thread was woken with an error.                  *)
(***************************************************************************)
LEMMA CallFailsQuiet ==
  ASSUME NEW shut, WaitsInv(k, pc, job, shut), NEW t \in Thread, CallFails(t)
  PROVE  WaitsInv(k', pc', job', shut) /\ Quiet(k, pc, job, k', pc', job')
  <1>1. /\ t = k.cur /\ pc[t] = "woken" /\ k.err[t] # "ok" /\ k' = k
        /\ pc' = Moved(pc, t, "run") /\ Done(t) /\ Sound(k, pc)
    BY DEF CallFails, Goto, Moved, WaitsInv
  <1>2. t \notin Sleepers(k) /\ t # Idle
    BY <1>1, CurrentAwake
  <1>3. /\ WaitsInv(k, Moved(pc, t, "run"), job', shut)
        /\ \A op \in WaitOps :
             Coming(k, Moved(pc, t, "run"), job', op) = Coming(k, pc, job, op) \ {t}
    <2>1. Sound(k, pc) /\ "run" \in {"run", "sched", "done"} /\ pc[t] \notin {"test", "flush"}
          /\ Done(t)
      BY <1>1
    <2>. QED  BY <2>1, <1>2, DoneKeeps
  <1>4. Coming(k, Moved(pc, t, "run"), job', "alloc") = Coming(k, pc, job, "alloc")
    BY <1>1, <1>3 DEF Coming, Comes, WaitOps
  <1>5. \A x \in Sleepers(k) : job'[x] = job[x]
    BY <1>1, <1>2, WaitsFacts DEF Done
  <1>. QED  BY <1>1, <1>3, <1>4, <1>5, QuietIf

(***************************************************************************)
(* rt_schedule at the end of a section.                                    *)
(***************************************************************************)
LEMMA ScheduleQuiet ==
  ASSUME NEW shut, WaitsInv(k, pc, job, shut), NEW t \in Thread, DoSchedule(t), job' = job
  PROVE  WaitsInv(k', pc', job', shut) /\ Quiet(k, pc, job, k', pc', job')
  <1>1. Sound(k, pc) /\ DOMAIN pc = Thread
    BY WaitsFacts
  <1>2. PICK p : p = IF pc[t] = "block" THEN "woken" ELSE IF pc[t] = "nap" THEN "slept" ELSE "run"
    OBVIOUS
  <1>3. /\ Sound(k', pc') /\ SameWaits(k, k') /\ pc[t] \in {"sched", "block", "nap"}
        /\ pc' = Moved(pc, t, p)
    BY <1>1, <1>2, StepDoSchedule
  <1>4. Sound(k', pc)
    BY <1>1, ScheduleSound DEF DoSchedule
  <1>5. /\ WaitsInv(k', pc, job, shut)
        /\ \A op : Coming(k', pc, job, op) = Coming(k, pc, job, op)
    BY <1>3, <1>4, SameKeeps
  <1>6. /\ p \in IpcPC /\ p \notin {"test", "flush"} /\ pc[t] \notin {"test", "flush"}
        /\ p \in {"block", "woken"} <=> pc[t] \in {"block", "woken"}
    BY <1>2, <1>3 DEF IpcPC
  <1>7. /\ WaitsInv(k', Moved(pc, t, p), job, shut)
        /\ \A op : Coming(k', Moved(pc, t, p), job, op) = Coming(k', pc, job, op)
    <2>1. Sound(k', Moved(pc, t, p))
      BY <1>3
    <2>. QED  BY <2>1, <1>5, <1>6, MoveKeeps
  <1>8. Coming(k', pc', job', "alloc") = Coming(k, pc, job, "alloc")
    BY <1>3, <1>5, <1>7
  <1>9. \A x \in Sleepers(k) : job'[x] = job[x] /\ x \in Sleepers(k')
    BY <1>3 DEF SameWaits
  <1>10. \A q \in Lists : Range(k'.wait[q]) \subseteq Range(k.wait[q])
    BY <1>3 DEF SameWaits
  <1>. QED  BY <1>3, <1>7, <1>8, <1>9, <1>10, QuietIf

(***************************************************************************)
(* rt_thread_sleep.                                                        *)
(***************************************************************************)
LEMMA SleepQuiet ==
  ASSUME NEW shut, WaitsInv(k, pc, job, shut), NEW t \in Thread, Sleep(t), job' = job
  PROVE  WaitsInv(k', pc', job', shut) /\ Quiet(k, pc, job, k', pc', job')
  <1>1. Sound(k, pc) /\ DOMAIN pc = Thread
    BY WaitsFacts
  <1>2. /\ Sound(k', pc') /\ FallsAsleep(k, t, k')
        /\ k'.wait = k.wait /\ k'.armed = k.armed \cup {t}
        /\ pc[t] = "run" /\ pc' = Moved(pc, t, "nap")
    BY <1>1, StepSleep
  <1>3. t \notin Sleepers(k)
    BY CallerFacts DEF Sleep
  <1>4. /\ WaitsInv(k', Moved(pc, t, "nap"), job, shut)
        /\ \A op \in WaitOps : Coming(k', Moved(pc, t, "nap"), job, op) = Coming(k, pc, job, op)
    <2>1. Sound(k', Moved(pc, t, "nap"))
      BY <1>2
    <2>. QED  BY <2>1, <1>2, <1>3, NapKeeps
  <1>5. Coming(k', pc', job', "alloc") = Coming(k, pc, job, "alloc")
    BY <1>2, <1>4 DEF WaitOps
  <1>6. \A x \in Sleepers(k) : job'[x] = job[x] /\ x \in Sleepers(k')
    BY <1>2 DEF FallsAsleep
  <1>. QED  BY <1>2, <1>4, <1>5, <1>6, QuietIf

(***************************************************************************)
(* The end of rt_thread_sleep.                                             *)
(***************************************************************************)
LEMMA SleepReturnsQuiet ==
  ASSUME NEW shut, WaitsInv(k, pc, job, shut), NEW t \in Thread, SleepReturns(t), job' = job
  PROVE  WaitsInv(k', pc', job', shut) /\ Quiet(k, pc, job, k', pc', job')
  <1>1. Sound(k, pc) /\ DOMAIN pc = Thread /\ job \in [Thread -> Jobs]
    BY WaitsFacts DEF WaitsInv
  <1>2. /\ Sound(k', pc') /\ Sleepers(k') = Sleepers(k)
        /\ k'.wait = k.wait /\ k'.armed = k.armed
        /\ \A x \in Thread \ {t} : k'.err[x] = k.err[x]
        /\ pc[t] = "slept" /\ pc' = Moved(pc, t, "run") /\ t \notin Sleepers(k)
    BY <1>1, StepSleepReturns
  <1>3. t = k.cur /\ t # Idle /\ job[t].op = "none"
    BY <1>1, <1>2, CurrentAwake, WaitsFacts DEF SleepReturns
  <1>4. Sound(k', pc)
    <2>1. PICK e : e = IF k.err[t] = "timeout" THEN "ok" ELSE k.err[t]
      OBVIOUS
    <2>2. k' = ErrSet(k, t, e)
      BY <2>1 DEF SleepReturns, ErrSet
    <2>3. e \in Err
      BY <2>1, WaitsFacts DEF Err
    <2>. QED  BY <2>2, <2>3, <1>1, ErrSound
  <1>5. /\ WaitsInv(k', Moved(pc, t, "run"), job, shut)
        /\ \A op \in WaitOps :
             Coming(k', Moved(pc, t, "run"), job, op) = Coming(k, pc, job, op) \ {t}
    <2>1. "run" \in {"run", "sched", "done"} /\ pc[t] \notin {"test", "flush"}
      BY <1>2
    <2>. QED  BY <2>1, <1>1, <1>2, <1>3, <1>4, ReturnKeeps
  <1>6. Coming(k', pc', job', "alloc") = Coming(k, pc, job, "alloc")
    BY <1>2, <1>3, <1>5 DEF Coming, Comes, WaitOps
  <1>7. \A x \in Sleepers(k) : job'[x] = job[x] /\ x \in Sleepers(k')
    BY <1>2
  <1>. QED  BY <1>2, <1>5, <1>6, <1>7, QuietIf

(***************************************************************************)
(* The clock: the end of a time slice, and a timer that fires.             *)
(***************************************************************************)
LEMMA ClockQuiet ==
  ASSUME NEW shut, WaitsInv(k, pc, job, shut), ClockStep
  PROVE  WaitsInv(k', pc', job', shut) /\ Quiet(k, pc, job, k', pc', job')
  <1>1. job' = job /\ Sound(k, pc)
    BY WaitsFacts DEF ClockStep
  <1>2. CASE Tick
    <2>1. Sound(k', pc') /\ SameWaits(k, k') /\ pc' = pc
      BY <1>1, <1>2, StepTick
    <2>2. /\ WaitsInv(k', pc, job, shut)
          /\ \A op : Coming(k', pc, job, op) = Coming(k, pc, job, op)
      <3>1. Sound(k', pc)
        BY <2>1
      <3>. QED  BY <3>1, <2>1, SameKeeps
    <2>3. /\ \A x \in Sleepers(k) : job'[x] = job[x] /\ x \in Sleepers(k')
          /\ \A q \in Lists : Range(k'.wait[q]) \subseteq Range(k.wait[q])
      BY <1>1, <2>1 DEF SameWaits
    <2>4. Coming(k', pc', job', "alloc") = Coming(k, pc, job, "alloc")
      BY <1>1, <2>1, <2>2
    <2>. QED  BY <1>1, <2>1, <2>2, <2>3, <2>4, QuietIf
  <1>3. ASSUME NEW x \in Thread, TickTimeout(x)
        PROVE  WaitsInv(k', pc', job', shut) /\ Quiet(k, pc, job, k', pc', job')
    <2>1. /\ Sound(k', pc') /\ Awake(k, x, k') /\ k'.err = [k.err EXCEPT ![x] = "timeout"]
          /\ x \in Sleepers(k) /\ x \in k.armed /\ pc' = pc
      BY <1>1, <1>3, StepTickTimeout
    <2>2. /\ WaitsInv(k', pc, job, shut)
          /\ \A op : Coming(k', pc, job, op) = Coming(k, pc, job, op)
          /\ \A q \in Lists : Range(k'.wait[q]) \subseteq Range(k.wait[q])
      <3>1. "timeout" \in Err \ {"ok"} /\ Sound(k', pc)
        BY <2>1 DEF Err
      <3>2. \A q \in Swept : \A u \in Sweepers(job, q) :
              pc[u] = "flush" => x \notin Range(k.wait[q])
        BY <2>1 DEF WaitsInv, SweepOK
      <3>. QED  BY <3>1, <3>2, <2>1, ErrorKeeps
    <2>3. \A y \in Sleepers(k) : job'[y] = job[y] /\ (y \notin Sleepers(k') => k'.err[y] # "ok")
      BY <1>1, <2>1, WaitsFacts DEF Awake
    <2>4. Coming(k', pc', job', "alloc") = Coming(k, pc, job, "alloc")
      BY <1>1, <2>1, <2>2
    <2>. QED  BY <1>1, <2>1, <2>2, <2>3, <2>4, QuietIf
  <1>. QED  BY <1>2, <1>3 DEF ClockStep

(***************************************************************************)
(* A detach begins: nobody is to go on in a call on the object.            *)
(***************************************************************************)
LEMMA StartSweep ==
  ASSUME NEW shut, WaitsInv(k, pc, job, shut), NEW q \in Swept, q \notin shut,
         NEW t \in Thread, InCall(t, DetachOf(q)),
         NobodyInside({OpOf(q)}), Waiting(q) \cap k.armed = {}, BeginFlush(t, DetachOf(q)),
         NEW fin, q \in fin, \A r \in Swept \ {q} : r \in fin <=> r \in shut
  PROVE  WaitsInv(k', pc', job', fin) /\ Quiet(k, pc, job, k', pc', job')
  <1>1. PICK j : j = job'
    OBVIOUS
  <1>2. /\ k' = k /\ pc' = Moved(pc, t, "test")
        /\ j = [job EXCEPT ![t] = [op |-> DetachOf(q), wait |-> "none", arg |-> Junk]]
    BY <1>1 DEF BeginFlush, Begins, Goto, Moved
  <1>3. /\ t # Idle /\ t \notin Sleepers(k) /\ pc[t] = "run" /\ job[t].op = "none"
        /\ job \in [Thread -> Jobs] /\ DetachOf(q) \in DetachOps
        /\ DetachOf(q) \notin WaitOps /\ DetachOf(q) # "none" /\ DetachOf(q) # OpOf(q)
    <2>1. /\ t # Idle /\ t \notin Sleepers(k) /\ pc[t] = "run" /\ job[t].op = "none"
      BY CallerFacts
    <2>2. job \in [Thread -> Jobs]
      BY DEF WaitsInv
    <2>. QED  BY <2>1, <2>2, OpFacts, OpsSplit
  <1>4. /\ j \in [Thread -> Jobs] /\ j[t].op = DetachOf(q)
        /\ \A x \in Thread \ {t} : j[x] = job[x]
    BY <1>2, <1>3, OpsSplit DEF Jobs, JobType
  <1>5. Sweepers(job, q) = {}
    BY DEF WaitsInv, SweepOK
  <1>6. \A x \in Thread : x \in Sweepers(j, q) <=> x = t
    BY <1>3, <1>4, <1>5 DEF Sweepers
  <1>7. SweepOK(k, Moved(pc, t, "test"), j, fin, q)
    <2>1. \A x \in Thread : j[x].op = OpOf(q) => x \in Sleepers(k) \/ k.err[x] # "ok"
      BY <1>3, <1>4 DEF NobodyInside, Sleepers
    <2>2. Moved(pc, t, "test")[t] = "test"
      BY WaitsFacts DEF Moved
    <2>3. \A u \in Sweepers(j, q) : u = t
      BY <1>6 DEF Sweepers
    <2>4. t \in Sweepers(j, q)
      BY <1>6
    <2>. QED  BY <2>1, <2>2, <2>3, <2>4 DEF SweepOK, Waiting
  <1>8. /\ WaitsInv(k, Moved(pc, t, "test"), j, fin)
        /\ \A op \in WaitOps : Coming(k, Moved(pc, t, "test"), j, op) = Coming(k, pc, job, op)
    <2>1. /\ "test" \in IpcPC \ {"block", "woken"} /\ job[t].op \notin WaitOps
          /\ j[t].op \notin WaitOps /\ (j[t].op \in DetachOps <=> "test" \in {"test", "flush"})
          /\ job[t].op \in {"none", DetachOf(q)} /\ j[t].op \in {"none", DetachOf(q)}
          /\ j \in [Thread -> Jobs] /\ (\A x \in Thread \ {t} : j[x] = job[x])
          /\ t # Idle /\ t \notin Sleepers(k)
      BY <1>3, <1>4, OpsSplit DEF IpcPC
    <2>. QED  BY <2>1, <1>7, SweeperMoves
  <1>9. \A x \in Sleepers(k) : j[x] = job[x]
    BY <1>3, <1>4 DEF Sleepers
  <1>10. Coming(k', pc', job', "alloc") = Coming(k, pc, job, "alloc")
    BY <1>1, <1>2, <1>8 DEF WaitOps
  <1>. QED  BY <1>1, <1>2, <1>8, <1>9, <1>10, QuietIf

(***************************************************************************)
(* The test of the loop that empties a list, and a round of it.            *)
(***************************************************************************)
LEMMA SweepTest ==
  ASSUME NEW shut, WaitsInv(k, pc, job, shut), NEW q \in Swept, NEW t \in Thread,
         job[t].op = DetachOf(q), TestList(t, q),
         IF k.wait[q] = << >> THEN Done(t) ELSE UNCHANGED job
  PROVE  WaitsInv(k', pc', job', shut) /\ Quiet(k, pc, job, k', pc', job')
  <1>1. Sound(k, pc) /\ DOMAIN pc = Thread /\ job \in [Thread -> Jobs]
    BY WaitsFacts DEF WaitsInv
  <1>2. /\ k' = k /\ t \notin Sleepers(k) /\ t = k.cur /\ pc[t] = "test"
        /\ pc' = Moved(pc, t, IF k.wait[q] = << >> THEN "run" ELSE "flush")
    BY <1>1, StepTestList
  <1>3. t # Idle
    BY <1>1, <1>2, CurrentAwake
  <1>4. PICK p : p = IF k.wait[q] = << >> THEN "run" ELSE "flush"
    OBVIOUS
  <1>5. PICK j : j = job'
    OBVIOUS
  <1>6. /\ j \in [Thread -> Jobs] /\ \A x \in Thread \ {t} : j[x] = job[x]
        /\ j[t].op = IF k.wait[q] = << >> THEN "none" ELSE DetachOf(q)
    BY <1>1, <1>5 DEF Done, NoJob, Jobs, JobType
  <1>7. /\ DetachOf(q) \in DetachOps /\ DetachOf(q) \notin WaitOps
        /\ DetachOf(q) # "none" /\ "none" \notin WaitOps /\ "none" \notin DetachOps
    BY OpFacts, OpsSplit
  <1>8. SweepOK(k, pc, job, shut, q) /\ t \in Sweepers(job, q)
    BY DEF WaitsInv, Sweepers
  <1>9. Moved(pc, t, p)[t] = p
    BY <1>1 DEF Moved
  <1>10. \A x \in Thread : j[x].op = OpOf(q) => job[x].op = OpOf(q)
    <2>1. OpOf(q) \notin DetachOps /\ OpOf(q) # "none"
      BY OpFacts, OpsSplit
    <2>. QED  BY <2>1, <1>6, <1>7
  <1>11. SweepOK(k, Moved(pc, t, p), j, shut, q)
    <2>1. CASE k.wait[q] = << >>
      <3>1. Sweepers(j, q) = {}
        BY <2>1, <1>6, <1>7, <1>8 DEF SweepOK, Sweepers
      <3>. QED  BY <3>1, <2>1, <1>8, <1>10 DEF SweepOK
    <2>2. CASE k.wait[q] # << >>
      <3>1. \A x \in Thread : x \in Sweepers(j, q) <=> x = t
        BY <2>2, <1>6, <1>7, <1>8 DEF SweepOK, Sweepers
      <3>2. t \in Sweepers(j, q) /\ \A u \in Sweepers(j, q) : u = t
        BY <3>1 DEF Sweepers
      <3>. QED  BY <3>2, <2>2, <1>8, <1>10 DEF SweepOK
    <2>. QED  BY <2>1, <2>2
  <1>12. /\ WaitsInv(k, Moved(pc, t, p), j, shut)
         /\ \A op \in WaitOps : Coming(k, Moved(pc, t, p), j, op) = Coming(k, pc, job, op)
    <2>1. /\ p \in IpcPC \ {"block", "woken"} /\ job[t].op \notin WaitOps
          /\ j[t].op \notin WaitOps /\ (j[t].op \in DetachOps <=> p \in {"test", "flush"})
          /\ job[t].op \in {"none", DetachOf(q)} /\ j[t].op \in {"none", DetachOf(q)}
          /\ j \in [Thread -> Jobs] /\ (\A x \in Thread \ {t} : j[x] = job[x])
          /\ t # Idle /\ t \notin Sleepers(k)
          /\ \A r \in Swept \ {q} : r \in shut <=> r \in shut
      BY <1>2, <1>3, <1>4, <1>6, <1>7 DEF IpcPC
    <2>. QED  BY <2>1, <1>11, SweeperMoves
  <1>13. \A x \in Sleepers(k) : j[x] = job[x]
    BY <1>2, <1>6 DEF Sleepers
  <1>14. Coming(k', pc', job', "alloc") = Coming(k, pc, job, "alloc")
    BY <1>2, <1>4, <1>5, <1>12 DEF WaitOps
  <1>. QED  BY <1>2, <1>4, <1>5, <1>12, <1>13, <1>14, QuietIf

(***************************************************************************)
(* One round of a detach wakes the next thread of the list.                *)
(***************************************************************************)
LEMMA SweepRound ==
  ASSUME NEW shut, WaitsInv(k, pc, job, shut), NEW q \in Swept, NEW t \in Thread,
         job[t].op = DetachOf(q), FlushOne(t, q), job' = job
  PROVE  WaitsInv(k', pc', job', shut) /\ Quiet(k, pc, job, k', pc', job')
  <1>1. /\ Sound(k, pc) /\ DOMAIN pc = Thread /\ q \in Queue /\ pc[t] = "flush"
        /\ job \in [Thread -> Jobs]
    BY WaitsFacts, OpFacts DEF FlushOne, WaitsInv
  <1>2. SweepOK(k, pc, job, shut, q) /\ t \in Sweepers(job, q)
    BY DEF WaitsInv, Sweepers
  <1>3. k.wait[q] # << >>
    BY <1>1, <1>2 DEF SweepOK
  <1>4. PICK x : x = Head(k.wait[q])
    OBVIOUS
  <1>5. /\ Sound(k', pc') /\ Awake(k, x, k') /\ k'.err = [k.err EXCEPT ![x] = "error"]
        /\ x \in Range(k.wait[q]) /\ x \in Sleepers(k) /\ t \notin Sleepers(k) /\ t = k.cur
        /\ pc' = Moved(pc, t, "test")
    BY <1>1, <1>3, <1>4, StepFlushOne
  <1>6. t # Idle
    BY <1>1, <1>5, CurrentAwake
  <1>7. PICK to : to = Moved(pc, t, "test")
    OBVIOUS
  <1>8. \A u \in Thread : to[u] = IF u = t THEN "test" ELSE pc[u]
    BY <1>1, <1>7 DEF Moved
  <1>9. \A u \in Sweepers(job, q) : u = t
    BY <1>2 DEF SweepOK
  <1>10. SweepOK(k, to, job, shut, q)
    BY <1>2, <1>8, <1>9 DEF SweepOK
  <1>11. /\ WaitsInv(k, to, job, shut)
         /\ \A op \in WaitOps : Coming(k, to, job, op) = Coming(k, pc, job, op)
    <2>1. /\ "test" \in IpcPC \ {"block", "woken"} /\ job[t].op \notin WaitOps
          /\ (job[t].op \in DetachOps <=> "test" \in {"test", "flush"})
          /\ job[t].op \in {"none", DetachOf(q)}
          /\ (\A y \in Thread \ {t} : job[y] = job[y])
          /\ \A r \in Swept \ {q} : r \in shut <=> r \in shut
      BY OpFacts, OpsSplit DEF IpcPC
    <2>. QED  BY <2>1, <1>1, <1>5, <1>6, <1>7, <1>10, SweeperMoves
  <1>12. /\ WaitsInv(k', to, job, shut)
         /\ \A op : Coming(k', to, job, op) = Coming(k, to, job, op)
         /\ \A r \in Lists : Range(k'.wait[r]) \subseteq Range(k.wait[r])
    <2>1. "error" \in Err \ {"ok"} /\ Sound(k', to)
      BY <1>5, <1>7 DEF Err
    <2>2. ASSUME NEW r \in Swept, NEW u \in Sweepers(job, r), to[u] = "flush"
          PROVE  x \notin Range(k.wait[r])
      <3>1. r # q
        BY <2>2, <1>8, <1>9
      <3>2. OpOf(r) # OpOf(q) /\ ListedIn(k, job, r, OpOf(r)) /\ ListedIn(k, job, q, OpOf(q))
        BY <3>1, OpFacts DEF WaitsInv
      <3>. QED  BY <3>2, <1>5 DEF ListedIn
    <2>. QED  BY <2>1, <2>2, <1>5, <1>11, ErrorKeeps
  <1>13. \A y \in Sleepers(k) : job'[y] = job[y] /\ (y \notin Sleepers(k') => k'.err[y] # "ok")
    BY <1>5, WaitsFacts DEF Awake
  <1>14. Coming(k', pc', job', "alloc") = Coming(k, pc, job, "alloc")
    BY <1>5, <1>7, <1>11, <1>12 DEF WaitOps
  <1>. QED  BY <1>5, <1>7, <1>12, <1>13, <1>14, QuietIf

(***************************************************************************)
(* Both are the loop of _ipc_list_resume_all.                              *)
(***************************************************************************)
LEMMA SweepQuiet ==
  ASSUME NEW shut, WaitsInv(k, pc, job, shut), NEW q \in Swept, NEW t \in Thread,
         FlushStep(t, q, DetachOf(q))
  PROVE  WaitsInv(k', pc', job', shut) /\ Quiet(k, pc, job, k', pc', job')
  BY SweepTest, SweepRound DEF FlushStep

-----------------------------------------------------------------------------
(* The steps that change an object *)

(***************************************************************************)
(* What is closed.                                                         *)
(***************************************************************************)
LEMMA ShutFacts ==
  ASSUME NEW e, NEW p
  PROVE  /\ EventList \in ShutLists(e, p) <=> ~ e
         /\ PoolList \in ShutLists(e, p) <=> ~ p
         /\ DoneList \notin ShutLists(e, p)
  BY OpFacts DEF ShutLists, Swept

(***************************************************************************)
(* An object that is closed or opened changes nothing about the other one. *)
(***************************************************************************)
LEMMA ShutOthers ==
  ASSUME NEW e, NEW p, NEW o
  PROVE  /\ \A r \in Swept \ {PoolList} : r \in ShutLists(e, p) <=> r \in ShutLists(e, o)
         /\ \A r \in Swept \ {EventList} : r \in ShutLists(p, e) <=> r \in ShutLists(o, e)
  BY OpFacts DEF ShutLists, Swept

(***************************************************************************)
(* A step that changes neither the threads nor their calls.                *)
(***************************************************************************)
LEMMA StillQuiet ==
  ASSUME NEW shut, WaitsInv(k, pc, job, shut), k' = k, pc' = pc, job' = job
  PROVE  WaitsInv(k', pc', job', shut) /\ Quiet(k, pc, job, k', pc', job')
  BY QuietIf

(***************************************************************************)
(* A quiet step but for one object.                                        *)
(***************************************************************************)
LEMMA PoolStepKept ==
  ASSUME IInv, WaitsInv(k', pc', job', Shut'), UNCHANGED << eventvars, done >>, PoolType',
         EventQuiet(k, job, k', job'), DoneQuiet(k, k'),
         Enough(k'.wait[PoolList], Coming(k', pc', job', "alloc"), free')
  PROVE  IInv' /\ ConsumedOnce
  <1>1. EventType' /\ events' \subseteq events /\ done' = done /\ done' \in BOOLEAN
    BY DEF IInv, EventType, eventvars
  <1>2. Unmet(k', job', events') /\ ConsumedOnce
    BY <1>1, EventKept
  <1>3. done' => k'.wait[DoneList] = << >>
    BY <1>1, DoneKept
  <1>. QED  BY <1>1, <1>2, <1>3 DEF IInv

(***************************************************************************)
(* A quiet step but for the completion.                                    *)
(***************************************************************************)
LEMMA CompletionStepKept ==
  ASSUME IInv, WaitsInv(k', pc', job', Shut'), UNCHANGED << eventvars, poolvars >>,
         done' \in BOOLEAN,
         EventQuiet(k, job, k', job'), PoolQuiet(k, pc, job, k', pc', job'),
         done' => k'.wait[DoneList] = << >>
  PROVE  IInv' /\ ConsumedOnce
  <1>1. EventType' /\ events' \subseteq events /\ free' = free /\ PoolType'
    BY DEF IInv, EventType, PoolType, eventvars, poolvars
  <1>2. Unmet(k', job', events') /\ ConsumedOnce
    BY <1>1, EventKept
  <1>3. Enough(k'.wait[PoolList], Coming(k', pc', job', "alloc"), free')
    BY <1>1, PoolKept
  <1>. QED  BY <1>1, <1>2, <1>3 DEF IInv

(***************************************************************************)
(* A quiet step but for the event.                                         *)
(***************************************************************************)
LEMMA EventStepKept ==
  ASSUME IInv, WaitsInv(k', pc', job', Shut'), UNCHANGED << poolvars, done >>, EventType',
         PoolQuiet(k, pc, job, k', pc', job'), DoneQuiet(k, k'),
         Unmet(k', job', events')
  PROVE  IInv'
  <1>1. PoolType' /\ free' = free /\ done' = done /\ done' \in BOOLEAN
    BY DEF IInv, PoolType, poolvars
  <1>2. Enough(k'.wait[PoolList], Coming(k', pc', job', "alloc"), free')
    BY <1>1, PoolKept
  <1>3. done' => k'.wait[DoneList] = << >>
    BY <1>1, DoneKept
  <1>. QED  BY <1>1, <1>2, <1>3 DEF IInv

(***************************************************************************)
(* rt_schedule in an interrupt handler.                                    *)
(***************************************************************************)
LEMMA IrqScheduled ==
  ASSUME NEW s, NEW at, NEW jb, NEW shut, WaitsInv(s, at, jb, shut), NEW n, n = Schedule(s)
  PROVE  /\ WaitsInv(n, at, jb, shut) /\ SameWaits(s, n)
         /\ \A op : Coming(n, at, jb, op) = Coming(s, at, jb, op)
  <1>1. Sound(n, at) /\ SameWaits(s, n)
    BY WaitsFacts, ScheduleSound
  <1>. QED  BY <1>1, SameKeeps

(***************************************************************************)
(* A thread at the start of its loop in rt_mp_alloc.                       *)
(***************************************************************************)
LEMMA AllocFacts ==
  ASSUME NEW e, NEW p, WaitsInv(k, pc, job, ShutLists(e, p)), poolOpen = p,
         NEW t \in Thread, NEW timeout, AllocRound(t, timeout)
  PROVE  /\ t = k.cur /\ t # Idle /\ t \notin Sleepers(k)
         /\ pc[t] \in {"run", "woken"} /\ job[t].op \in {"none", "alloc"}
         /\ PoolList \notin ShutLists(e, p)
         /\ timeout \in Timeouts \cup {"none"}
  <1>1. CASE InCall(t, "alloc") /\ t \in PoolUsers /\ poolOpen /\ timeout \in Timeouts
    BY <1>1, CallerFacts, ShutFacts
  <1>2. CASE GoesOn(t, "alloc", timeout, Junk)
    <2>1. /\ t = k.cur /\ pc[t] = "woken" /\ k.err[t] = "ok" /\ job[t].op = "alloc"
          /\ timeout \in Remaining(job[t].wait)
      BY <1>2 DEF GoesOn
    <2>2. job[t].wait \in Timeouts \cup {"none"}
      BY DEF WaitsInv, Jobs, JobType
    <2>. QED  BY <2>1, <2>2, WokenFacts, OpFacts DEF Remaining
  <1>. QED  BY <1>1, <1>2 DEF AllocRound

(***************************************************************************)
(* rt_mp_alloc takes a block.                                              *)
(***************************************************************************)
LEMMA StepAlloc ==
  ASSUME IInv, NEW t \in Thread, NEW timeout, Alloc(t, timeout), UNCHANGED << eventvars, done >>
  PROVE  IInv' /\ ConsumedOnce
  <1>1. /\ WaitsInv(k, pc, job, Shut) /\ Shut' = Shut
        /\ k' = k /\ pc' = Moved(pc, t, "run") /\ Done(t) /\ free' = free - 1
        /\ poolOpen' = poolOpen /\ free > 0 /\ free \in 0 .. Blocks /\ Blocks \in Nat
        /\ Enough(k.wait[PoolList], Coming(k, pc, job, "alloc"), free) /\ poolOpen \in BOOLEAN
    BY PoolAssumption DEF IInv, Alloc, Goto, Moved, eventvars, Shut, PoolType
  <1>2. t # Idle /\ t \notin Sleepers(k) /\ pc[t] \notin {"test", "flush"}
    BY <1>1, AllocFacts DEF Alloc, Shut
  <1>3. /\ WaitsInv(k, Moved(pc, t, "run"), job', Shut)
        /\ \A op \in WaitOps :
             Coming(k, Moved(pc, t, "run"), job', op) = Coming(k, pc, job, op) \ {t}
    <2>1. Sound(k, pc) /\ "run" \in {"run", "sched", "done"} /\ Done(t)
      BY <1>1, WaitsFacts
    <2>. QED  BY <2>1, <1>1, <1>2, DoneKeeps
  <1>4. Enough(k.wait[PoolList], Coming(k, pc, job, "alloc") \ {t}, free - 1)
    <2>1. free \in Int
      BY <1>1
    <2>. QED  BY <2>1, <1>1, EnoughRemove
  <1>5. Coming(k', pc', job', "alloc") = Coming(k, pc, job, "alloc") \ {t}
    BY <1>1, <1>3 DEF WaitOps
  <1>6. \A x \in Sleepers(k) : job'[x] = job[x]
    BY <1>1, <1>2, WaitsFacts DEF Done
  <1>7. EventQuiet(k, job, k', job') /\ DoneQuiet(k, k')
    BY <1>1, <1>6, WaitsFacts, OpFacts DEF EventQuiet, DoneQuiet
  <1>8. PoolType'
    BY <1>1 DEF PoolType
  <1>9. WaitsInv(k', pc', job', Shut')
    BY <1>1, <1>3
  <1>10. Enough(k'.wait[PoolList], Coming(k', pc', job', "alloc"), free')
    BY <1>1, <1>4, <1>5
  <1>. QED  BY <1>7, <1>8, <1>9, <1>10, PoolStepKept

(***************************************************************************)
(* rt_mp_alloc finds no block and does not wait.                           *)
(***************************************************************************)
LEMMA StepAllocFails ==
  ASSUME IInv, NEW t \in Thread, AllocFails(t), UNCHANGED << eventvars, done >>
  PROVE  IInv' /\ ConsumedOnce
  <1>1. /\ WaitsInv(k, pc, job, Shut) /\ Shut' = Shut
        /\ k' = ErrSet(k, t, "timeout") /\ pc' = Moved(pc, t, "run") /\ Done(t)
        /\ free' = 0 /\ free = 0 /\ poolOpen' = poolOpen /\ PoolType'
        /\ Enough(k.wait[PoolList], Coming(k, pc, job, "alloc"), free)
    BY DEF IInv, AllocFails, Goto, Moved, ErrSet, eventvars, poolvars, Shut, PoolType
  <1>2. t # Idle /\ t \notin Sleepers(k) /\ pc[t] \notin {"test", "flush"}
    BY <1>1, AllocFacts DEF AllocFails, Shut
  <1>3. /\ Sound(k', pc) /\ k'.wait = k.wait /\ k'.armed = k.armed
        /\ Sleepers(k') = Sleepers(k) /\ \A x \in Thread \ {t} : k'.err[x] = k.err[x]
    <2>1. /\ Sound(k, pc) /\ "timeout" \in Err /\ k.err \in [Thread -> Err]
          /\ k' = ErrSet(k, t, "timeout") /\ t \in Thread
      BY <1>1, WaitsFacts DEF Err
    <2>2. /\ Sound(k', pc) /\ k'.wait = k.wait /\ k'.armed = k.armed
          /\ Sleepers(k') = Sleepers(k) /\ k'.err = [k.err EXCEPT ![t] = "timeout"]
      BY ONLY <2>1, ErrSound
    <2>. QED  BY <2>1, <2>2
  <1>4. /\ WaitsInv(k', Moved(pc, t, "run"), job', Shut)
        /\ \A op \in WaitOps :
             Coming(k', Moved(pc, t, "run"), job', op) = Coming(k, pc, job, op) \ {t}
    <2>1. "run" \in {"run", "sched", "done"} /\ Done(t)
      BY <1>1
    <2>. QED  BY <2>1, <1>1, <1>2, <1>3, DoneKeeps
  <1>5. Coming(k', pc', job', "alloc") = Coming(k, pc, job, "alloc") \ {t}
    BY <1>1, <1>4 DEF WaitOps
  <1>6. Enough(k'.wait[PoolList], Coming(k, pc, job, "alloc") \ {t}, 0)
    BY <1>1, EnoughNone
  <1>7. \A x \in Sleepers(k) : job'[x] = job[x]
    BY <1>1, <1>2, WaitsFacts DEF Done
  <1>8. EventQuiet(k, job, k', job') /\ DoneQuiet(k, k')
    BY <1>1, <1>3, <1>7, WaitsFacts, OpFacts DEF EventQuiet, DoneQuiet
  <1>9. WaitsInv(k', pc', job', Shut')
    BY <1>1, <1>4
  <1>10. Enough(k'.wait[PoolList], Coming(k', pc', job', "alloc"), free')
    BY <1>1, <1>5, <1>6
  <1>. QED  BY <1>1, <1>8, <1>9, <1>10, PoolStepKept

(***************************************************************************)
(* A thread has entered a list: nobody has been woken.                     *)
(***************************************************************************)
LEMMA EnterQuiet ==
  ASSUME NEW s, NEW at, NEW jb, NEW shut, WaitsInv(s, at, jb, shut),
         NEW q \in Lists, NEW t \in Thread, t \notin Sleepers(s), NEW n, NEW j,
         Sleepers(s) \subseteq Sleepers(n),
         \A r \in Lists \ {q} : n.wait[r] = s.wait[r],
         \A x \in Thread \ {t} : j[x] = jb[x]
  PROVE  /\ q # EventList => EventQuiet(s, jb, n, j)
         /\ q # DoneList => DoneQuiet(s, n)
         /\ \A x \in Sleepers(s) : x \in Sleepers(n) /\ x # t /\ j[x] = jb[x]
  <1>1. \A x \in Sleepers(s) : x \in Sleepers(n) /\ x # t /\ j[x] = jb[x]
    BY DEF Sleepers
  <1>2. Range(s.wait[EventList]) \subseteq Sleepers(s)
    BY WaitsFacts, OpFacts
  <1>. QED  BY <1>1, <1>2, OpFacts DEF EventQuiet, DoneQuiet

(***************************************************************************)
(* A thread that runs blocks on a list with _ipc_list_suspend.             *)
(***************************************************************************)
LEMMA JoinsList ==
  ASSUME NEW shut, WaitsInv(k, pc, job, shut), NEW q \in Queue,
         NEW t, t = k.cur, t # Idle, t \notin Sleepers(k), NEW order, NEW timeout,
         k' = WaitOn(k, q, t, order, timeout), NEW l, l = Joined(k.wait[q], k.prio, t, order)
  PROVE  /\ Sound(k', Moved(pc, t, "block")) /\ Enters(k, q, t, l, timeout, k')
         /\ Range(l) = Range(k.wait[q]) \cup {t}
  <1>1. Sound(k', Moved(pc, t, "block")) /\ BlocksOn(k, q, t, order, timeout, k')
    <2>1. Sound(k, pc) /\ DOMAIN pc = Thread
      BY WaitsFacts
    <2>. QED  BY <2>1, WaitOnSound
  <1>2. Range(l) = Range(k.wait[q]) \cup {t}
    <2>1. /\ k.wait[q] \in Seq(Thread) /\ t \notin Range(k.wait[q]) /\ ListsInv(k, {})
          /\ t \in Thread
      BY WaitsFacts, SoundFacts
    <2>2. IsInjective(k.wait[q])
      BY <2>1, Members DEF ListsInjective
    <2>. QED  BY <2>1, <2>2, JoinedFacts
  <1>. QED  BY <1>1, <1>2 DEF BlocksOn, Enters

(***************************************************************************)
(* rt_mp_alloc waits, in front of those who wait already.                  *)
(***************************************************************************)
LEMMA StepAllocWaits ==
  ASSUME IInv, NEW t \in Thread, NEW timeout, AllocWaits(t, timeout),
         UNCHANGED << eventvars, done >>
  PROVE  IInv' /\ ConsumedOnce
  <1>1. /\ WaitsInv(k, pc, job, Shut) /\ Shut' = Shut
        /\ k' = PoolWaitOn(k, t, timeout) /\ pc' = Moved(pc, t, "block")
        /\ job' = [job EXCEPT ![t] = [op |-> "alloc", wait |-> timeout, arg |-> Junk]]
        /\ free' = 0 /\ free = 0 /\ PoolType'
        /\ Enough(k.wait[PoolList], Coming(k, pc, job, "alloc"), free)
    BY DEF IInv, AllocWaits, Begins, Goto, Moved, eventvars, poolvars, Shut, PoolType
  <1>2. /\ t = k.cur /\ t # Idle /\ t \notin Sleepers(k) /\ pc[t] \notin {"test", "flush"}
        /\ PoolList \notin Shut /\ timeout \in Timeouts \cup {"none"}
    BY <1>1, AllocFacts DEF AllocWaits, Shut
  <1>3. PICK l : l = InsertedAfter(k.wait[PoolList], t)
    OBVIOUS
  <1>4. l \in Seq(Thread) /\ IsInjective(l) /\ Range(l) = Range(k.wait[PoolList]) \cup {t}
    <2>1. /\ k.wait[PoolList] \in Seq(Thread) /\ t \notin Range(k.wait[PoolList])
          /\ ListsInv(k, {})
      BY <1>1, <1>2, WaitsFacts, OpFacts, SoundFacts
    <2>2. IsInjective(k.wait[PoolList])
      BY <2>1, OpFacts, Members DEF ListsInjective
    <2>. QED  BY <2>1, <2>2, <1>3, InsertedFacts
  <1>5. Sound(k', Moved(pc, t, "block")) /\ Enters(k, PoolList, t, l, timeout, k')
    <2>1. PICK u : u = Suspend(ErrSet(k, t, "ok"), t)
      OBVIOUS
    <2>2. u.wait = k.wait
      <3>1. "block" \in {"block", "nap"} /\ Sound(k, pc) /\ DOMAIN pc = Thread
        BY <1>1, WaitsFacts
      <3>. QED  BY <3>1, <1>2, <2>1, SuspendSound
    <2>3. k' = EnterList(k, PoolList, t, l, timeout)
      BY <1>1, <1>3, <2>1, <2>2 DEF PoolWaitOn, EnterList, Entered, Relinked, ErrSet
    <2>4. Sound(k, pc) /\ DOMAIN pc = Thread /\ PoolList \in Queue
      BY <1>1, WaitsFacts, OpFacts
    <2>. QED  BY <2>3, <2>4, <1>2, <1>4, EnterSound
  <1>6. PICK j : j = job'
    OBVIOUS
  <1>7. /\ j \in [Thread -> Jobs] /\ \A x \in Thread \ {t} : j[x] = job[x]
        /\ j[t].op = OpOf(PoolList) /\ j[t].wait = timeout
    <2>1. job \in [Thread -> Jobs]
      BY <1>1 DEF WaitsInv
    <2>2. [op |-> "alloc", wait |-> timeout, arg |-> Junk] \in Jobs
      BY <1>2 DEF Jobs, JobType, Ops
    <2>. QED  BY <2>1, <2>2, <1>1, <1>6, OpFacts
  <1>8. /\ WaitsInv(k', Moved(pc, t, "block"), j, Shut)
        /\ \A op \in WaitOps :
             Coming(k', Moved(pc, t, "block"), j, op) = Coming(k, pc, job, op) \ {t}
        /\ \A r \in Lists \ {PoolList} : k'.wait[r] = k.wait[r]
        /\ Range(k'.wait[PoolList]) = Range(k.wait[PoolList]) \cup {t}
        /\ Sleepers(k) \subseteq Sleepers(k')
    <2>1. Blocking(k, pc, job, Shut, PoolList, t, l, timeout, k', j)
      BY <1>1, <1>2, <1>4, <1>5, <1>7, ListsFacts DEF Blocking
    <2>2. WaitsInv(k, pc, job, Shut) /\ PoolList \in Lists
      BY <1>1, OpFacts
    <2>. QED  BY ONLY <2>1, <2>2, EnterKeeps
  <1>9. Enough(k'.wait[PoolList], Coming(k', pc', job', "alloc"), free')
    <2>1. Coming(k', pc', job', "alloc") = Coming(k, pc, job, "alloc") \ {t}
      BY <1>1, <1>6, <1>8 DEF WaitOps
    <2>2. Enough(k'.wait[PoolList], Coming(k, pc, job, "alloc") \ {t}, 0)
      BY <1>1, EnoughNone
    <2>. QED  BY <2>1, <2>2, <1>1
  <1>10. EventQuiet(k, job, k', job') /\ DoneQuiet(k, k')
    <2>1. /\ WaitsInv(k, pc, job, Shut) /\ PoolList \in Lists /\ t \in Thread
          /\ t \notin Sleepers(k) /\ Sleepers(k) \subseteq Sleepers(k')
          /\ (\A r \in Lists \ {PoolList} : k'.wait[r] = k.wait[r])
          /\ (\A x \in Thread \ {t} : job'[x] = job[x])
          /\ PoolList # EventList /\ PoolList # DoneList
      BY <1>1, <1>2, <1>6, <1>7, <1>8, OpFacts, ListsFacts
    <2>. QED  BY ONLY <2>1, EnterQuiet
  <1>11. WaitsInv(k', pc', job', Shut')
    BY <1>1, <1>6, <1>8
  <1>. QED  BY <1>1, <1>9, <1>10, <1>11, PoolStepKept

(***************************************************************************)
(* rt_mp_free wakes the first waiter, whose error number is that already.  *)
(***************************************************************************)
LEMMA FreeWakes ==
  ASSUME IInv, poolOpen, free' = free + 1, PoolWakes,
         NEW n, n = ResumeAllocator
  PROVE  /\ WaitsInv(n, pc, job, Shut) /\ n.cur = k.cur /\ Sleepers(n) \subseteq Sleepers(k)
         /\ EventQuiet(k, job, n, job) /\ DoneQuiet(k, n)
         /\ Enough(n.wait[PoolList], Coming(n, pc, job, "alloc"), free')
  <1>1. /\ WaitsInv(k, pc, job, Shut) /\ PoolList \in Lists /\ PoolList \notin Shut
        /\ Enough(k.wait[PoolList], Coming(k, pc, job, "alloc"), free)
        /\ k.wait[PoolList] # << >> /\ free \in Int
    <2>1. /\ WaitsInv(k, pc, job, Shut)
          /\ Enough(k.wait[PoolList], Coming(k, pc, job, "alloc"), free)
          /\ k.wait[PoolList] # << >> /\ free \in Int
      BY PoolAssumption DEF IInv, PoolWakes, PoolType
    <2>2. PoolList \notin Shut
      BY ShutFacts DEF Shut
    <2>. QED  BY <2>1, <2>2, OpFacts
  <1>2. PICK x : x = Head(k.wait[PoolList])
    OBVIOUS
  <1>3. x \in Thread /\ k.err \in [Thread -> Err] /\ k.err[x] = "ok" /\ k \in KernelType
    <2>1. k.wait[PoolList] \in Seq(Thread) /\ k.err \in [Thread -> Err] /\ k \in KernelType
      BY <1>1, OpFacts, WaitsFacts, SoundFacts
    <2>2. x \in Range(k.wait[PoolList]) /\ x \in Thread
      BY <2>1, <1>1, <1>2, HeadFacts
    <2>3. ListedIn(k, job, PoolList, OpOf(PoolList))
      BY <1>1 DEF WaitsInv
    <2>. QED  BY <2>1, <2>2, <2>3 DEF ListedIn
  <1>4. [k EXCEPT !.err[x] = "ok"] = k
    <2>1. [k.err EXCEPT ![x] = "ok"] = k.err
      BY <1>3
    <2>. QED  BY <2>1, <1>3 DEF KernelType
  <1>5. n = ResumeFirst(k, PoolList)
    BY <1>2, <1>4 DEF ResumeAllocator
  <1>6. /\ WaitsInv(n, pc, job, Shut)
        /\ x \in Sleepers(k) /\ Sleepers(n) = Sleepers(k) \ {x} /\ n.cur = k.cur
        /\ n.err = k.err /\ job[x].op = OpOf(PoolList)
        /\ x \notin Coming(k, pc, job, OpOf(PoolList))
        /\ Coming(n, pc, job, OpOf(PoolList)) = Coming(k, pc, job, OpOf(PoolList)) \cup {x}
        /\ \A r \in Lists \ {PoolList} : n.wait[r] = k.wait[r]
    BY <1>1, <1>2, <1>5, WakeKeeps
  <1>7. Enough(n.wait[PoolList], Coming(n, pc, job, "alloc"), free')
    <2>1. Enough(n.wait[PoolList], Coming(k, pc, job, "alloc") \cup {x}, free + 1)
      BY <1>1, <1>6, OpFacts, EnoughAdd
    <2>. QED  BY <2>1, <1>6, OpFacts
  <1>8. n.wait[EventList] = k.wait[EventList] /\ n.wait[DoneList] = k.wait[DoneList]
    BY <1>6, OpFacts, ListsFacts
  <1>9. EventQuiet(k, job, n, job) /\ DoneQuiet(k, n)
    BY <1>6, <1>8, OpFacts DEF EventQuiet, DoneQuiet
  <1>. QED  BY <1>6, <1>7, <1>9

(***************************************************************************)
(* A thread that runs goes on to its rt_schedule, or stays.                *)
(***************************************************************************)
LEMMA CallEnds ==
  ASSUME NEW s, NEW at, NEW jb, NEW shut, WaitsInv(s, at, jb, shut),
         NEW t \in Thread, t # Idle, t \notin Sleepers(s), jb[t].op = "none",
         at[t] \notin {"test", "flush"}, NEW p \in {"run", "sched", "done"}
  PROVE  /\ WaitsInv(s, Moved(at, t, p), jb, shut)
         /\ \A op \in WaitOps : Coming(s, Moved(at, t, p), jb, op) = Coming(s, at, jb, op)
  <1>1. /\ WaitsInv(s, Moved(at, t, p), jb, shut)
        /\ \A op \in WaitOps : Coming(s, Moved(at, t, p), jb, op) = Coming(s, at, jb, op) \ {t}
    <2>1. /\ Sound(s, at) /\ jb \in [Thread -> Jobs]
          /\ \A x \in Thread \ {t} : s.err[x] = s.err[x] /\ jb[x] = jb[x]
      BY DEF WaitsInv
    <2>. QED  BY <2>1, ReturnKeeps
  <1>2. \A op \in WaitOps : t \notin Coming(s, at, jb, op)
    BY OpsSplit DEF Coming, Comes
  <1>. QED  BY <1>1, <1>2

(***************************************************************************)
(* rt_mp_free, in a thread.                                                *)
(***************************************************************************)
LEMMA StepFree ==
  ASSUME IInv, NEW t \in Thread, Free(t), UNCHANGED << eventvars, done >>
  PROVE  IInv' /\ ConsumedOnce
  <1>1. /\ WaitsInv(k, pc, job, Shut) /\ poolOpen /\ free' = free + 1 /\ free < Blocks
        /\ job' = job /\ Shut' = Shut /\ PoolType'
        /\ k' = IF PoolWakes THEN ResumeAllocator ELSE k
        /\ pc' = Moved(pc, t, IF PoolWakes THEN "sched" ELSE "run")
        /\ Enough(k.wait[PoolList], Coming(k, pc, job, "alloc"), free)
    BY PoolAssumption DEF IInv, Free, Goto, Moved, eventvars, Shut, PoolType
  <1>2. t = k.cur /\ t # Idle /\ t \notin Sleepers(k) /\ pc[t] = "run" /\ job[t].op = "none"
    BY <1>1, CallerFacts DEF Free
  <1>3. CASE PoolWakes
    <2>1. /\ WaitsInv(k', pc, job, Shut) /\ Sleepers(k') \subseteq Sleepers(k)
          /\ EventQuiet(k, job, k', job) /\ DoneQuiet(k, k')
          /\ Enough(k'.wait[PoolList], Coming(k', pc, job, "alloc"), free')
      BY <1>1, <1>3, FreeWakes
    <2>2. /\ WaitsInv(k', Moved(pc, t, "sched"), job, Shut)
          /\ \A op \in WaitOps :
               Coming(k', Moved(pc, t, "sched"), job, op) = Coming(k', pc, job, op)
      BY <2>1, <1>2, CallEnds
    <2>3. WaitsInv(k', pc', job', Shut')
      BY <2>2, <1>1, <1>3
    <2>4. Enough(k'.wait[PoolList], Coming(k', pc', job', "alloc"), free')
      BY <2>1, <2>2, <1>1, <1>3 DEF WaitOps
    <2>. QED  BY <2>1, <2>3, <2>4, <1>1, PoolStepKept
  <1>4. CASE ~ PoolWakes
    <2>1. k' = k /\ pc' = Moved(pc, t, "run") /\ k.wait[PoolList] = << >>
      BY <1>1, <1>4 DEF PoolWakes
    <2>2. /\ WaitsInv(k, Moved(pc, t, "run"), job, Shut)
          /\ \A op \in WaitOps : Coming(k, Moved(pc, t, "run"), job, op) = Coming(k, pc, job, op)
      BY <1>1, <1>2, CallEnds
    <2>3. WaitsInv(k', pc', job', Shut')
      BY <2>1, <2>2, <1>1
    <2>4. Enough(k'.wait[PoolList], Coming(k', pc', job', "alloc"), free')
      <3>1. Enough(<< >>, Coming(k, pc, job, "alloc"), free')
        BY <1>1, EnoughNone
      <3>. QED  BY <3>1, <2>1, <2>2, <1>1 DEF WaitOps
    <2>5. EventQuiet(k, job, k', job') /\ DoneQuiet(k, k')
      BY <2>1, <1>1 DEF EventQuiet, DoneQuiet
    <2>. QED  BY <2>3, <2>4, <2>5, <1>1, PoolStepKept
  <1>. QED  BY <1>3, <1>4

(***************************************************************************)
(* The same in an interrupt handler.                                       *)
(***************************************************************************)
LEMMA StepIrqFree ==
  ASSUME IInv, IrqFree, UNCHANGED << eventvars, done >>
  PROVE  IInv' /\ ConsumedOnce
  <1>1. /\ WaitsInv(k, pc, job, Shut) /\ poolOpen /\ free' = free + 1 /\ free < Blocks
        /\ job' = job /\ pc' = pc /\ Shut' = Shut /\ PoolType'
        /\ k' = IF PoolWakes THEN Schedule(ResumeAllocator) ELSE k
        /\ Enough(k.wait[PoolList], Coming(k, pc, job, "alloc"), free)
    BY PoolAssumption DEF IInv, IrqFree, eventvars, Shut, PoolType
  <1>2. CASE PoolWakes
    <2>1. PICK n : n = ResumeAllocator
      OBVIOUS
    <2>2. /\ WaitsInv(n, pc, job, Shut)
          /\ EventQuiet(k, job, n, job) /\ DoneQuiet(k, n)
          /\ Enough(n.wait[PoolList], Coming(n, pc, job, "alloc"), free')
      BY <2>1, <1>1, <1>2, FreeWakes
    <2>3. k' = Schedule(n)
      BY <2>1, <1>1, <1>2
    <2>4. /\ WaitsInv(k', pc, job, Shut) /\ SameWaits(n, k')
          /\ Coming(k', pc, job, "alloc") = Coming(n, pc, job, "alloc")
      BY <2>2, <2>3, IrqScheduled
    <2>5. /\ EventQuiet(k, job, k', job') /\ DoneQuiet(k, k')
          /\ Enough(k'.wait[PoolList], Coming(k', pc', job', "alloc"), free')
      BY <2>2, <2>4, <1>1 DEF EventQuiet, DoneQuiet, SameWaits
    <2>6. WaitsInv(k', pc', job', Shut')
      BY <2>4, <1>1
    <2>. QED  BY <2>5, <2>6, <1>1, PoolStepKept
  <1>3. CASE ~ PoolWakes
    <2>1. k' = k /\ k.wait[PoolList] = << >>
      BY <1>1, <1>3 DEF PoolWakes
    <2>2. Enough(<< >>, Coming(k, pc, job, "alloc"), free')
      BY <1>1, EnoughNone
    <2>3. EventQuiet(k, job, k', job') /\ DoneQuiet(k, k')
      BY <2>1, <1>1 DEF EventQuiet, DoneQuiet
    <2>4. WaitsInv(k', pc', job', Shut')
      BY <2>1, <1>1
    <2>5. Enough(k'.wait[PoolList], Coming(k', pc', job', "alloc"), free')
      BY <2>1, <2>2, <1>1
    <2>. QED  BY <2>3, <2>4, <2>5, <1>1, PoolStepKept
  <1>. QED  BY <1>2, <1>3

(***************************************************************************)
(* rt_mp_detach begins.                                                    *)
(***************************************************************************)
LEMMA StepDetachPool ==
  ASSUME IInv, NEW t \in Thread, DetachPool(t), UNCHANGED << eventvars, done >>
  PROVE  IInv' /\ ConsumedOnce
  <1>1. /\ WaitsInv(k, pc, job, Shut) /\ free' = free /\ poolOpen /\ poolOpen' = FALSE
        /\ eventOpen' = eventOpen /\ events' = events /\ done' = done
        /\ EventType' /\ PoolType' /\ done' \in BOOLEAN
    BY DEF IInv, DetachPool, eventvars, EventType, PoolType
  <1>2. /\ PoolList \in Swept /\ PoolList \notin Shut /\ PoolList \in Shut'
        /\ \A r \in Swept \ {PoolList} : r \in Shut' <=> r \in Shut
    <2>1. Shut = ShutLists(eventOpen, poolOpen) /\ Shut' = ShutLists(eventOpen, poolOpen')
      BY <1>1 DEF Shut
    <2>2. /\ PoolList \in ShutLists(eventOpen, poolOpen) <=> ~ poolOpen
          /\ PoolList \in ShutLists(eventOpen, poolOpen') <=> ~ poolOpen'
      BY ONLY ShutFacts
    <2>3. \A r \in Swept \ {PoolList} :
            r \in ShutLists(eventOpen, poolOpen) <=> r \in ShutLists(eventOpen, poolOpen')
      BY ONLY ShutOthers
    <2>. QED  BY <2>1, <2>2, <2>3, <1>1, OpFacts, Zenon
  <1>3. /\ InCall(t, DetachOf(PoolList)) /\ NobodyInside({OpOf(PoolList)})
        /\ Waiting(PoolList) \cap k.armed = {} /\ BeginFlush(t, DetachOf(PoolList))
    BY OpFacts DEF DetachPool
  <1>4. WaitsInv(k', pc', job', Shut') /\ Quiet(k, pc, job, k', pc', job')
    BY <1>1, <1>2, <1>3, StartSweep
  <1>. QED  BY <1>1, <1>4, QuietKept

(***************************************************************************)
(* An object is used again once its detach is over: nobody waits for it.   *)
(***************************************************************************)
LEMMA Reopens ==
  ASSUME NEW shut, WaitsInv(k, pc, job, shut), NEW q \in Swept, q \in shut,
         Sweepers(job, q) = {},
         NEW fin, q \notin fin, \A r \in Swept \ {q} : r \in fin <=> r \in shut
  PROVE  WaitsInv(k, pc, job, fin) /\ k.wait[q] = << >>
  <1>1. \A r \in Swept : SweepOK(k, pc, job, shut, r)
    BY DEF WaitsInv
  <1>2. \A r \in Swept : SweepOK(k, pc, job, fin, r)
    BY <1>1 DEF SweepOK
  <1>. QED  BY <1>1, <1>2 DEF WaitsInv, SweepOK

(***************************************************************************)
(* rt_mp_init of a pool that was detached.                                 *)
(***************************************************************************)
LEMMA StepInitPool ==
  ASSUME IInv, NEW t \in Thread, InitPool(t), UNCHANGED << eventvars, done >>
  PROVE  IInv' /\ ConsumedOnce
  <1>1. /\ WaitsInv(k, pc, job, Shut) /\ free' = Blocks /\ ~ poolOpen /\ poolOpen' = TRUE
        /\ k' = k /\ pc' = pc /\ job' = job /\ eventOpen' = eventOpen /\ PoolType'
        /\ Enough(k.wait[PoolList], Coming(k, pc, job, "alloc"), free)
    BY PoolAssumption DEF IInv, InitPool, eventvars, PoolType
  <1>2. /\ PoolList \in Swept /\ PoolList \in Shut /\ PoolList \notin Shut'
        /\ \A r \in Swept \ {PoolList} : r \in Shut' <=> r \in Shut
    <2>1. Shut = ShutLists(eventOpen, poolOpen) /\ Shut' = ShutLists(eventOpen, poolOpen')
      BY <1>1 DEF Shut
    <2>2. /\ PoolList \in ShutLists(eventOpen, poolOpen) <=> ~ poolOpen
          /\ PoolList \in ShutLists(eventOpen, poolOpen') <=> ~ poolOpen'
      BY ONLY ShutFacts
    <2>3. \A r \in Swept \ {PoolList} :
            r \in ShutLists(eventOpen, poolOpen) <=> r \in ShutLists(eventOpen, poolOpen')
      BY ONLY ShutOthers
    <2>. QED  BY <2>1, <2>2, <2>3, <1>1, OpFacts, Zenon
  <1>3. Sweepers(job, PoolList) = {}
    BY OpFacts DEF InitPool, Sweepers
  <1>4. PICK fin : fin = Shut'
    OBVIOUS
  <1>5. WaitsInv(k, pc, job, fin) /\ k.wait[PoolList] = << >>
    BY <1>1, <1>2, <1>3, <1>4, Reopens
  <1>6. Enough(<< >>, Coming(k, pc, job, "alloc"), free')
    BY <1>1, EnoughNone
  <1>7. EventQuiet(k, job, k', job') /\ DoneQuiet(k, k')
    BY <1>1 DEF EventQuiet, DoneQuiet
  <1>8. WaitsInv(k', pc', job', Shut')
    BY <1>1, <1>4, <1>5
  <1>9. Enough(k'.wait[PoolList], Coming(k', pc', job', "alloc"), free')
    BY <1>1, <1>5, <1>6
  <1>. QED  BY <1>1, <1>7, <1>8, <1>9, PoolStepKept

(***************************************************************************)
(* A round of the loop that empties the list of the pool, or of the event. *)
(***************************************************************************)
LEMMA StepFlush ==
  ASSUME IInv, NEW t \in Thread, NEW q \in Swept, FlushStep(t, q, DetachOf(q)),
         UNCHANGED objects
  PROVE  IInv' /\ ConsumedOnce
  <1>1. /\ WaitsInv(k, pc, job, Shut) /\ Shut' = Shut /\ free' = free /\ events' = events
        /\ done' = done /\ EventType' /\ PoolType' /\ done' \in BOOLEAN
    BY DEF IInv, objects, Shut, EventType, PoolType
  <1>2. WaitsInv(k', pc', job', Shut) /\ Quiet(k, pc, job, k', pc', job')
    BY <1>1, SweepQuiet
  <1>. QED  BY <1>1, <1>2, QuietKept

(***************************************************************************)
(* All the steps of a thread on the pool.                                  *)
(***************************************************************************)
LEMMA StepPool ==
  ASSUME IInv, NEW t \in Thread, PoolStep(t), UNCHANGED << eventvars, done >>
  PROVE  IInv' /\ ConsumedOnce
  <1>1. CASE FlushStep(t, PoolList, "mpdetach") /\ UNCHANGED poolvars
    <2>1. FlushStep(t, PoolList, DetachOf(PoolList)) /\ UNCHANGED objects /\ PoolList \in Swept
      BY <1>1, OpFacts DEF eventvars, poolvars, objects
    <2>. QED  BY <2>1, StepFlush
  <1>2. ASSUME ~ (FlushStep(t, PoolList, "mpdetach") /\ UNCHANGED poolvars)
        PROVE  IInv' /\ ConsumedOnce
    BY <1>2, StepAlloc, StepAllocFails, StepAllocWaits, StepFree, StepDetachPool, StepInitPool
       DEF PoolStep
  <1>. QED  BY <1>1, <1>2

-----------------------------------------------------------------------------
(* The completion *)

(***************************************************************************)
(* rt_completion_wait returns at once.                                     *)
(***************************************************************************)
LEMMA StepWaitNow ==
  ASSUME IInv, NEW t \in Thread, WaitNow(t), UNCHANGED << eventvars, poolvars >>
  PROVE  IInv' /\ ConsumedOnce
  <1>1. /\ WaitsInv(k, pc, job, Shut) /\ k' = k /\ pc' = pc /\ job' = job /\ Shut' = Shut
        /\ done' = FALSE
    BY DEF IInv, WaitNow, eventvars, poolvars, Shut
  <1>2. WaitsInv(k', pc', job', Shut') /\ Quiet(k, pc, job, k', pc', job')
    BY <1>1, StillQuiet
  <1>. QED  BY <1>1, <1>2, CompletionStepKept DEF Quiet

(***************************************************************************)
(* rt_completion_wait waits.                                               *)
(***************************************************************************)
LEMMA StepWaitBlocks ==
  ASSUME IInv, NEW t \in Thread, NEW timeout, WaitBlocks(t, timeout),
         UNCHANGED << eventvars, poolvars >>
  PROVE  IInv' /\ ConsumedOnce
  <1>1. /\ WaitsInv(k, pc, job, Shut) /\ Shut' = Shut /\ done' = done /\ done \in BOOLEAN
        /\ k' = WaitOn(k, DoneList, t, "fifo", timeout) /\ pc' = Moved(pc, t, "block")
        /\ job' = [job EXCEPT ![t] = [op |-> "wait", wait |-> timeout, arg |-> Junk]]
        /\ ~ done /\ k.wait[DoneList] = << >> /\ timeout \in Timeouts
    BY DEF IInv, WaitBlocks, BlockOn, Begins, Goto, Moved, eventvars, poolvars, Shut
  <1>2. t = k.cur /\ t # Idle /\ t \notin Sleepers(k) /\ pc[t] = "run" /\ job[t].op = "none"
    BY <1>1, CallerFacts DEF WaitBlocks
  <1>3. PICK l : l = Joined(k.wait[DoneList], k.prio, t, "fifo")
    OBVIOUS
  <1>4. /\ Sound(k', Moved(pc, t, "block")) /\ Enters(k, DoneList, t, l, timeout, k')
        /\ Range(l) = Range(k.wait[DoneList]) \cup {t}
    <2>1. /\ WaitsInv(k, pc, job, Shut) /\ DoneList \in Queue
          /\ t = k.cur /\ t # Idle /\ t \notin Sleepers(k)
          /\ k' = WaitOn(k, DoneList, t, "fifo", timeout)
          /\ l = Joined(k.wait[DoneList], k.prio, t, "fifo")
      BY <1>1, <1>2, <1>3, ListsFacts
    <2>. QED  BY ONLY <2>1, JoinsList
  <1>5. PICK j : j = job'
    OBVIOUS
  <1>6. /\ j \in [Thread -> Jobs] /\ \A x \in Thread \ {t} : j[x] = job[x]
        /\ j[t].op = OpOf(DoneList) /\ j[t].wait = timeout
    <2>1. job \in [Thread -> Jobs]
      BY <1>1 DEF WaitsInv
    <2>2. [op |-> "wait", wait |-> timeout, arg |-> Junk] \in Jobs
      BY <1>1 DEF Jobs, JobType, Ops
    <2>. QED  BY <2>1, <2>2, <1>1, <1>5, OpFacts
  <1>7. /\ WaitsInv(k', Moved(pc, t, "block"), j, Shut)
        /\ \A op \in WaitOps :
             Coming(k', Moved(pc, t, "block"), j, op) = Coming(k, pc, job, op) \ {t}
        /\ \A r \in Lists \ {DoneList} : k'.wait[r] = k.wait[r]
        /\ Sleepers(k) \subseteq Sleepers(k')
    <2>1. DoneList \notin Shut
      BY ShutFacts DEF Shut
    <2>2. Blocking(k, pc, job, Shut, DoneList, t, l, timeout, k', j)
      BY <2>1, <1>1, <1>2, <1>4, <1>6, ListsFacts DEF Blocking
    <2>3. WaitsInv(k, pc, job, Shut) /\ DoneList \in Lists
      BY <1>1, OpFacts
    <2>. QED  BY ONLY <2>2, <2>3, EnterKeeps
  <1>8. EventQuiet(k, job, k', job')
    <2>1. /\ WaitsInv(k, pc, job, Shut) /\ DoneList \in Lists /\ t \in Thread
          /\ t \notin Sleepers(k) /\ Sleepers(k) \subseteq Sleepers(k')
          /\ (\A r \in Lists \ {DoneList} : k'.wait[r] = k.wait[r])
          /\ (\A x \in Thread \ {t} : job'[x] = job[x])
          /\ DoneList # EventList
      BY <1>1, <1>2, <1>5, <1>6, <1>7, OpFacts, ListsFacts
    <2>. QED  BY ONLY <2>1, EnterQuiet
  <1>9. PoolQuiet(k, pc, job, k', pc', job')
    <2>1. t \notin Coming(k, pc, job, "alloc")
      BY <1>2 DEF Coming, Comes
    <2>2. Coming(k', pc', job', "alloc") = Coming(k, pc, job, "alloc") \ {t}
      BY <1>1, <1>5, <1>7 DEF WaitOps
    <2>3. k'.wait[PoolList] = k.wait[PoolList]
      BY <1>7, OpFacts, ListsFacts
    <2>. QED  BY <2>1, <2>2, <2>3 DEF PoolQuiet
  <1>10. WaitsInv(k', pc', job', Shut')
    BY <1>1, <1>5, <1>7
  <1>. QED  BY <1>1, <1>8, <1>9, <1>10, CompletionStepKept

(***************************************************************************)
(* rt_completion_wait returns, in time or not.                             *)
(***************************************************************************)
LEMMA StepWaitReturns ==
  ASSUME IInv, NEW t \in Thread, WaitReturns(t), UNCHANGED << eventvars, poolvars >>
  PROVE  IInv' /\ ConsumedOnce
  <1>1. /\ WaitsInv(k, pc, job, Shut) /\ Shut' = Shut /\ done' = FALSE /\ k' = k
        /\ pc' = Moved(pc, t, "run") /\ Done(t)
        /\ t = k.cur /\ pc[t] = "woken" /\ job[t].op = "wait"
    BY DEF IInv, WaitReturns, Goto, Moved, eventvars, poolvars, Shut
  <1>2. t # Idle /\ t \notin Sleepers(k)
    BY <1>1, WokenFacts
  <1>3. /\ WaitsInv(k, Moved(pc, t, "run"), job', Shut)
        /\ \A op \in WaitOps :
             Coming(k, Moved(pc, t, "run"), job', op) = Coming(k, pc, job, op) \ {t}
    <2>1. Sound(k, pc) /\ "run" \in {"run", "sched", "done"} /\ Done(t)
          /\ pc[t] \notin {"test", "flush"}
      BY <1>1, WaitsFacts
    <2>. QED  BY <2>1, <1>1, <1>2, DoneKeeps
  <1>4. Coming(k', pc', job', "alloc") = Coming(k, pc, job, "alloc")
    BY <1>1, <1>3 DEF Coming, Comes, WaitOps
  <1>5. \A x \in Sleepers(k) : job'[x] = job[x]
    BY <1>1, <1>2, WaitsFacts DEF Done
  <1>6. WaitsInv(k', pc', job', Shut') /\ Quiet(k, pc, job, k', pc', job')
    BY <1>1, <1>3, <1>4, <1>5, QuietIf
  <1>. QED  BY <1>1, <1>6, CompletionStepKept DEF Quiet

(***************************************************************************)
(* rt_completion_done tests the flag.                                      *)
(***************************************************************************)
LEMMA StepDoneTests ==
  ASSUME IInv, NEW t \in Thread, DoneTests(t), UNCHANGED << eventvars, poolvars >>
  PROVE  IInv' /\ ConsumedOnce
  <1>1. /\ WaitsInv(k, pc, job, Shut) /\ Shut' = Shut /\ done' = done /\ k' = k /\ job' = job
        /\ pc' = Moved(pc, t, "done") /\ done \in BOOLEAN /\ (done => k.wait[DoneList] = << >>)
    BY DEF IInv, DoneTests, Goto, Moved, eventvars, poolvars, Shut
  <1>2. t # Idle /\ t \notin Sleepers(k) /\ pc[t] = "run" /\ job[t].op = "none"
    BY <1>1, CallerFacts DEF DoneTests
  <1>3. /\ WaitsInv(k, Moved(pc, t, "done"), job, Shut)
        /\ \A op \in WaitOps : Coming(k, Moved(pc, t, "done"), job, op) = Coming(k, pc, job, op)
    BY <1>1, <1>2, CallEnds
  <1>4. Coming(k', pc', job', "alloc") = Coming(k, pc, job, "alloc")
    BY <1>1, <1>3 DEF WaitOps
  <1>5. WaitsInv(k', pc', job', Shut') /\ Quiet(k, pc, job, k', pc', job')
    BY <1>1, <1>3, <1>4, QuietIf
  <1>. QED  BY <1>1, <1>5, CompletionStepKept DEF Quiet

(***************************************************************************)
(* rt_completion_done wakes the one who waits.                             *)
(***************************************************************************)
LEMMA DoneWakesOne ==
  ASSUME WaitsInv(k, pc, job, Shut), NEW n, n = IF DoneWakes THEN ResumeFirst(k, DoneList) ELSE k
  PROVE  /\ WaitsInv(n, pc, job, Shut) /\ Quiet(k, pc, job, n, pc, job)
         /\ n.wait[DoneList] = << >> /\ Sleepers(n) \subseteq Sleepers(k)
  <1>1. CASE DoneWakes
    <2>1. PICK x : x = Head(k.wait[DoneList])
      OBVIOUS
    <2>2. /\ DoneList \notin Shut /\ DoneList \in Lists /\ k.wait[DoneList] # << >>
          /\ n = ResumeFirst(k, DoneList)
      BY <1>1, ShutFacts, OpFacts DEF Shut, DoneWakes
    <2>3. /\ WaitsInv(n, pc, job, Shut)
          /\ x \in Sleepers(k) /\ Sleepers(n) = Sleepers(k) \ {x}
          /\ job[x].op = OpOf(DoneList)
          /\ \A op \in WaitOps \ {OpOf(DoneList)} :
               Coming(n, pc, job, op) = Coming(k, pc, job, op)
          /\ \A r \in Lists \ {DoneList} : n.wait[r] = k.wait[r]
          /\ Range(n.wait[DoneList]) = Range(k.wait[DoneList]) \ {x}
      BY <2>1, <2>2, WakeKeeps
    <2>4. n.wait[DoneList] = << >>
      <3>1. /\ k.wait[DoneList] \in Seq(Thread) /\ n.wait[DoneList] \in Seq(Thread)
        BY <2>3, WaitsFacts, OpFacts
      <3>2. x \in Range(k.wait[DoneList])
        BY <3>1, <2>1, <2>2, HeadFacts
      <3>3. Range(n.wait[DoneList]) = {}
        BY <3>2, <2>3 DEF WaitsInv
      <3>. QED  BY <3>1, <3>3, HeadFacts
    <2>5. Coming(n, pc, job, "alloc") = Coming(k, pc, job, "alloc")
      BY <2>3, OpFacts DEF WaitOps
    <2>6. \A r \in Lists : Range(n.wait[r]) \subseteq Range(k.wait[r])
      BY <2>3
    <2>7. Quiet(k, pc, job, n, pc, job)
      BY <2>3, <2>5, <2>6, OpFacts DEF Quiet, EventQuiet, PoolQuiet, DoneQuiet
    <2>. QED  BY <2>3, <2>4, <2>7
  <1>2. CASE ~ DoneWakes
    BY <1>2, QuietIf DEF DoneWakes
  <1>. QED  BY <1>1, <1>2

(***************************************************************************)
(* rt_completion_done sets the flag, in a thread.                          *)
(***************************************************************************)
LEMMA StepDoneSets ==
  ASSUME IInv, NEW t \in Thread, DoneSets(t), UNCHANGED << eventvars, poolvars >>
  PROVE  IInv' /\ ConsumedOnce
  <1>1. PICK p : p = IF DoneWakes THEN "sched" ELSE "run"
    OBVIOUS
  <1>2. /\ WaitsInv(k, pc, job, Shut) /\ Shut' = Shut /\ done' = TRUE /\ job' = job
        /\ k' = IF DoneWakes THEN ResumeFirst(k, DoneList) ELSE k
        /\ pc' = Moved(pc, t, p) /\ t = k.cur /\ pc[t] = "done"
    BY <1>1 DEF IInv, DoneSets, Goto, Moved, eventvars, poolvars, Shut
  <1>3. t # Idle /\ t \notin Sleepers(k) /\ job[t].op = "none"
    <2>1. Sound(k, pc)
      BY <1>2, WaitsFacts
    <2>. QED  BY <2>1, <1>2, CurrentAwake, WaitsFacts
  <1>4. /\ WaitsInv(k', pc, job, Shut) /\ Quiet(k, pc, job, k', pc, job)
        /\ k'.wait[DoneList] = << >> /\ Sleepers(k') \subseteq Sleepers(k)
    BY <1>2, DoneWakesOne
  <1>5. /\ WaitsInv(k', Moved(pc, t, p), job, Shut)
        /\ \A op \in WaitOps : Coming(k', Moved(pc, t, p), job, op) = Coming(k', pc, job, op)
    <2>1. p \in {"run", "sched", "done"} /\ t \notin Sleepers(k') /\ pc[t] \notin {"test", "flush"}
      BY <1>1, <1>2, <1>3, <1>4
    <2>. QED  BY <2>1, <1>3, <1>4, CallEnds
  <1>6. EventQuiet(k, job, k', job') /\ PoolQuiet(k, pc, job, k', pc', job')
    BY <1>2, <1>4, <1>5 DEF Quiet, EventQuiet, PoolQuiet, WaitOps
  <1>7. WaitsInv(k', pc', job', Shut')
    BY <1>2, <1>5
  <1>. QED  BY <1>2, <1>4, <1>6, <1>7, CompletionStepKept

(***************************************************************************)
(* The same in an interrupt handler.                                       *)
(***************************************************************************)
LEMMA StepIrqDone ==
  ASSUME IInv, IrqDone, UNCHANGED << eventvars, poolvars >>
  PROVE  IInv' /\ ConsumedOnce
  <1>1. PICK n : n = IF DoneWakes THEN ResumeFirst(k, DoneList) ELSE k
    OBVIOUS
  <1>2. /\ WaitsInv(k, pc, job, Shut) /\ Shut' = Shut /\ done' = TRUE /\ job' = job /\ pc' = pc
        /\ k' = Schedule(n) \/ k' = n
    BY <1>1 DEF IInv, IrqDone, eventvars, poolvars, Shut
  <1>3. /\ WaitsInv(n, pc, job, Shut) /\ Quiet(k, pc, job, n, pc, job)
        /\ n.wait[DoneList] = << >>
    BY <1>1, <1>2, DoneWakesOne
  <1>4. CASE k' = Schedule(n)
    <2>1. /\ WaitsInv(k', pc, job, Shut) /\ SameWaits(n, k')
          /\ Coming(k', pc, job, "alloc") = Coming(n, pc, job, "alloc")
      BY <1>3, <1>4, IrqScheduled
    <2>2. EventQuiet(k, job, k', job') /\ PoolQuiet(k, pc, job, k', pc', job')
      BY <2>1, <1>2, <1>3 DEF Quiet, EventQuiet, PoolQuiet, SameWaits
    <2>3. WaitsInv(k', pc', job', Shut') /\ k'.wait[DoneList] = << >>
      BY <2>1, <1>2, <1>3 DEF SameWaits
    <2>. QED  BY <2>2, <2>3, <1>2, CompletionStepKept
  <1>5. CASE k' = n
    <2>1. EventQuiet(k, job, k', job') /\ PoolQuiet(k, pc, job, k', pc', job')
      BY <1>2, <1>3, <1>5 DEF Quiet
    <2>2. WaitsInv(k', pc', job', Shut') /\ k'.wait[DoneList] = << >>
      BY <1>2, <1>3, <1>5
    <2>. QED  BY <2>1, <2>2, <1>2, CompletionStepKept
  <1>. QED  BY <1>2, <1>4, <1>5

(***************************************************************************)
(* All the steps of a thread on the completion.                            *)
(***************************************************************************)
LEMMA StepCompletion ==
  ASSUME IInv, NEW t \in Thread, CompletionStep(t), UNCHANGED << eventvars, poolvars >>
  PROVE  IInv' /\ ConsumedOnce
  BY StepWaitNow, StepWaitReturns, StepDoneTests, StepDoneSets, StepWaitBlocks
     DEF CompletionStep

-----------------------------------------------------------------------------
(* The event, except for rt_event_send *)

(***************************************************************************)
(* A thread that runs writes its error number.                             *)
(***************************************************************************)
LEMMA ErrQuiet ==
  ASSUME NEW shut, WaitsInv(k, pc, job, shut), NEW t \in Thread, NEW f, InCall(t, f),
         NEW e \in Err, k' = ErrSet(k, t, e), pc' = pc, job' = job
  PROVE  WaitsInv(k', pc', job', shut) /\ Quiet(k, pc, job, k', pc', job')
  <1>1. t # Idle /\ t \notin Sleepers(k) /\ pc[t] = "run" /\ job[t].op = "none"
    BY CallerFacts
  <1>2. /\ Sound(k', pc) /\ Sleepers(k') = Sleepers(k) /\ k'.wait = k.wait
        /\ k'.armed = k.armed /\ \A x \in Thread \ {t} : k'.err[x] = k.err[x]
    <2>1. /\ Sound(k, pc) /\ e \in Err /\ k.err \in [Thread -> Err]
          /\ k' = ErrSet(k, t, e) /\ t \in Thread
      BY WaitsFacts
    <2>2. /\ Sound(k', pc) /\ k'.wait = k.wait /\ k'.armed = k.armed
          /\ Sleepers(k') = Sleepers(k) /\ k'.err = [k.err EXCEPT ![t] = e]
      BY ONLY <2>1, ErrSound
    <2>. QED  BY <2>1, <2>2
  <1>3. Moved(pc, t, "run") = pc
    BY <1>1 DEF Moved, WaitsInv
  <1>4. /\ WaitsInv(k', Moved(pc, t, "run"), job, shut)
        /\ \A op \in WaitOps :
             Coming(k', Moved(pc, t, "run"), job, op) = Coming(k, pc, job, op) \ {t}
    <2>1. /\ job \in [Thread -> Jobs] /\ (\A x \in Thread \ {t} : job[x] = job[x])
          /\ "run" \in {"run", "sched", "done"} /\ pc[t] \notin {"test", "flush"}
      BY <1>1 DEF WaitsInv
    <2>. QED  BY <2>1, <1>1, <1>2, ReturnKeeps
  <1>5. Coming(k', pc', job', "alloc") = Coming(k, pc, job, "alloc")
    BY <1>1, <1>3, <1>4 DEF Coming, Comes, WaitOps
  <1>. QED  BY <1>2, <1>3, <1>4, <1>5, QuietIf

(***************************************************************************)
(* rt_event_recv returns at once, with or without its bits.                *)
(***************************************************************************)
LEMMA StepRecvNow ==
  ASSUME IInv, NEW t \in Thread, NEW r, RecvNow(t, r) \/ RecvFails(t, r),
         UNCHANGED << poolvars, done >>
  PROVE  IInv' /\ ConsumedOnce
  <1>1. /\ WaitsInv(k, pc, job, Shut) /\ Shut' = Shut /\ pc' = pc /\ job' = job
        /\ free' = free /\ done' = done /\ PoolType' /\ done' \in BOOLEAN /\ EventType'
        /\ events' \subseteq events
    BY DEF IInv, RecvNow, RecvFails, poolvars, eventvars, Shut, PoolType, EventType
  <1>2. PICK e \in Err : k' = ErrSet(k, t, e)
    <2>1. "ok" \in Err /\ "timeout" \in Err
      BY DEF Err
    <2>. QED  BY <2>1 DEF RecvNow, RecvFails, ErrSet
  <1>3. InCall(t, "evrecv")
    BY DEF RecvNow, RecvFails, InEvent
  <1>4. WaitsInv(k', pc', job', Shut) /\ Quiet(k, pc, job, k', pc', job')
    BY <1>1, <1>2, <1>3, ErrQuiet
  <1>. QED  BY <1>1, <1>4, QuietKept

(***************************************************************************)
(* rt_event_recv waits.                                                    *)
(***************************************************************************)
LEMMA StepRecvWaits ==
  ASSUME IInv, NEW t \in Thread, NEW r \in Requests, NEW timeout \in Timeouts,
         RecvWaits(t, r, timeout), UNCHANGED << poolvars, done >>
  PROVE  IInv' /\ ConsumedOnce
  <1>1. /\ WaitsInv(k, pc, job, Shut) /\ Shut' = Shut /\ events' = events
        /\ UNCHANGED << poolvars, done >> /\ EventType'
        /\ k' = WaitOn(k, EventList, t, flag, timeout) /\ pc' = Moved(pc, t, "block")
        /\ job' = [job EXCEPT ![t] = [op |-> "evrecv", wait |-> timeout, arg |-> r]]
        /\ ~ Satisfied(r, events) /\ InCall(t, "evrecv") /\ eventOpen
        /\ Unmet(k, job, events)
    BY DEF IInv, RecvWaits, InEvent, BlockOn, Begins, Goto, Moved, eventvars, poolvars, Shut,
           EventType
  <1>2. t = k.cur /\ t # Idle /\ t \notin Sleepers(k) /\ pc[t] = "run" /\ job[t].op = "none"
    BY <1>1, CallerFacts
  <1>3. PICK l : l = Joined(k.wait[EventList], k.prio, t, flag)
    OBVIOUS
  <1>4. /\ Sound(k', Moved(pc, t, "block")) /\ Enters(k, EventList, t, l, timeout, k')
        /\ Range(l) = Range(k.wait[EventList]) \cup {t}
    <2>1. /\ WaitsInv(k, pc, job, Shut) /\ EventList \in Queue
          /\ t = k.cur /\ t # Idle /\ t \notin Sleepers(k)
          /\ k' = WaitOn(k, EventList, t, flag, timeout)
          /\ l = Joined(k.wait[EventList], k.prio, t, flag)
      BY <1>1, <1>2, <1>3, ListsFacts
    <2>. QED  BY ONLY <2>1, JoinsList
  <1>5. PICK j : j = job'
    OBVIOUS
  <1>6. /\ j \in [Thread -> Jobs] /\ \A x \in Thread \ {t} : j[x] = job[x]
        /\ j[t].op = OpOf(EventList) /\ j[t].wait = timeout /\ j[t].arg = r
        /\ r \in EventArgs
    <2>1. job \in [Thread -> Jobs]
      BY <1>1 DEF WaitsInv
    <2>2. r \in EventArgs
      BY EventAssumption DEF EventArgs
    <2>3. [op |-> "evrecv", wait |-> timeout, arg |-> r] \in Jobs
      BY <2>2 DEF Jobs, JobType, Ops
    <2>. QED  BY <2>1, <2>2, <2>3, <1>1, <1>5, OpFacts
  <1>7. /\ WaitsInv(k', Moved(pc, t, "block"), j, Shut)
        /\ \A op \in WaitOps :
             Coming(k', Moved(pc, t, "block"), j, op) = Coming(k, pc, job, op) \ {t}
        /\ \A q \in Lists \ {EventList} : k'.wait[q] = k.wait[q]
        /\ Range(k'.wait[EventList]) = Range(k.wait[EventList]) \cup {t}
        /\ Sleepers(k) \subseteq Sleepers(k')
    <2>1. EventList \notin Shut
      <3>1. EventList \in ShutLists(eventOpen, poolOpen) <=> ~ eventOpen
        BY ONLY ShutFacts
      <3>. QED  BY <3>1, <1>1, Zenon DEF Shut
    <2>2. Blocking(k, pc, job, Shut, EventList, t, l, timeout, k', j)
      BY <2>1, <1>1, <1>2, <1>4, <1>6, ListsFacts DEF Blocking
    <2>3. WaitsInv(k, pc, job, Shut) /\ EventList \in Lists
      BY <1>1, OpFacts
    <2>. QED  BY ONLY <2>2, <2>3, EnterKeeps
  <1>8. DoneQuiet(k, k') /\ \A x \in Sleepers(k) : x \in Sleepers(k') /\ x # t /\ j[x] = job[x]
    <2>1. /\ WaitsInv(k, pc, job, Shut) /\ EventList \in Lists /\ t \in Thread
          /\ t \notin Sleepers(k) /\ Sleepers(k) \subseteq Sleepers(k')
          /\ (\A q \in Lists \ {EventList} : k'.wait[q] = k.wait[q])
          /\ (\A x \in Thread \ {t} : j[x] = job[x])
          /\ DoneList # EventList
      BY <1>1, <1>2, <1>6, <1>7, OpFacts, ListsFacts
    <2>. QED  BY ONLY <2>1, EnterQuiet
  <1>9. PoolQuiet(k, pc, job, k', pc', job')
    <2>1. t \notin Coming(k, pc, job, "alloc")
      BY <1>2 DEF Coming, Comes
    <2>2. Coming(k', pc', job', "alloc") = Coming(k, pc, job, "alloc") \ {t}
      BY <1>1, <1>5, <1>7 DEF WaitOps
    <2>3. k'.wait[PoolList] = k.wait[PoolList]
      BY <1>7, OpFacts, ListsFacts
    <2>. QED  BY <2>1, <2>2, <2>3 DEF PoolQuiet
  <1>10. Unmet(k', job', events')
    <2>1. Range(k.wait[EventList]) \subseteq Sleepers(k)
      BY <1>1, WaitsFacts, OpFacts
    <2>2. \A x \in Range(k.wait[EventList]) : ~ Satisfied(job'[x].arg, events')
      BY <2>1, <1>1, <1>5, <1>8 DEF Unmet
    <2>3. ~ Satisfied(job'[t].arg, events')
      BY <1>1, <1>5, <1>6
    <2>. QED  BY <2>2, <2>3, <1>7 DEF Unmet
  <1>11. WaitsInv(k', pc', job', Shut')
    BY <1>1, <1>5, <1>7
  <1>12. ConsumedOnce
    <2>1. \A x \in Thread : ~ GetsBits(x)
      BY <1>7 DEF GetsBits, Sleepers
    <2>. QED  BY <2>1 DEF ConsumedOnce
  <1>. QED  BY <1>1, <1>8, <1>9, <1>10, <1>11, <1>12, EventStepKept

(***************************************************************************)
(* rt_event_recv returns after it has waited.                              *)
(***************************************************************************)
LEMMA StepRecvReturns ==
  ASSUME IInv, NEW t \in Thread, RecvReturns(t), UNCHANGED << poolvars, done >>
  PROVE  IInv' /\ ConsumedOnce
  <1>1. /\ WaitsInv(k, pc, job, Shut) /\ Shut' = Shut /\ k' = k
        /\ free' = free /\ done' = done /\ events' = events
        /\ PoolType' /\ done' \in BOOLEAN /\ EventType'
        /\ pc' = Moved(pc, t, "run") /\ Done(t)
        /\ t = k.cur /\ pc[t] = "woken" /\ job[t].op = "evrecv"
    BY DEF IInv, RecvReturns, GoesOn, Goto, Moved, eventvars, poolvars, Shut, PoolType, EventType
  <1>2. t # Idle /\ t \notin Sleepers(k)
    BY <1>1, WokenFacts
  <1>3. /\ WaitsInv(k, Moved(pc, t, "run"), job', Shut)
        /\ \A op \in WaitOps :
             Coming(k, Moved(pc, t, "run"), job', op) = Coming(k, pc, job, op) \ {t}
    <2>1. Sound(k, pc) /\ "run" \in {"run", "sched", "done"} /\ Done(t)
          /\ pc[t] \notin {"test", "flush"}
      BY <1>1, WaitsFacts
    <2>. QED  BY <2>1, <1>1, <1>2, DoneKeeps
  <1>4. Coming(k', pc', job', "alloc") = Coming(k, pc, job, "alloc")
    BY <1>1, <1>3 DEF Coming, Comes, WaitOps
  <1>5. \A x \in Sleepers(k) : job'[x] = job[x]
    BY <1>1, <1>2, WaitsFacts DEF Done
  <1>6. WaitsInv(k', pc', job', Shut') /\ Quiet(k, pc, job, k', pc', job')
    BY <1>1, <1>3, <1>4, <1>5, QuietIf
  <1>. QED  BY <1>1, <1>6, QuietKept

(***************************************************************************)
(* rt_event_control(RT_IPC_CMD_RESET).                                     *)
(***************************************************************************)
LEMMA StepResetEvent ==
  ASSUME IInv, NEW t \in Thread, ResetEvent(t), UNCHANGED << poolvars, done >>
  PROVE  IInv' /\ ConsumedOnce
  <1>1. /\ WaitsInv(k, pc, job, Shut) /\ Shut' = Shut /\ k' = ResumeAll(k, EventList)
        /\ free' = free /\ done' = done /\ events' = {} /\ job' = job
        /\ PoolType' /\ done' \in BOOLEAN /\ EventType'
        /\ pc' = Moved(pc, t, "sched") /\ InCall(t, "evreset") /\ eventOpen
    BY DEF IInv, ResetEvent, InEvent, Goto, Moved, eventvars, poolvars, Shut, PoolType, EventType
  <1>2. t = k.cur /\ t # Idle /\ t \notin Sleepers(k) /\ pc[t] = "run" /\ job[t].op = "none"
    BY <1>1, CallerFacts
  <1>3. /\ WaitsInv(k', pc, job, Shut)
        /\ Sleepers(k') = Sleepers(k) \ Range(k.wait[EventList])
        /\ \A x \in Range(k.wait[EventList]) : k'.err[x] # "ok"
        /\ \A op : Coming(k', pc, job, op) = Coming(k, pc, job, op)
        /\ \A q \in Lists : k'.wait[q] = IF q = EventList THEN << >> ELSE k.wait[q]
    <2>1. EventList \notin Shut
      <3>1. EventList \in ShutLists(eventOpen, poolOpen) <=> ~ eventOpen
        BY ONLY ShutFacts
      <3>. QED  BY <3>1, <1>1, Zenon DEF Shut
    <2>. QED  BY <2>1, <1>1, OpFacts, FailKeeps
  <1>4. /\ WaitsInv(k', Moved(pc, t, "sched"), job, Shut)
        /\ \A op \in WaitOps :
             Coming(k', Moved(pc, t, "sched"), job, op) = Coming(k', pc, job, op)
    BY <1>2, <1>3, CallEnds
  <1>5. Coming(k', pc', job', "alloc") = Coming(k, pc, job, "alloc")
    BY <1>1, <1>3, <1>4 DEF WaitOps
  <1>6. \A q \in Lists : Range(k'.wait[q]) \subseteq Range(k.wait[q])
    <2>1. Range(<< >>) = {}
      BY DEF Range
    <2>. QED  BY <2>1, <1>3
  <1>7. Quiet(k, pc, job, k', pc', job')
    BY <1>1, <1>3, <1>5, <1>6, QuietIf
  <1>8. WaitsInv(k', pc', job', Shut')
    BY <1>1, <1>4
  <1>. QED  BY <1>1, <1>7, <1>8, QuietKept

(***************************************************************************)
(* rt_event_detach begins.                                                 *)
(***************************************************************************)
LEMMA StepDetachEvent ==
  ASSUME IInv, NEW t \in Thread, DetachEvent(t), UNCHANGED << poolvars, done >>
  PROVE  IInv' /\ ConsumedOnce
  <1>1. /\ WaitsInv(k, pc, job, Shut) /\ free' = free /\ eventOpen /\ eventOpen' = FALSE
        /\ poolOpen' = poolOpen /\ events' = events /\ done' = done
        /\ EventType' /\ PoolType' /\ done' \in BOOLEAN
    BY DEF IInv, DetachEvent, InEvent, poolvars, EventType, PoolType
  <1>2. /\ EventList \in Swept /\ EventList \notin Shut /\ EventList \in Shut'
        /\ \A r \in Swept \ {EventList} : r \in Shut' <=> r \in Shut
    <2>1. Shut = ShutLists(eventOpen, poolOpen) /\ Shut' = ShutLists(eventOpen', poolOpen)
      BY <1>1 DEF Shut
    <2>2. /\ EventList \in ShutLists(eventOpen, poolOpen) <=> ~ eventOpen
          /\ EventList \in ShutLists(eventOpen', poolOpen) <=> ~ eventOpen'
      BY ONLY ShutFacts
    <2>3. \A r \in Swept \ {EventList} :
            r \in ShutLists(eventOpen, poolOpen) <=> r \in ShutLists(eventOpen', poolOpen)
      BY ONLY ShutOthers
    <2>. QED  BY <2>1, <2>2, <2>3, <1>1, OpFacts, Zenon
  <1>3. /\ InCall(t, DetachOf(EventList)) /\ NobodyInside({OpOf(EventList)})
        /\ Waiting(EventList) \cap k.armed = {} /\ BeginFlush(t, DetachOf(EventList))
    BY OpFacts DEF DetachEvent, InEvent
  <1>4. WaitsInv(k', pc', job', Shut') /\ Quiet(k, pc, job, k', pc', job')
    BY <1>1, <1>2, <1>3, StartSweep
  <1>. QED  BY <1>1, <1>4, QuietKept

(***************************************************************************)
(* rt_event_init of an event that was detached.                            *)
(***************************************************************************)
LEMMA StepInitEvent ==
  ASSUME IInv, NEW t \in Thread, InitEvent(t), UNCHANGED << poolvars, done >>
  PROVE  IInv' /\ ConsumedOnce
  <1>1. /\ WaitsInv(k, pc, job, Shut) /\ events' = {} /\ ~ eventOpen /\ eventOpen' = TRUE
        /\ k' = k /\ pc' = pc /\ job' = job /\ poolOpen' = poolOpen /\ free' = free
        /\ done' = done /\ EventType' /\ PoolType' /\ done' \in BOOLEAN
    BY DEF IInv, InitEvent, poolvars, PoolType, EventType
  <1>2. /\ EventList \in Swept /\ EventList \in Shut /\ EventList \notin Shut'
        /\ \A r \in Swept \ {EventList} : r \in Shut' <=> r \in Shut
    <2>1. Shut = ShutLists(eventOpen, poolOpen) /\ Shut' = ShutLists(eventOpen', poolOpen)
      BY <1>1 DEF Shut
    <2>2. /\ EventList \in ShutLists(eventOpen, poolOpen) <=> ~ eventOpen
          /\ EventList \in ShutLists(eventOpen', poolOpen) <=> ~ eventOpen'
      BY ONLY ShutFacts
    <2>3. \A r \in Swept \ {EventList} :
            r \in ShutLists(eventOpen, poolOpen) <=> r \in ShutLists(eventOpen', poolOpen)
      BY ONLY ShutOthers
    <2>. QED  BY <2>1, <2>2, <2>3, <1>1, OpFacts, Zenon
  <1>3. Sweepers(job, EventList) = {}
    BY OpFacts DEF InitEvent, Sweepers
  <1>4. PICK fin : fin = Shut'
    OBVIOUS
  <1>5. WaitsInv(k, pc, job, fin)
    BY <1>1, <1>2, <1>3, <1>4, Reopens
  <1>6. WaitsInv(k', pc', job', Shut')
    BY <1>1, <1>4, <1>5
  <1>7. Quiet(k, pc, job, k', pc', job')
    BY <1>1, StillQuiet
  <1>. QED  BY <1>1, <1>6, <1>7, QuietKept

-----------------------------------------------------------------------------
(* rt_event_send *)

(***************************************************************************)
(* A thread that is awake is given its bits.                               *)
(***************************************************************************)
LEMMA GiftKeeps ==
  ASSUME NEW s, NEW at, NEW jb, NEW shut, WaitsInv(s, at, jb, shut),
         NEW t \in Thread, t \notin Sleepers(s), jb[t].op = "evrecv",
         NEW j \in [Thread -> Jobs], \A x \in Thread \ {t} : j[x] = jb[x],
         j[t].op = "evrecv", j[t].arg \in EventArgs
  PROVE  /\ WaitsInv(s, at, j, shut)
         /\ \A op : Coming(s, at, j, op) = Coming(s, at, jb, op)
  <1>1. \A x \in Thread : j[x].op = jb[x].op
    OBVIOUS
  <1>2. \A x \in Sleepers(s) : j[x] = jb[x]
    BY DEF Sleepers
  <1>3. ASSUME NEW q \in Lists PROVE ListedIn(s, j, q, OpOf(q))
    <2>1. ListedIn(s, jb, q, OpOf(q))
      BY DEF WaitsInv
    <2>. QED  BY <2>1, <1>2, ListedSame
  <1>4. \A q \in Swept : SweepOK(s, at, j, shut, q)
    BY <1>1 DEF WaitsInv, SweepOK, Sweepers
  <1>5. \A x \in Thread : j[x].op = "evrecv" => j[x].arg \in EventArgs
    BY DEF WaitsInv
  <1>6. \A op : Coming(s, at, j, op) = Coming(s, at, jb, op)
    BY <1>1 DEF Coming, Comes
  <1>. QED  BY <1>1, <1>3, <1>4, <1>5, <1>6 DEF WaitsInv

(* the bits t gets of an event that has the bits set *)
Part(jb, t, set) == jb[t].arg.bits \cap set

(***************************************************************************)
(* z is what the scan has made of s, jb and set after m threads of list w, *)
(* of which those of the set gone got their bits: those that were passed   *)
(* over are still not satisfied, and what one got and cleared is neither   *)
(* left nor given to one behind it.                                        *)
(***************************************************************************)
Gifts(jb, set, gone, z) ==
  \A t \in gone :
    LET got == z.job[t].arg.bits
    IN  /\ got # {} /\ got \subseteq jb[t].arg.bits
        /\ jb[t].arg.mode = "and" => got = jb[t].arg.bits
        /\ jb[t].arg.clear => got \cap z.events = {}

Apart(jb, w, m, gone, z) ==
  \A i \in 1 .. m : \A j \in 1 .. m :
    i < j /\ w[i] \in gone /\ w[j] \in gone /\ jb[w[i]].arg.clear
      => z.job[w[i]].arg.bits \cap z.job[w[j]].arg.bits = {}

Passed(jb, w, m, gone, z) ==
  \A i \in 1 .. m : w[i] \notin gone => ~ Satisfied(jb[w[i]].arg, z.events)

Scanned(s, at, jb, shut, set, m, gone, z) ==
  /\ WaitsInv(z.k, at, z.job, shut) /\ z.k.cur = s.cur
  /\ Sleepers(z.k) = Sleepers(s) \ gone
  /\ Range(z.k.wait[EventList]) = Range(s.wait[EventList]) \ gone
  /\ \A q \in Lists \ {EventList} : z.k.wait[q] = s.wait[q]
  /\ Coming(z.k, at, z.job, "alloc") = Coming(s, at, jb, "alloc")
  /\ \A t \in Thread \ gone : z.job[t] = jb[t]
  /\ z.events \subseteq set
  /\ gone \subseteq {s.wait[EventList][i] : i \in 1 .. m}
  /\ Gifts(jb, set, gone, z)
  /\ Apart(jb, s.wait[EventList], m, gone, z)
  /\ Passed(jb, s.wait[EventList], m, gone, z)

(* z with t woken, which was given the bits got and leaves the bits left *)
Given(z, t, got, left) ==
  [k |-> Resume(z.k, t), events |-> left, job |-> [z.job EXCEPT ![t].arg.bits = got]]

(***************************************************************************)
(* The bits a satisfied thread gets.                                       *)
(***************************************************************************)
LEMMA PartFacts ==
  ASSUME NEW r \in EventArgs, NEW set, Satisfied(r, set), NEW got, got = r.bits \cap set
  PROVE  /\ got # {} /\ got \subseteq r.bits /\ (r.mode = "and" => got = r.bits)
         /\ [r EXCEPT !.bits = got] \in EventArgs
         /\ [r EXCEPT !.bits = got].bits = got
  <1>1. r.bits \in (SUBSET Bit) \ {{}} /\ r.mode \in {"and", "or"} /\ r.clear \in BOOLEAN
    BY DEF EventArgs
  <1>2. got # {} /\ got \subseteq r.bits /\ (r.mode = "and" => got = r.bits)
    BY <1>1 DEF Satisfied
  <1>3. got \in (SUBSET Bit) \ {{}}
    BY <1>1, <1>2
  <1>. QED  BY <1>2, <1>3 DEF EventArgs

(***************************************************************************)
(* One more thread is woken with its bits.                                 *)
(***************************************************************************)
LEMMA GivenScanned ==
  ASSUME NEW s, NEW at, NEW jb, NEW shut, WaitsInv(s, at, jb, shut), EventList \notin shut,
         NEW set, NEW m \in 1 .. Len(s.wait[EventList]), NEW gone, NEW z,
         Scanned(s, at, jb, shut, set, m - 1, gone, z),
         NEW t, t = s.wait[EventList][m], Satisfied(jb[t].arg, z.events),
         NEW got, got = Part(jb, t, z.events),
         NEW left, left \subseteq z.events, jb[t].arg.clear => got \cap left = {},
         NEW y, y = Given(z, t, got, left)
  PROVE  Scanned(s, at, jb, shut, set, m, gone \cup {t}, y)
  <1> DEFINE w == s.wait[EventList]
  <1>1. /\ w \in Seq(Thread) /\ IsInjective(w) /\ DOMAIN w = 1 .. Len(w) /\ Len(w) \in Nat
        /\ t \in Range(w) /\ t \in Thread /\ t \in Sleepers(s)
    <2>1. /\ s.wait[EventList] \in Seq(Thread) /\ ListsInv(s, {})
          /\ Range(s.wait[EventList]) \subseteq Sleepers(s) /\ Sleepers(s) \subseteq Thread
      BY WaitsFacts, OpFacts, SoundFacts
    <2>2. IsInjective(s.wait[EventList])
      BY <2>1, OpFacts, Members DEF ListsInjective
    <2>3. DOMAIN w = 1 .. Len(w) /\ Len(w) \in Nat
      BY <2>1, LenProperties
    <2>4. t \in Range(w)
      BY <2>3 DEF Range
    <2>. QED  BY <2>1, <2>2, <2>3, <2>4
  <1>2. \A i \in 1 .. m - 1 : i \in DOMAIN w /\ i # m /\ w[i] # t
    BY <1>1 DEF IsInjective
  <1>3. t \notin gone
    BY <1>2 DEF Scanned
  <1>4. /\ WaitsInv(z.k, at, z.job, shut) /\ t \in Range(z.k.wait[EventList])
        /\ z.job[t] = jb[t] /\ z.job \in [Thread -> Jobs] /\ t \in Sleepers(z.k)
    BY <1>1, <1>3 DEF Scanned, WaitsInv
  <1>5. jb[t].op = "evrecv" /\ jb[t].arg \in EventArgs /\ jb[t] \in Jobs
    BY <1>1, OpFacts DEF WaitsInv, ListedIn
  <1>6. PICK n : n = Resume(z.k, t)
    OBVIOUS
  <1>7. /\ WaitsInv(n, at, z.job, shut)
        /\ Sleepers(n) = Sleepers(z.k) \ {t} /\ n.cur = z.k.cur
        /\ \A op \in WaitOps \ {OpOf(EventList)} :
             Coming(n, at, z.job, op) = Coming(z.k, at, z.job, op)
        /\ \A r \in Lists \ {EventList} : n.wait[r] = z.k.wait[r]
        /\ Range(n.wait[EventList]) = Range(z.k.wait[EventList]) \ {t}
    <2>1. EventList \in Lists /\ EventList \notin shut
      BY OpFacts
    <2>2. WaitsInv(z.k, at, z.job, shut) /\ t \in Range(z.k.wait[EventList])
      BY <1>4
    <2>. QED  BY ONLY <2>1, <2>2, <1>6, WakeOneKeeps
  <1>8. PICK j : j = [z.job EXCEPT ![t].arg.bits = got]
    OBVIOUS
  <1>9. /\ got # {} /\ got \subseteq jb[t].arg.bits
        /\ (jb[t].arg.mode = "and" => got = jb[t].arg.bits)
        /\ [jb[t].arg EXCEPT !.bits = got] \in EventArgs
        /\ [jb[t].arg EXCEPT !.bits = got].bits = got
    <2>1. got = jb[t].arg.bits \cap z.events
      BY DEF Part
    <2>2. PICK r : r = jb[t].arg
      OBVIOUS
    <2>3. PICK e : e = z.events
      OBVIOUS
    <2>4. r \in EventArgs /\ Satisfied(r, e) /\ got = r.bits \cap e
      BY <2>1, <2>2, <2>3, <1>5
    <2>5. /\ got # {} /\ got \subseteq r.bits /\ (r.mode = "and" => got = r.bits)
          /\ [r EXCEPT !.bits = got] \in EventArgs
          /\ [r EXCEPT !.bits = got].bits = got
      BY ONLY <2>4, PartFacts
    <2>. QED  BY <2>2, <2>5
  <1>10. /\ j \in [Thread -> Jobs] /\ \A x \in Thread \ {t} : j[x] = z.job[x]
         /\ j[t].op = "evrecv" /\ j[t].arg = [jb[t].arg EXCEPT !.bits = got]
    <2>1. j = [z.job EXCEPT ![t] = [z.job[t] EXCEPT !.arg = [z.job[t].arg EXCEPT !.bits = got]]]
      BY <1>8
    <2>2. PICK r : r = [jb[t].arg EXCEPT !.bits = got]
      OBVIOUS
    <2>3. PICK o : o = [jb[t] EXCEPT !.arg = r]
      OBVIOUS
    <2>4. o \in Jobs /\ o.op = "evrecv" /\ o.arg = r
      BY <2>2, <2>3, <1>5, <1>9 DEF Jobs, JobType
    <2>5. j = [z.job EXCEPT ![t] = o]
      BY <2>1, <2>2, <2>3, <1>4
    <2>. QED  BY <2>2, <2>4, <2>5, <1>1, <1>4
  <1>11. /\ WaitsInv(n, at, j, shut)
         /\ \A op : Coming(n, at, j, op) = Coming(n, at, z.job, op)
    <2>1. /\ t \in Thread /\ t \notin Sleepers(n) /\ z.job[t].op = "evrecv"
          /\ j[t].arg \in EventArgs
      BY <1>1, <1>4, <1>5, <1>7, <1>9, <1>10
    <2>. QED  BY <2>1, <1>7, <1>10, GiftKeeps
  <1>12. y.k = n /\ y.events = left /\ y.job = j
    BY <1>6, <1>8 DEF Given
  <1>13. j[t].arg.bits = got /\ \A x \in gone : x \in Thread \ {t}
    <2>1. gone \subseteq Thread
      BY <1>1, <1>2 DEF Scanned
    <2>. QED  BY <2>1, <1>3, <1>9, <1>10
  <1>14. Gifts(jb, set, gone \cup {t}, y)
    <2>1. ASSUME NEW x \in gone
          PROVE  /\ j[x].arg.bits # {} /\ j[x].arg.bits \subseteq jb[x].arg.bits
                 /\ jb[x].arg.mode = "and" => j[x].arg.bits = jb[x].arg.bits
                 /\ jb[x].arg.clear => j[x].arg.bits \cap left = {}
      <3>1. j[x] = z.job[x]
        BY <1>10, <1>13
      <3>. QED  BY <3>1 DEF Scanned, Gifts
    <2>2. /\ j[t].arg.bits # {} /\ j[t].arg.bits \subseteq jb[t].arg.bits
          /\ jb[t].arg.mode = "and" => j[t].arg.bits = jb[t].arg.bits
          /\ jb[t].arg.clear => j[t].arg.bits \cap left = {}
      BY <1>9, <1>13
    <2>3. \A x \in gone \cup {t} :
            /\ j[x].arg.bits # {} /\ j[x].arg.bits \subseteq jb[x].arg.bits
            /\ jb[x].arg.mode = "and" => j[x].arg.bits = jb[x].arg.bits
            /\ jb[x].arg.clear => j[x].arg.bits \cap left = {}
      BY <2>1, <2>2
    <2>. QED  BY <2>3, <1>12 DEF Gifts
  <1>15. Apart(jb, w, m, gone \cup {t}, y)
    <2> SUFFICES ASSUME NEW i \in 1 .. m, NEW l \in 1 .. m, i < l,
                        w[i] \in gone \cup {t}, w[l] \in gone \cup {t}, jb[w[i]].arg.clear
                 PROVE  j[w[i]].arg.bits \cap j[w[l]].arg.bits = {}
      BY <1>12 DEF Apart
    <2>1. i \in 1 .. m - 1 /\ w[i] # t /\ w[i] \in gone
      BY <1>1, <1>2
    <2>2. CASE l = m
      <3>1. z.job[w[i]].arg.bits \cap z.events = {}
        BY <2>1 DEF Scanned, Gifts
      <3>2. j[w[i]] = z.job[w[i]] /\ w[l] = t /\ got \subseteq z.events
        BY <2>1, <2>2, <1>10, <1>13 DEF Part
      <3>. QED  BY <3>1, <3>2, <1>13
    <2>3. CASE l # m
      <3>1. l \in 1 .. m - 1 /\ w[l] \in gone
        BY <2>3, <1>1, <1>2
      <3>2. z.job[w[i]].arg.bits \cap z.job[w[l]].arg.bits = {}
        BY <3>1, <2>1 DEF Scanned, Apart
      <3>. QED  BY <3>1, <3>2, <2>1, <1>10, <1>13
    <2>. QED  BY <2>2, <2>3
  <1>16. Passed(jb, w, m, gone \cup {t}, y)
    <2> SUFFICES ASSUME NEW i \in 1 .. m, w[i] \notin gone \cup {t}
                 PROVE  ~ Satisfied(jb[w[i]].arg, left)
      BY <1>12 DEF Passed
    <2>1. i \in 1 .. m - 1
      BY <1>1
    <2>2. ~ Satisfied(jb[w[i]].arg, z.events)
      BY <2>1 DEF Scanned, Passed
    <2>. QED  BY <2>2, SatisfiedLess
  <1>17. gone \cup {t} \subseteq {w[i] : i \in 1 .. m}
    <2>1. \A i \in 1 .. m - 1 : i \in 1 .. m
      BY <1>1
    <2>2. m \in 1 .. m
      BY <1>1
    <2>. QED  BY <2>1, <2>2 DEF Scanned
  <1>18. Coming(n, at, j, "alloc") = Coming(s, at, jb, "alloc")
    BY <1>7, <1>11, OpFacts DEF Scanned, WaitOps
  <1>19. \A x \in Thread \ (gone \cup {t}) : j[x] = jb[x]
    BY <1>10 DEF Scanned
  <1>20. /\ n.cur = s.cur /\ left \subseteq set
         /\ Sleepers(n) = Sleepers(s) \ (gone \cup {t})
         /\ Range(n.wait[EventList]) = Range(s.wait[EventList]) \ (gone \cup {t})
         /\ \A q \in Lists \ {EventList} : n.wait[q] = s.wait[q]
    BY <1>7 DEF Scanned
  <1>. QED  BY <1>11, <1>12, <1>14, <1>15, <1>16, <1>17, <1>18, <1>19, <1>20 DEF Scanned

(***************************************************************************)
(* One more thread is passed over.                                         *)
(***************************************************************************)
LEMMA PassedScanned ==
  ASSUME NEW s, NEW at, NEW jb, NEW shut, WaitsInv(s, at, jb, shut),
         NEW set, NEW m \in 1 .. Len(s.wait[EventList]), NEW gone, NEW z,
         Scanned(s, at, jb, shut, set, m - 1, gone, z),
         NEW t, t = s.wait[EventList][m], ~ Satisfied(jb[t].arg, z.events)
  PROVE  Scanned(s, at, jb, shut, set, m, gone, z)
  <1> DEFINE w == s.wait[EventList]
  <1>1. w \in Seq(Thread) /\ IsInjective(w) /\ DOMAIN w = 1 .. Len(w) /\ Len(w) \in Nat
    <2>1. s.wait[EventList] \in Seq(Thread) /\ ListsInv(s, {})
      BY WaitsFacts, OpFacts, SoundFacts
    <2>2. IsInjective(s.wait[EventList])
      BY <2>1, OpFacts, Members DEF ListsInjective
    <2>3. DOMAIN w = 1 .. Len(w) /\ Len(w) \in Nat
      BY <2>1, LenProperties
    <2>. QED  BY <2>1, <2>2, <2>3
  <1>2. \A i \in 1 .. m - 1 : i \in DOMAIN w /\ i # m /\ w[i] # t
    BY <1>1 DEF IsInjective
  <1>3. t \notin gone
    BY <1>2 DEF Scanned
  <1>4. \A i \in 1 .. m : i \in 1 .. m - 1 \/ i = m
    BY <1>1
  <1>5. Passed(jb, w, m, gone, z)
    BY <1>4 DEF Scanned, Passed
  <1>6. Apart(jb, w, m, gone, z)
    BY <1>3, <1>4 DEF Scanned, Apart
  <1>7. gone \subseteq {w[i] : i \in 1 .. m}
    <2>1. \A i \in 1 .. m - 1 : i \in 1 .. m
      BY <1>1
    <2>. QED  BY <2>1 DEF Scanned
  <1>. QED  BY <1>5, <1>6, <1>7 DEF Scanned

(***************************************************************************)
(* One more thread is looked at.                                           *)
(***************************************************************************)
LEMMA OfferedScanned ==
  ASSUME NEW s, NEW at, NEW jb, NEW shut, WaitsInv(s, at, jb, shut), EventList \notin shut,
         NEW set, NEW m \in 1 .. Len(s.wait[EventList]), NEW gone, NEW z,
         Scanned(s, at, jb, shut, set, m - 1, gone, z),
         NEW t, t = s.wait[EventList][m], NEW y, y = Offered(z, t)
  PROVE  \E g : Scanned(s, at, jb, shut, set, m, g, y)
  <1>1. z.job[t] = jb[t]
    <2>1. /\ s.wait[EventList] \in Seq(Thread) /\ ListsInv(s, {})
      BY WaitsFacts, OpFacts, SoundFacts
    <2>2. IsInjective(s.wait[EventList])
      BY <2>1, OpFacts, Members DEF ListsInjective
    <2>3. DOMAIN s.wait[EventList] = 1 .. Len(s.wait[EventList]) /\ Len(s.wait[EventList]) \in Nat
      BY <2>1, LenProperties
    <2>4. t \in Thread
      BY <2>1, <2>3
    <2>5. \A i \in 1 .. m - 1 : s.wait[EventList][i] # t
      BY <2>2, <2>3 DEF IsInjective
    <2>6. t \notin gone
      BY <2>5 DEF Scanned
    <2>. QED  BY <2>4, <2>6 DEF Scanned
  <1>2. CASE ~ Satisfied(jb[t].arg, z.events)
    <2>1. y = z
      BY <1>1, <1>2 DEF Offered
    <2>2. Scanned(s, at, jb, shut, set, m, gone, z)
      BY <1>2, PassedScanned
    <2>. QED  BY <2>1, <2>2
  <1>3. CASE Satisfied(jb[t].arg, z.events)
    <2>1. PICK got : got = Part(jb, t, z.events)
      OBVIOUS
    <2>2. PICK left : left = IF jb[t].arg.clear THEN z.events \ got ELSE z.events
      OBVIOUS
    <2>3. y = Given(z, t, got, left)
      BY <1>1, <1>3, <2>1, <2>2 DEF Offered, Given, Part
    <2>4. left \subseteq z.events /\ (jb[t].arg.clear => got \cap left = {})
      BY <2>2
    <2>5. Scanned(s, at, jb, shut, set, m, gone \cup {t}, y)
      BY <1>3, <2>1, <2>3, <2>4, GivenScanned
    <2>. QED  BY <2>5
  <1>. QED  BY <1>2, <1>3

(* after[n] is what the scan has made of z once the first n threads of w   *)
(* have been looked at                                                     *)
Scans(z, w, len, after) ==
  after = [n \in 0 .. len |-> IF n = 0 THEN z ELSE Offered(after[n - 1], w[n])]

(***************************************************************************)
(* The scan has a state after each of its rounds.                          *)
(***************************************************************************)
LEMMA ScansExist ==
  ASSUME NEW z, NEW w, NEW len \in Nat
  PROVE  \E after : Scans(z, w, len, after)
  <1> DEFINE Bad == {m \in Nat : ~ \E after : Scans(z, w, m, after)}
  <1> SUFFICES ASSUME Bad # {} PROVE FALSE
    OBVIOUS
  <1>1. PICK m \in Bad : \A y \in Bad : m <= y
    <2>1. Bad \subseteq Nat
      OBVIOUS
    <2>. QED  BY <2>1, MinInSet
  <1>2. m \in Nat
    OBVIOUS
  <1>3. CASE m = 0
    <2>1. PICK f : f = [n \in 0 .. 0 |-> z]
      OBVIOUS
    <2>2. f = [n \in 0 .. 0 |-> IF n = 0 THEN z ELSE Offered(f[n - 1], w[n])]
      BY <2>1
    <2>3. Scans(z, w, m, f)
      BY <2>2, <1>3 DEF Scans
    <2>. QED  BY <2>3
  <1>4. CASE m # 0
    <2>1. m - 1 \in Nat /\ ~ (m <= m - 1)
      BY <1>2, <1>4
    <2>2. m - 1 \notin Bad
      BY <2>1, <1>1
    <2>3. PICK g : Scans(z, w, m - 1, g)
      BY <2>1, <2>2
    <2> HIDE DEF Bad
    <2>4. /\ \A n \in 0 .. m - 1 : g[n] = IF n = 0 THEN z ELSE Offered(g[n - 1], w[n])
      BY <2>3 DEF Scans
    <2>5. PICK f : f = [n \in 0 .. m |-> IF n = m THEN Offered(g[m - 1], w[m]) ELSE g[n]]
      OBVIOUS
    <2>6. ASSUME NEW n \in 0 .. m
          PROVE  f[n] = IF n = 0 THEN z ELSE Offered(f[n - 1], w[n])
      <3>1. CASE n = 0
        BY <3>1, <2>4, <2>5, <1>2, <1>4
      <3>2. CASE n # 0 /\ n # m
        <4>1. n \in 0 .. m - 1 /\ n - 1 \in 0 .. m /\ n - 1 # m
          BY <3>2, <1>2
        <4>2. f[n] = g[n] /\ f[n - 1] = g[n - 1]
          BY <4>1, <3>2, <2>5
        <4>. QED  BY <4>1, <4>2, <3>2, <2>4
      <3>3. CASE n # 0 /\ n = m
        <4>1. n - 1 \in 0 .. m /\ n - 1 # m
          BY <3>3, <1>2
        <4>2. f[n] = Offered(g[n - 1], w[n]) /\ f[n - 1] = g[n - 1]
          BY <4>1, <3>3, <2>5
        <4>. QED  BY <4>2, <3>3
      <3>. QED  BY <3>1, <3>2, <3>3
    <2>7. f = [n \in 0 .. m |-> IF n = 0 THEN z ELSE Offered(f[n - 1], w[n])]
      BY <2>5, <2>6
    <2>8. Scans(z, w, m, f)
      BY <2>7 DEF Scans
    <2>. QED  BY <2>8 DEF Bad
  <1>. QED  BY <1>3, <1>4
(***************************************************************************)
(* What the whole scan does.                                               *)
(***************************************************************************)
LEMMA ScanSound ==
  ASSUME NEW s, NEW at, NEW jb, NEW shut, WaitsInv(s, at, jb, shut), EventList \notin shut,
         NEW set, NEW w, w = s.wait[EventList], NEW z, z = [k |-> s, events |-> set, job |-> jb],
         NEW after, Scans(z, w, Len(w), after), NEW last, last = after[Len(w)]
  PROVE  \E g : Scanned(s, at, jb, shut, set, Len(w), g, last)
  <1> DEFINE Good(m) == \E g : Scanned(s, at, jb, shut, set, m, g, after[m])
             Bad == {m \in 0 .. Len(w) : ~ Good(m)}
  <1>1. Len(w) \in Nat
    <2>1. w \in Seq(Thread)
      BY WaitsFacts, OpFacts
    <2>. QED  BY <2>1, LenProperties
  <1>2. \A m \in 0 .. Len(w) : after[m] = IF m = 0 THEN z ELSE Offered(after[m - 1], w[m])
    BY <1>1 DEF Scans
  <1>3. Bad = {}
    <2> SUFFICES ASSUME Bad # {} PROVE FALSE
      OBVIOUS
    <2>1. PICK m \in Bad : \A y \in Bad : m <= y
      <3>1. Bad \subseteq Nat
        BY <1>1
      <3>. QED  BY <3>1, MinInSet
    <2>2. m \in 0 .. Len(w) /\ ~ Good(m)
      OBVIOUS
    <2>3. CASE m = 0
      <3>1. after[0] = z
        BY <1>1, <1>2
      <3>2. /\ z.k = s /\ z.events = set /\ z.job = jb
        OBVIOUS
      <3>3. /\ \A i : i \notin 1 .. 0
        OBVIOUS
      <3>4. Gifts(jb, set, {}, z) /\ Apart(jb, w, 0, {}, z) /\ Passed(jb, w, 0, {}, z)
        BY <3>3 DEF Gifts, Apart, Passed
      <3>5. Scanned(s, at, jb, shut, set, 0, {}, z)
        BY <3>2, <3>4 DEF Scanned
      <3>. QED  BY <3>1, <3>5, <2>2, <2>3
    <2>4. CASE m # 0
      <3>1. m - 1 \in 0 .. Len(w) /\ ~ (m <= m - 1) /\ m \in 1 .. Len(w)
        BY <2>2, <2>4, <1>1
      <3>2. Good(m - 1)
        BY <3>1, <2>1
      <3>3. PICK n : n = after[m - 1]
        OBVIOUS
      <3>4. PICK g : Scanned(s, at, jb, shut, set, m - 1, g, n)
        BY <3>2, <3>3
      <3>5. PICK y : y = Offered(n, w[m])
        OBVIOUS
      <3>6. after[m] = y
        BY <3>1, <3>3, <3>5, <2>4, <1>2
      <3>7. m \in 1 .. Len(s.wait[EventList]) /\ w[m] = s.wait[EventList][m]
        BY <3>1
      <3>8. \E f : Scanned(s, at, jb, shut, set, m, f, y)
        BY <3>4, <3>5, <3>7, OfferedScanned
      <3>. QED  BY <3>6, <3>8, <2>2
    <2>. QED  BY <2>3, <2>4
  <1>4. Good(Len(w))
    <2> HIDE DEF Good
    <2>1. Len(w) \in 0 .. Len(w)
      BY <1>1
    <2>. QED  BY <2>1, <1>3
  <1>. QED  BY <1>4

(***************************************************************************)
(* rt_event_send has looked at every waiter when the scan ends.            *)
(***************************************************************************)
LEMMA SentFacts ==
  ASSUME IInv, eventOpen, NEW bits, NEW z, z = Sent(bits)
  PROVE  \E g : Scanned(k, pc, job, Shut, events \cup bits, Len(k.wait[EventList]), g, z)
  <1>1. PICK w : w = k.wait[EventList]
    OBVIOUS
  <1>2. PICK start : start = [k |-> k, events |-> events \cup bits, job |-> job]
    OBVIOUS
  <1>3. WaitsInv(k, pc, job, Shut) /\ EventList \notin Shut
    BY ShutFacts DEF IInv, Shut
  <1>4. Len(w) \in Nat
    <2>1. w \in Seq(Thread)
      BY <1>1, <1>3, WaitsFacts, OpFacts
    <2>. QED  BY <2>1, LenProperties
  <1> DEFINE loop == CHOOSE after : Scans(start, w, Len(w), after)
  <1>5. Scans(start, w, Len(w), loop)
    BY <1>4, ScansExist
  <1>6. z = loop[Len(w)]
    BY <1>1, <1>2 DEF Sent, Scans
  <1> HIDE DEF loop
  <1>. QED  BY <1>1, <1>2, <1>3, <1>5, <1>6, ScanSound


(***************************************************************************)
(* When the scan is over nobody is left in the list whose bits are set,    *)
(* and each thread that was woken has its own.                             *)
(***************************************************************************)
LEMMA SendKept ==
  ASSUME IInv, eventOpen, NEW bits \in SentBits, NEW z, z = Sent(bits),
         WaitsInv(k', pc', job', Shut'), UNCHANGED << flag, poolvars, done >>,
         eventOpen' \in BOOLEAN, job' = z.job, events' = z.events, SameWaits(z.k, k'),
         Coming(k', pc', job', "alloc") = Coming(z.k, pc, z.job, "alloc")
  PROVE  IInv' /\ ConsumedOnce
  <1>1. PICK w : w = k.wait[EventList]
    OBVIOUS
  <1>2. PICK g : Scanned(k, pc, job, Shut, events \cup bits, Len(w), g, z)
    BY <1>1, SentFacts
  <1>3. w \in Seq(Thread) /\ DOMAIN w = 1 .. Len(w) /\ Range(w) \subseteq Sleepers(k)
    <2>1. WaitsInv(k, pc, job, Shut)
      BY DEF IInv
    <2>2. w \in Seq(Thread) /\ Range(w) \subseteq Sleepers(k)
      BY <2>1, <1>1, WaitsFacts, OpFacts
    <2>. QED  BY <2>2, LenProperties
  <1>4. /\ Sleepers(k') = Sleepers(k) \ g /\ k'.wait = z.k.wait
        /\ Range(k'.wait[EventList]) = Range(w) \ g
        /\ \A q \in Lists \ {EventList} : k'.wait[q] = k.wait[q]
        /\ Coming(k', pc', job', "alloc") = Coming(k, pc, job, "alloc")
        /\ \A t \in Thread \ g : job'[t] = job[t]
        /\ events' \subseteq events \cup bits
        /\ g \subseteq {w[i] : i \in 1 .. Len(w)}
    BY <1>1, <1>2 DEF Scanned, SameWaits
  <1>5. Gifts(job, events \cup bits, g, z) /\ Apart(job, w, Len(w), g, z)
        /\ Passed(job, w, Len(w), g, z)
    BY <1>1, <1>2 DEF Scanned
  <1>6. EventType'
    <2>1. events \subseteq Bit /\ bits \subseteq Bit /\ flag \in Flags
      BY EventAssumption DEF IInv, EventType
    <2>. QED  BY <2>1, <1>4 DEF EventType
  <1>7. PoolQuiet(k, pc, job, k', pc', job') /\ DoneQuiet(k, k')
    BY <1>4, OpFacts DEF PoolQuiet, DoneQuiet
  <1>8. Unmet(k', job', events')
    <2> SUFFICES ASSUME NEW t \in Range(k'.wait[EventList])
                 PROVE  ~ Satisfied(job'[t].arg, events')
      BY DEF Unmet
    <2>1. t \in Range(w) /\ t \notin g /\ t \in Thread
      BY <1>3, <1>4 DEF Sleepers
    <2>2. PICK i \in 1 .. Len(w) : w[i] = t
      BY <2>1, <1>3 DEF Range
    <2>3. ~ Satisfied(job[t].arg, z.events)
      BY <2>1, <2>2, <1>5 DEF Passed
    <2>. QED  BY <2>1, <2>3, <1>4
  <1>9. IInv'
    BY <1>6, <1>7, <1>8, EventStepKept
  <1>10. \A t \in Thread : GetsBits(t) => t \in g
    BY <1>4 DEF GetsBits, Sleepers
  <1>11. ConsumedOnce
    <2> SUFFICES ASSUME NEW t \in Thread, GetsBits(t)
                 PROVE  LET asked == job[t].arg
                            got   == job'[t].arg.bits
                        IN  /\ got # {} /\ got \subseteq asked.bits
                            /\ asked.mode = "and" => got = asked.bits
                            /\ asked.clear =>
                                 /\ got \cap events' = {}
                                 /\ \A u \in Thread : GetsBits(u) /\ Ahead(t, u)
                                      => got \cap job'[u].arg.bits = {}
      BY DEF ConsumedOnce
    <2>1. PICK got : got = z.job[t].arg.bits
      OBVIOUS
    <2>2. /\ got # {} /\ got \subseteq job[t].arg.bits
          /\ job[t].arg.mode = "and" => got = job[t].arg.bits
          /\ job[t].arg.clear => got \cap z.events = {}
      BY <2>1, <1>5, <1>10 DEF Gifts
    <2>3. ASSUME job[t].arg.clear, NEW u \in Thread, GetsBits(u), Ahead(t, u)
          PROVE  got \cap z.job[u].arg.bits = {}
      <3>1. t \in g /\ u \in g
        BY <2>3, <1>10
      <3>2. PICK i \in DOMAIN w : \E j \in DOMAIN w : i < j /\ w[i] = t /\ w[j] = u
        BY <2>3, <1>1 DEF Ahead
      <3>3. PICK j \in DOMAIN w : i < j /\ w[i] = t /\ w[j] = u
        BY <3>2
      <3>4. i \in 1 .. Len(w) /\ j \in 1 .. Len(w)
        BY <1>3
      <3>. QED  BY <3>1, <3>3, <3>4, <2>1, <2>3, <1>5 DEF Apart
    <2>4. got = job'[t].arg.bits /\ z.job = job' /\ z.events = events'
      BY <2>1
    <2>. QED  BY <2>2, <2>3, <2>4
  <1>. QED  BY <1>9, <1>11

(***************************************************************************)
(* rt_event_send by a thread.                                              *)
(***************************************************************************)
LEMMA StepSend ==
  ASSUME IInv, NEW t \in Thread, NEW bits \in SentBits, Send(t, bits), UNCHANGED << poolvars, done >>
  PROVE  IInv' /\ ConsumedOnce
  <1>1. PICK z : z = Sent(bits)
    OBVIOUS
  <1>2. PICK p : p = IF z.k # k THEN "sched" ELSE "run"
    OBVIOUS
  <1>3. /\ WaitsInv(k, pc, job, Shut) /\ Shut' = Shut /\ k' = z.k /\ job' = z.job
        /\ events' = z.events /\ flag' = flag /\ eventOpen' = eventOpen
        /\ pc' = Moved(pc, t, p) /\ InCall(t, "evsend") /\ eventOpen
        /\ eventOpen' \in BOOLEAN
    BY <1>1, <1>2 DEF IInv, Send, InEvent, Goto, Moved, poolvars, Shut, EventType
  <1>4. t = k.cur /\ t # Idle /\ t \notin Sleepers(k) /\ pc[t] = "run" /\ job[t].op = "none"
    BY <1>3, CallerFacts
  <1>5. PICK g : Scanned(k, pc, job, Shut, events \cup bits, Len(k.wait[EventList]), g, z)
    BY <1>1, <1>3, SentFacts
  <1>6. WaitsInv(z.k, pc, z.job, Shut) /\ t \notin Sleepers(z.k) /\ z.job[t].op = "none"
    <2>1. WaitsInv(z.k, pc, z.job, Shut) /\ Sleepers(z.k) = Sleepers(k) \ g
      BY <1>5 DEF Scanned
    <2>. QED  BY <2>1, <1>4, WaitsFacts
  <1>7. /\ WaitsInv(z.k, Moved(pc, t, p), z.job, Shut)
        /\ \A op \in WaitOps : Coming(z.k, Moved(pc, t, p), z.job, op) = Coming(z.k, pc, z.job, op)
    BY <1>2, <1>4, <1>6, CallEnds
  <1>8. /\ WaitsInv(k', pc', job', Shut') /\ SameWaits(z.k, k')
        /\ Coming(k', pc', job', "alloc") = Coming(z.k, pc, z.job, "alloc")
    BY <1>3, <1>7 DEF SameWaits, WaitOps
  <1>. QED  BY <1>1, <1>3, <1>8, SendKept

(***************************************************************************)
(* rt_event_send in an interrupt handler.                                  *)
(***************************************************************************)
LEMMA StepIrqSend ==
  ASSUME IInv, NEW bits \in SentBits, IrqSend(bits), UNCHANGED << poolvars, done >>
  PROVE  IInv' /\ ConsumedOnce
  <1>1. PICK z : z = Sent(bits)
    OBVIOUS
  <1>2. /\ WaitsInv(k, pc, job, Shut) /\ Shut' = Shut /\ job' = z.job /\ pc' = pc
        /\ events' = z.events /\ flag' = flag /\ eventOpen' = eventOpen /\ eventOpen
        /\ k' = Schedule(z.k) \/ k' = z.k
        /\ eventOpen' \in BOOLEAN
    BY <1>1 DEF IInv, IrqSend, poolvars, Shut, EventType
  <1>3. PICK g : Scanned(k, pc, job, Shut, events \cup bits, Len(k.wait[EventList]), g, z)
    BY <1>1, <1>2, SentFacts
  <1>4. WaitsInv(z.k, pc, z.job, Shut)
    BY <1>3 DEF Scanned
  <1>5. /\ WaitsInv(k', pc, z.job, Shut) /\ SameWaits(z.k, k')
        /\ Coming(k', pc, z.job, "alloc") = Coming(z.k, pc, z.job, "alloc")
    <2>1. CASE k' = Schedule(z.k)
      <3>1. PICK s : s = z.k
        OBVIOUS
      <3>2. PICK j : j = z.job
        OBVIOUS
      <3>3. WaitsInv(s, pc, j, Shut) /\ k' = Schedule(s)
        BY <2>1, <3>1, <3>2, <1>4
      <3>4. /\ WaitsInv(k', pc, j, Shut) /\ SameWaits(s, k')
            /\ \A op : Coming(k', pc, j, op) = Coming(s, pc, j, op)
        BY ONLY <3>3, IrqScheduled
      <3>. QED  BY <3>1, <3>2, <3>4
    <2>2. CASE k' = z.k
      BY <2>2, <1>4 DEF SameWaits
    <2>. QED  BY <2>1, <2>2, <1>2
  <1>6. /\ WaitsInv(k', pc', job', Shut')
        /\ Coming(k', pc', job', "alloc") = Coming(z.k, pc, z.job, "alloc")
    BY <1>2, <1>5
  <1>. QED  BY <1>1, <1>2, <1>5, <1>6, SendKept

(***************************************************************************)
(* All the steps of a thread on the event.                                 *)
(***************************************************************************)
LEMMA StepEvent ==
  ASSUME IInv, NEW t \in Thread, EventStep(t), UNCHANGED << poolvars, done >>
  PROVE  IInv' /\ ConsumedOnce
  <1>1. CASE FlushStep(t, EventList, "evdetach") /\ UNCHANGED eventvars
    <2>1. FlushStep(t, EventList, DetachOf(EventList)) /\ UNCHANGED objects /\ EventList \in Swept
      BY <1>1, OpFacts DEF eventvars, poolvars, objects
    <2>. QED  BY <2>1, StepFlush
  <1>2. CASE RecvReturns(t) \/ ResetEvent(t) \/ DetachEvent(t) \/ InitEvent(t)
    BY <1>2, StepRecvReturns, StepResetEvent, StepDetachEvent, StepInitEvent
  <1>3. CASE \E bits \in SentBits : Send(t, bits)
    BY <1>3, StepSend
  <1>4. ASSUME NEW r \in Requests, RecvNow(t, r) \/ RecvFails(t, r)
        PROVE  IInv' /\ ConsumedOnce
    BY <1>4, StepRecvNow
  <1>5. ASSUME NEW r \in Requests, NEW timeout \in Timeouts, RecvWaits(t, r, timeout)
        PROVE  IInv' /\ ConsumedOnce
    BY <1>5, StepRecvWaits
  <1>. QED  BY <1>1, <1>2, <1>3, <1>4, <1>5 DEF EventStep

-----------------------------------------------------------------------------
(* The invariant *)

(***************************************************************************)
(* At the start nobody sleeps and all the lists are empty.                 *)
(***************************************************************************)
LEMMA InitInv == Init => IInv
  <1> SUFFICES ASSUME Init PROVE IInv
    OBVIOUS
  <1>1. /\ Sound(k, pc) /\ Sleepers(k) = {} /\ pc \in [Thread -> {"run"}]
        /\ k.wait = [q \in Queue |-> << >>] /\ k.armed = {}
    BY InitSound DEF Init
  <1>2. \A t \in Thread : pc[t] = "run"
    BY <1>1
  <1>3. pc \in [Thread -> IpcPC \cup {"done"}]
    BY <1>1 DEF IpcPC
  <1>4. job \in [Thread -> Jobs] /\ \A t \in Thread : job[t].op = "none"
    BY DEF Init, NoJobs, NoJob, Jobs, JobType
  <1>5. \A q \in Lists : k.wait[q] = << >> /\ Range(k.wait[q]) = {}
    <2>1. Range(<< >>) = {}
      BY DEF Range
    <2>. QED  BY <2>1, <1>1, OpFacts
  <1>6. Shut = {}
    <2>1. eventOpen = TRUE /\ poolOpen = TRUE
      BY DEF Init, EventInit, PoolInit
    <2>. QED  BY <2>1 DEF Shut, ShutLists
  <1>7. \A q \in Lists : ListedIn(k, job, q, OpOf(q))
    BY <1>1, <1>5 DEF ListedIn
  <1>8. ASSUME NEW q \in Swept PROVE SweepOK(k, pc, job, Shut, q)
    <2>1. Sweepers(job, q) = {}
      BY <1>4, OpsSplit DEF Sweepers
    <2>. QED  BY <2>1, <1>6 DEF SweepOK
  <1>9. WaitsInv(k, pc, job, Shut)
    BY <1>1, <1>2, <1>3, <1>4, <1>5, <1>7, <1>8, OpFacts, OpsSplit DEF WaitsInv
  <1>10. EventType /\ PoolType /\ done \in BOOLEAN
    <2>1. events = {} /\ flag \in Flags /\ eventOpen = TRUE
      BY DEF Init, EventInit
    <2>2. free = Blocks /\ poolOpen = TRUE /\ done = FALSE
      BY DEF Init, PoolInit, CompletionInit
    <2>3. Blocks \in 0 .. Blocks
      BY PoolAssumption
    <2>. QED  BY <2>1, <2>2, <2>3 DEF EventType, PoolType
  <1>11. Enough(k.wait[PoolList], Coming(k, pc, job, "alloc"), free)
    <2>1. Coming(k, pc, job, "alloc") = {}
      BY <1>4 DEF Coming, Comes
    <2>. QED  BY <2>1, <1>5, OpFacts, FS_EmptySet DEF Enough
  <1>. QED  BY <1>5, <1>9, <1>10, <1>11, OpFacts DEF IInv, Unmet

(***************************************************************************)
(* Every step keeps the invariant, and gives no bits twice.                *)
(***************************************************************************)
LEMMA NextInv == IInv /\ [Next]_vars => IInv' /\ [ConsumedOnce]_vars
  <1> SUFFICES ASSUME IInv, [Next]_vars PROVE IInv' /\ [ConsumedOnce]_vars
    OBVIOUS
  <1> DEFINE Kept == IInv' /\ ConsumedOnce
  <1>1. ASSUME UNCHANGED objects, WaitsInv(k', pc', job', Shut), Quiet(k, pc, job, k', pc', job')
        PROVE  Kept
    <2>1. /\ Shut' = Shut /\ free' = free /\ events' = events /\ done' = done
          /\ EventType' /\ PoolType' /\ done' \in BOOLEAN
      BY <1>1 DEF IInv, objects, Shut, EventType, PoolType
    <2>. QED  BY <2>1, <1>1, QuietKept
  <1>2. ASSUME NEW t \in Thread, ThreadStep(t) PROVE Kept
    <2>1. WaitsInv(k, pc, job, Shut)
      BY DEF IInv
    <2>2. CASE EventStep(t) /\ UNCHANGED << poolvars, done >>
      BY <2>2, StepEvent
    <2>3. CASE PoolStep(t) /\ UNCHANGED << eventvars, done >>
      BY <2>3, StepPool
    <2>4. CASE CompletionStep(t) /\ UNCHANGED << eventvars, poolvars >>
      BY <2>4, StepCompletion
    <2>5. CASE CallFails(t) /\ UNCHANGED objects
      BY <2>1, <2>5, <1>1, CallFailsQuiet
    <2>6. CASE (DoSchedule(t) \/ Sleep(t) \/ SleepReturns(t)) /\ UNCHANGED << job, objects >>
      <3>1. WaitsInv(k', pc', job', Shut) /\ Quiet(k, pc, job, k', pc', job')
        BY <2>1, <2>6, ScheduleQuiet, SleepQuiet, SleepReturnsQuiet
      <3>. QED  BY <3>1, <2>6, <1>1
    <2>. QED  BY <1>2, <2>2, <2>3, <2>4, <2>5, <2>6 DEF ThreadStep
  <1>3. ASSUME IrqStep PROVE Kept
    BY <1>3, StepIrqSend, StepIrqFree, StepIrqDone DEF IrqStep, EventIrq
  <1>4. ASSUME ClockStep PROVE Kept
    <2>1. UNCHANGED objects /\ WaitsInv(k, pc, job, Shut)
      BY <1>4 DEF ClockStep, IInv
    <2>. QED  BY <2>1, <1>1, <1>4, ClockQuiet
  <1>5. ASSUME UNCHANGED vars PROVE Kept
    <2>1. UNCHANGED objects /\ WaitsInv(k, pc, job, Shut) /\ k' = k /\ pc' = pc /\ job' = job
      BY <1>5 DEF vars, objects, IInv
    <2>. QED  BY <2>1, <1>1, StillQuiet
  <1> HIDE DEF Kept
  <1>6. Kept
    BY <1>2, <1>3, <1>4, <1>5 DEF Next
  <1>. QED  BY <1>6 DEF Kept

(***************************************************************************)
(* The invariant always holds.                                             *)
(***************************************************************************)
THEOREM SpecIInv == Spec => []IInv
  <1>1. Init => IInv
    BY InitInv
  <1>2. IInv /\ [Next]_vars => IInv'
    BY NextInv
  <1>. QED  BY <1>1, <1>2, PTL DEF Spec

-----------------------------------------------------------------------------
(* The properties *)

(***************************************************************************)
(* The state always has its type, whichever of the three objects each      *)
(* thread calls, and in whatever order.                                    *)
(***************************************************************************)
THEOREM TypeCorrect == Spec => []TypeOK
  <1>1. IInv => TypeOK
    <2> SUFFICES ASSUME IInv PROVE TypeOK
      OBVIOUS
    <2>1. k \in KernelType
      BY SoundFacts DEF IInv, WaitsInv
    <2>. QED  BY <2>1 DEF IInv, WaitsInv, TypeOK, Jobs, Ops
  <1>. QED  BY <1>1, SpecIInv, PTL

(***************************************************************************)
(* A thread always stands in the list of the object it waits for and in no *)
(* other, and its timer runs when its wait is limited.                     *)
(***************************************************************************)
THEOREM WaitersAlwaysListed == Spec => []WaitersListed
  <1>1. IInv => WaitersListed
    <2> SUFFICES ASSUME IInv PROVE WaitersListed
      OBVIOUS
    <2>1. /\ ListedIn(k, job, EventList, "evrecv") /\ ListedIn(k, job, PoolList, "alloc")
          /\ ListedIn(k, job, DoneList, "wait")
      BY OpFacts DEF IInv, WaitsInv
    <2>. QED  BY <2>1 DEF WaitersListed, ListedIn, Waiting, BlockedIn, Sleepers
  <1>. QED  BY <1>1, SpecIInv, PTL

(***************************************************************************)
(* No thread is ever left waiting for bits that are set.                   *)
(***************************************************************************)
THEOREM NeverMissedEvent == Spec => []NoMissedEvent
  <1>1. IInv => NoMissedEvent
    <2> SUFFICES ASSUME IInv, NEW t \in Waiting(EventList)
                 PROVE  LET r == job[t].arg
                        IN  IF r.mode = "and" THEN r.bits \ events # {}
                            ELSE r.bits \cap events = {}
      BY DEF NoMissedEvent
    <2>1. ~ Satisfied(job[t].arg, events)
      BY DEF IInv, Unmet, Waiting
    <2>. QED  BY <2>1 DEF Satisfied
  <1>. QED  BY <1>1, SpecIInv, PTL

(***************************************************************************)
(* While a thread waits for a block there are no more free blocks than     *)
(* threads that were woken for one and have not come back.                 *)
(***************************************************************************)
THEOREM NeverIdleBlock == Spec => []NoIdleBlock
  <1>1. IInv => NoIdleBlock
    <2> SUFFICES ASSUME IInv, Waiting(PoolList) # {}
                 PROVE  free <= Cardinality(Returning("alloc"))
      BY DEF NoIdleBlock
    <2>1. k.wait[PoolList] # << >>
      <3>1. Range(<< >>) = {}
        BY DEF Range
      <3>. QED  BY <3>1 DEF Waiting
    <2>2. Returning("alloc") = Coming(k, pc, job, "alloc")
      BY DEF Returning, Coming, Comes, Sleepers
    <2>. QED  BY <2>1, <2>2 DEF IInv, Enough
  <1>. QED  BY <1>1, SpecIInv, PTL

(***************************************************************************)
(* No thread ever sleeps on a completion that is done.                     *)
(***************************************************************************)
THEOREM NeverSleepOnDone == Spec => []NoSleepOnDone
  <1>1. IInv => NoSleepOnDone
    BY DEF IInv, NoSleepOnDone
  <1>. QED  BY <1>1, SpecIInv, PTL

(***************************************************************************)
(* Each thread that a send wakes gets what it asked for, and bits that one *)
(* of them clears are neither left nor given to one behind it.             *)
(***************************************************************************)
THEOREM BitsAlwaysConsumedOnce == Spec => BitsConsumedOnce
  <1>1. IInv /\ [Next]_vars => [ConsumedOnce]_vars
    BY NextInv
  <1>. QED  BY <1>1, SpecIInv, PTL DEF Spec, BitsConsumedOnce

=============================================================================
