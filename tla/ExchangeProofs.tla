--------------------------- MODULE ExchangeProofs ---------------------------
(***************************************************************************)
(* The mailbox and the message queue strand nothing while a receiver waits *)
(* and keep no room idle while a sender waits, never forget a waiter, and  *)
(* implement MailboxSpec; the message queue loses no slot and no copy is   *)
(* disturbed.  All of it for any threads, priorities and sizes.            *)
(***************************************************************************)
EXTENDS Mailbox, MessageQueue, IpcProofs

Ops == {"send", "urgent", "recv"}

(* The list that a detach empties *)
SweptIn(st) == IF st = "receivers" THEN Receivers ELSE Senders

(***************************************************************************)
(* At most one thread empties the lists, of an object that is closed; as   *)
(* no waiter can time out meanwhile, a list that was not empty has still a *)
(* thread in it; and a list that has been emptied stays empty.             *)
(***************************************************************************)
SweepOK(s, at, st) ==
  /\ \A u, v \in Sweeping(at) : u = v
  /\ Sweeping(at) # {} => /\ st \in {"receivers", "senders"}
                          /\ Range(s.wait[Receivers]) \cap s.armed = {}
                          /\ Range(s.wait[Senders]) \cap s.armed = {}
  /\ \A u \in Thread : at[u] = "flush" => s.wait[SweptIn(st)] # << >>
  /\ st = "senders" => s.wait[Receivers] = << >>
  /\ st = "gone" => s.wait[Receivers] = << >> /\ s.wait[Senders] = << >>

(* The points of a thread that keeps a call *)
Inside == {"block", "woken", "copy"}

(***************************************************************************)
(* The inductive invariant of module Exchange: the waiters are listed, a   *)
(* thread keeps a call only while it is suspended in it, on its way back   *)
(* into its loop or copying, and nobody goes on in a call on an object     *)
(* that is closed.                                                         *)
(***************************************************************************)
PointsOK(at, jb) ==
  /\ at \in [Thread -> IpcPC \cup {"copy"}]
  /\ \A t \in Thread : jb[t].op # "none" => at[t] \in Inside
  /\ \A t \in Thread : at[t] = "copy" => jb[t].op # "none"

ExchangeInv(s, at, jb, st) ==
  /\ Sound(s, at)
  /\ PointsOK(at, jb)
  /\ jb \in [Thread -> JobType(Ops, Mail)]
  /\ st \in {"open", "receivers", "senders", "gone"}
  /\ ListedIn(s, jb, Receivers, "recv")
  /\ ListedIn(s, jb, Senders, "send")
  /\ SweepOK(s, at, st)
  /\ st # "open" =>
       \A t \in Thread : jb[t].op # "none" =>
         at[t] # "copy" /\ (t \in Sleepers(s) \/ s.err[t] # "ok")

-----------------------------------------------------------------------------
(* Facts about the invariant *)

(***************************************************************************)
(* The constants: two lists, and room for one mail at least.               *)
(***************************************************************************)
LEMMA ListsFacts == Receivers \in Queue /\ Senders \in Queue /\ Receivers # Senders
  BY ExchangeAssumption

(***************************************************************************)
(* The pool has one slot at least.                                         *)
(***************************************************************************)
LEMMA SizeFacts == Size \in Nat \ {0}
  BY ExchangeAssumption

(***************************************************************************)
(* What the proofs start from.                                             *)
(***************************************************************************)
LEMMA ExchangeFacts ==
  ASSUME NEW s, NEW at, NEW jb, NEW st, ExchangeInv(s, at, jb, st)
  PROVE  /\ Receivers \in Queue /\ Senders \in Queue /\ Receivers # Senders
         /\ DOMAIN at = Thread /\ DOMAIN jb = Thread
         /\ s.err \in [Thread -> Err] /\ s.wait \in [Queue -> Seq(Thread)] /\ s.cur \in Thread
         /\ \A q \in Queue : Range(s.wait[q]) \subseteq Sleepers(s)
         /\ s.armed \subseteq Sleepers(s) /\ Sleepers(s) \subseteq Thread
         /\ \A t \in Thread : jb[t].op \in Ops \cup {"none"}
  <1>1. Receivers \in Queue /\ Senders \in Queue /\ Receivers # Senders
    BY ListsFacts
  <1>2. DOMAIN at = Thread /\ DOMAIN jb = Thread /\ \A t \in Thread : jb[t].op \in Ops \cup {"none"}
    BY DEF ExchangeInv, PointsOK, JobType
  <1>3. /\ s.err \in [Thread -> Err] /\ s.wait \in [Queue -> Seq(Thread)] /\ s.cur \in Thread
        /\ \A q \in Queue : Range(s.wait[q]) \subseteq Sleepers(s)
        /\ s.armed \subseteq Sleepers(s)
    BY SoundFacts DEF ExchangeInv
  <1>. QED  BY <1>1, <1>2, <1>3 DEF Sleepers

(***************************************************************************)
(* A thread at "run", "sched" or another point outside a call has none.    *)
(***************************************************************************)
LEMMA PointsFacts ==
  ASSUME NEW s, NEW at, NEW jb, NEW st, ExchangeInv(s, at, jb, st), NEW t \in Thread
  PROVE  /\ at[t] \in IpcPC \cup {"copy"}
         /\ at[t] \notin Inside => jb[t].op = "none"
         /\ at[t] = "copy" => jb[t].op # "none"
         /\ t \in Sleepers(s) => at[t] # "copy" /\ at[t] \in IpcPC
  BY DEF ExchangeInv, PointsOK, Sound, Control, IpcPC

(***************************************************************************)
(* A thread that moves, and keeps, begins or ends a call.                  *)
(***************************************************************************)
LEMMA PointsMoved ==
  ASSUME NEW at, NEW jb, PointsOK(at, jb), NEW t \in Thread, NEW p \in IpcPC \cup {"copy"},
         NEW j, \A x \in Thread \ {t} : j[x] = jb[x],
         j[t].op # "none" => p \in Inside, p = "copy" => j[t].op # "none"
  PROVE  PointsOK(Moved(at, t, p), j)
  <1>1. PICK to : to = Moved(at, t, p)
    OBVIOUS
  <1>2. DOMAIN at = Thread
    BY DEF PointsOK
  <1>3. \A x \in Thread : to[x] = IF x = t THEN p ELSE at[x]
    BY <1>1, <1>2 DEF Moved
  <1>4. to \in [Thread -> IpcPC \cup {"copy"}]
    BY <1>1 DEF PointsOK, Moved
  <1>. QED  BY <1>1, <1>3, <1>4 DEF PointsOK

(***************************************************************************)
(* While the object is open nobody empties its lists.                      *)
(***************************************************************************)
LEMMA SweepOpen ==
  ASSUME NEW s, NEW at
  PROVE  SweepOK(s, at, "open") <=> Sweeping(at) = {}
  BY DEF SweepOK, Sweeping

(***************************************************************************)
(* A step that leaves the lists and the threads that empty them alone.     *)
(***************************************************************************)
LEMMA SweepKept ==
  ASSUME NEW s, NEW at, NEW st, SweepOK(s, at, st), DOMAIN at = Thread,
         NEW n, n.wait[Receivers] = s.wait[Receivers], n.wait[Senders] = s.wait[Senders],
         Range(s.wait[Receivers]) \cap n.armed \subseteq s.armed,
         Range(s.wait[Senders]) \cap n.armed \subseteq s.armed,
         NEW t \in Thread, at[t] \notin {"test", "flush"}, NEW p, p \notin {"test", "flush"}
  PROVE  SweepOK(n, Moved(at, t, p), st) /\ SweepOK(n, at, st)
  <1>1. PICK to : to = Moved(at, t, p)
    OBVIOUS
  <1>2. Sweeping(to) = Sweeping(at) /\ \A u \in Thread : to[u] = IF u = t THEN p ELSE at[u]
    BY <1>1, SweepingMoved DEF Sweeping
  <1>3. n.wait[SweptIn(st)] = s.wait[SweptIn(st)]
    BY DEF SweptIn
  <1>. QED  BY <1>1, <1>2, <1>3 DEF SweepOK

(***************************************************************************)
(* A thread in a round of a call runs, and the object is open: whoever     *)
(* goes on in a call has been woken without an error.                      *)
(***************************************************************************)
LEMMA RoundFacts ==
  ASSUME ExchangeInv(k, pc, job, stage), NEW t \in Thread,
         NEW op \in Ops, NEW timeout, NEW m, Round(t, op, timeout, m)
  PROVE  /\ stage = "open" /\ t = k.cur /\ t # Idle /\ t \notin Sleepers(k)
         /\ pc[t] \in {"run", "woken"} /\ Sweeping(pc) = {}
         /\ pc[t] = "run" => job[t].op = "none"
         /\ pc[t] = "woken" => Comes(k, pc, job, op, t)
         /\ \A o \in Ops \ {op} : t \notin Coming(k, pc, job, o)
  <1>1. t = k.cur /\ pc[t] \in {"run", "woken"} /\ (pc[t] = "run" => t # Idle)
    BY DEF Round, InCall, GoesOn
  <1>2. t \notin Sleepers(k) /\ t # Idle
    BY <1>1, CurrentAwake DEF ExchangeInv, Round, InCall, GoesOn
  <1>3. stage = "open"
    <2>1. CASE InCall(t, op) /\ stage = "open" /\ timeout \in Timeouts
      BY <2>1
    <2>2. CASE GoesOn(t, op, timeout, m)
      <3>1. job[t].op # "none" /\ k.err[t] = "ok"
        BY <2>2 DEF GoesOn, Ops
      <3>. QED  BY <3>1, <1>2 DEF ExchangeInv
    <2>. QED  BY <2>1, <2>2 DEF Round
  <1>4. Sweeping(pc) = {}
    BY <1>3, SweepOpen DEF ExchangeInv
  <1>5. pc[t] = "run" => job[t].op = "none"
    BY PointsFacts DEF Inside
  <1>6. pc[t] = "woken" => Comes(k, pc, job, op, t)
    BY <1>2 DEF Round, InCall, GoesOn, Comes
  <1>7. \A o \in Ops \ {op} : t \notin Coming(k, pc, job, o)
    BY <1>1, <1>6 DEF Coming, Comes
  <1>. QED  BY <1>1, <1>2, <1>3, <1>4, <1>5, <1>6, <1>7 DEF Round, InCall, GoesOn

(***************************************************************************)
(* So does a thread that calls a function.                                 *)
(***************************************************************************)
LEMMA CallerFacts ==
  ASSUME ExchangeInv(k, pc, job, stage), NEW t \in Thread, NEW f, InCall(t, f)
  PROVE  /\ t = k.cur /\ t # Idle /\ t \notin Sleepers(k) /\ pc[t] = "run"
         /\ job[t].op = "none"
  <1>1. t = k.cur /\ t # Idle /\ pc[t] = "run"
    BY DEF InCall
  <1>2. job[t].op = "none"
    BY <1>1, PointsFacts DEF Inside
  <1>. QED  BY <1>1, <1>2, CurrentAwake DEF ExchangeInv

-----------------------------------------------------------------------------
(* What a step does to the waiters *)

(***************************************************************************)
(* A step that no waiter notices.                                          *)
(***************************************************************************)
LEMMA SameKeeps ==
  ASSUME NEW s, NEW at, NEW jb, NEW st, ExchangeInv(s, at, jb, st),
         NEW n, SameWaits(s, n), Sound(n, at)
  PROVE  /\ ExchangeInv(n, at, jb, st)
         /\ \A op : Coming(n, at, jb, op) = Coming(s, at, jb, op)
  <1>1. ListedIn(n, jb, Receivers, "recv") /\ ListedIn(n, jb, Senders, "send")
    BY ListedSame DEF ExchangeInv, SameWaits
  <1>2. SweepOK(n, at, st)
    BY DEF ExchangeInv, SameWaits, SweepOK
  <1>3. \A op : Coming(n, at, jb, op) = Coming(s, at, jb, op)
    BY DEF Coming, Comes, SameWaits
  <1>. QED  BY <1>1, <1>2, <1>3 DEF ExchangeInv, SameWaits

(***************************************************************************)
(* A thread that goes to another point and keeps or has no call.           *)
(***************************************************************************)
LEMMA MoveKeeps ==
  ASSUME NEW s, NEW at, NEW jb, NEW st, ExchangeInv(s, at, jb, st),
         NEW t \in Thread, at[t] \notin {"test", "flush"},
         NEW p \in IpcPC, p \notin {"test", "flush"},
         at[t] # "copy", p \in {"block", "woken"} <=> at[t] \in {"block", "woken"},
         Sound(s, Moved(at, t, p))
  PROVE  /\ ExchangeInv(s, Moved(at, t, p), jb, st)
         /\ \A op : Coming(s, Moved(at, t, p), jb, op) = Coming(s, at, jb, op)
  <1>1. PICK to : to = Moved(at, t, p)
    OBVIOUS
  <1>2. \A x \in Thread : to[x] = IF x = t THEN p ELSE at[x]
    BY <1>1, ExchangeFacts DEF Moved
  <1>3. PointsOK(to, jb)
    <2>1. PointsOK(at, jb) /\ p \in IpcPC \cup {"copy"} /\ p # "copy"
      BY DEF ExchangeInv, IpcPC
    <2>2. jb[t].op # "none" => p \in Inside
      BY PointsFacts DEF Inside
    <2>. QED  BY <2>1, <2>2, <1>1, PointsMoved
  <1>4. SweepOK(s, to, st)
    BY <1>1, ExchangeFacts, SweepKept DEF ExchangeInv
  <1>5. \A op : Coming(s, to, jb, op) = Coming(s, at, jb, op)
    BY <1>2 DEF Coming, Comes
  <1>6. st # "open" => \A x \in Thread : jb[x].op # "none" =>
                         to[x] # "copy" /\ (x \in Sleepers(s) \/ s.err[x] # "ok")
    BY <1>2 DEF ExchangeInv, IpcPC
  <1>. QED  BY <1>1, <1>3, <1>4, <1>5, <1>6 DEF ExchangeInv

(***************************************************************************)
(* A thread that is not suspended ends its call, if it is in one, with any *)
(* error number.                                                           *)
(***************************************************************************)
LEMMA ReturnKeeps ==
  ASSUME NEW s, NEW at, NEW jb, NEW st, ExchangeInv(s, at, jb, st),
         NEW t \in Thread, t # Idle, t \notin Sleepers(s), at[t] \notin {"test", "flush"},
         NEW n, Sound(n, at), Sleepers(n) = Sleepers(s), n.wait = s.wait, n.armed = s.armed,
         \A x \in Thread \ {t} : n.err[x] = s.err[x],
         NEW p \in {"run", "sched"},
         NEW j \in [Thread -> JobType(Ops, Mail)],
         \A x \in Thread \ {t} : j[x] = jb[x], j[t].op = "none"
  PROVE  /\ ExchangeInv(n, Moved(at, t, p), j, st)
         /\ \A op \in Ops : Coming(n, Moved(at, t, p), j, op) = Coming(s, at, jb, op) \ {t}
  <1>1. PICK to : to = Moved(at, t, p)
    OBVIOUS
  <1>2. \A x \in Thread : to[x] = IF x = t THEN p ELSE at[x]
    BY <1>1, ExchangeFacts DEF Moved
  <1>3. PointsOK(to, j)
    <2>1. PointsOK(at, jb) /\ p \in IpcPC \cup {"copy"} /\ p # "copy"
      BY DEF ExchangeInv, IpcPC
    <2>. QED  BY <2>1, <1>1, PointsMoved
  <1>4. j[t].op = "none" /\ \A x \in Thread : x # t => j[x] = jb[x]
    OBVIOUS
  <1>6. Sound(n, to)
    BY <1>1, ExchangeFacts, MoveSound
  <1>7. ListedIn(n, j, Receivers, "recv") /\ ListedIn(n, j, Senders, "send")
    <2>1. \A x \in Sleepers(s) : x \in Thread /\ x # t /\ j[x] = jb[x] /\ n.err[x] = s.err[x]
      BY <1>4, ExchangeFacts
    <2>2. ListedIn(s, jb, Receivers, "recv") /\ ListedIn(s, jb, Senders, "send")
      BY DEF ExchangeInv
    <2>3. \A x \in Sleepers(s) : j[x] = jb[x] /\ n.err[x] = s.err[x]
      BY <2>1
    <2>4. /\ n.wait[Receivers] = s.wait[Receivers] /\ n.wait[Senders] = s.wait[Senders]
          /\ n.armed \cap Sleepers(s) = s.armed \cap Sleepers(s)
      OBVIOUS
    <2>5. ListedIn(n, j, Receivers, "recv")
      BY <2>2, <2>3, <2>4, ListedSame
    <2>6. ListedIn(n, j, Senders, "send")
      BY <2>2, <2>3, <2>4, ListedSame
    <2>. QED  BY <2>5, <2>6
  <1>8. SweepOK(n, to, st)
    <2>1. p \notin {"test", "flush"}
      OBVIOUS
    <2>. QED  BY <2>1, <1>1, ExchangeFacts, SweepKept DEF ExchangeInv
  <1>10. st # "open" => \A x \in Thread : j[x].op # "none" =>
                          to[x] # "copy" /\ (x \in Sleepers(n) \/ n.err[x] # "ok")
    BY <1>2, <1>4 DEF ExchangeInv
  <1>11. ASSUME NEW op \in Ops
         PROVE  Coming(n, to, j, op) = Coming(s, at, jb, op) \ {t}
    <2>1. ~ Comes(n, to, j, op, t)
      BY <1>4 DEF Comes, Ops
    <2>2. \A x \in Thread \ {t} : Comes(n, to, j, op, x) <=> Comes(s, at, jb, op, x)
      BY <1>2, <1>4 DEF Comes
    <2>. QED  BY <2>1, <2>2 DEF Coming
  <1>. QED  BY <1>1, <1>3, <1>6, <1>7, <1>8, <1>10, <1>11 DEF ExchangeInv

(***************************************************************************)
(* The same when the thread has been in the call, which is over.           *)
(***************************************************************************)
LEMMA DoneKeeps ==
  ASSUME NEW s, NEW at, NEW st, ExchangeInv(s, at, job, st),
         NEW t \in Thread, t # Idle, t \notin Sleepers(s), at[t] \notin {"test", "flush"},
         NEW n, Sound(n, at), Sleepers(n) = Sleepers(s), n.wait = s.wait, n.armed = s.armed,
         \A x \in Thread \ {t} : n.err[x] = s.err[x],
         NEW p \in {"run", "sched"}, Done(t)
  PROVE  /\ ExchangeInv(n, Moved(at, t, p), job', st)
         /\ \A op \in Ops : Coming(n, Moved(at, t, p), job', op) = Coming(s, at, job, op) \ {t}
  <1>1. /\ job' \in [Thread -> JobType(Ops, Mail)]
        /\ \A x \in Thread \ {t} : job'[x] = job[x]
        /\ job'[t].op = "none"
    BY DEF Done, ExchangeInv, JobType, NoJob
  <1>2. PICK j : j = job'
    OBVIOUS
  <1>3. /\ j \in [Thread -> JobType(Ops, Mail)] /\ j[t].op = "none"
        /\ \A x \in Thread \ {t} : j[x] = job[x]
    BY <1>1, <1>2
  <1>4. /\ ExchangeInv(n, Moved(at, t, p), j, st)
        /\ \A op \in Ops : Coming(n, Moved(at, t, p), j, op) = Coming(s, at, job, op) \ {t}
    BY <1>3, ReturnKeeps
  <1>. QED  BY <1>2, <1>4

(* The call that waits in list q, and the list on the other side *)
OpOf(q) == IF q = Receivers THEN "recv" ELSE "send"
Other(q) == IF q = Receivers THEN Senders ELSE Receivers

(***************************************************************************)
(* The first thread of a list is woken without an error: it comes back.    *)
(***************************************************************************)
LEMMA WakeKeeps ==
  ASSUME NEW s, NEW at, NEW jb, ExchangeInv(s, at, jb, "open"),
         NEW q \in {Receivers, Senders}, s.wait[q] # << >>,
         NEW n, n = ResumeFirst(s, q), NEW x, x = Head(s.wait[q])
  PROVE  /\ ExchangeInv(n, at, jb, "open")
         /\ x \in Sleepers(s) /\ Sleepers(n) = Sleepers(s) \ {x} /\ n.cur = s.cur
         /\ x \notin Coming(s, at, jb, OpOf(q))
         /\ Coming(n, at, jb, OpOf(q)) = Coming(s, at, jb, OpOf(q)) \cup {x}
         /\ Coming(n, at, jb, OpOf(Other(q))) = Coming(s, at, jb, OpOf(Other(q)))
         /\ n.wait[Other(q)] = s.wait[Other(q)]
  <1>1. /\ Receivers \in Queue /\ Senders \in Queue /\ Receivers # Senders /\ q \in Queue
        /\ s.wait \in [Queue -> Seq(Thread)] /\ Sleepers(s) \subseteq Thread
        /\ s.err \in [Thread -> Err]
        /\ Range(s.wait[q]) \subseteq Sleepers(s)
    BY ExchangeFacts
  <1>2. x \in Range(s.wait[q])
    BY <1>1, HeadFacts
  <1>3. x \in Sleepers(s) /\ x \in Thread /\ jb[x].op = OpOf(q) /\ s.err[x] = "ok"
    BY <1>1, <1>2 DEF ExchangeInv, ListedIn, OpOf
  <1>4. Sound(n, at) /\ Awake(s, x, n) /\ n.err = s.err /\ n.cur = s.cur
    BY <1>3, ResumeSound DEF ResumeFirst, ExchangeInv
  <1>5. /\ ListedIn(n, jb, Receivers, "recv") /\ ListedIn(n, jb, Senders, "send")
        /\ \A r \in {Receivers, Senders} : x \notin Range(s.wait[r]) => n.wait[r] = s.wait[r]
    BY <1>1, <1>3, <1>4, ListedAwake DEF ExchangeInv
  <1>6. SweepOK(n, at, "open")
    BY SweepOpen DEF ExchangeInv
  <1>7. Sleepers(n) = Sleepers(s) \ {x}
    BY <1>4 DEF Awake
  <1>8. at[x] \in {"block", "woken"}
    BY <1>3, PointsFacts DEF OpOf, Inside
  <1>9. Comes(n, at, jb, OpOf(q), x) /\ ~ Comes(s, at, jb, OpOf(q), x)
    BY <1>3, <1>4, <1>7, <1>8 DEF Comes
  <1>10. \A y \in Thread \ {x} : \A op : Comes(n, at, jb, op, y) <=> Comes(s, at, jb, op, y)
    BY <1>4, <1>7 DEF Comes
  <1>11. Coming(n, at, jb, OpOf(q)) = Coming(s, at, jb, OpOf(q)) \cup {x}
    BY <1>3, <1>9, <1>10 DEF Coming
  <1>12. /\ Coming(n, at, jb, OpOf(Other(q))) = Coming(s, at, jb, OpOf(Other(q)))
         /\ n.wait[Other(q)] = s.wait[Other(q)]
    <2>1. OpOf(Other(q)) # OpOf(q) /\ Other(q) \in {Receivers, Senders}
      BY <1>1 DEF OpOf, Other
    <2>2. ~ Comes(n, at, jb, OpOf(Other(q)), x) /\ ~ Comes(s, at, jb, OpOf(Other(q)), x)
      BY <2>1, <1>3 DEF Comes
    <2>3. \A y \in Thread :
            Comes(n, at, jb, OpOf(Other(q)), y) <=> Comes(s, at, jb, OpOf(Other(q)), y)
      BY <2>2, <1>10
    <2>4. Coming(n, at, jb, OpOf(Other(q))) = Coming(s, at, jb, OpOf(Other(q)))
      BY <2>3 DEF Coming
    <2>5. x \notin Range(s.wait[Other(q)])
      BY <1>1, <1>3 DEF ExchangeInv, ListedIn, OpOf, Other
    <2>. QED  BY <2>1, <2>4, <2>5, <1>5
  <1>13. x \notin Coming(s, at, jb, OpOf(q))
    BY <1>9 DEF Coming
  <1>14. ExchangeInv(n, at, jb, "open")
    BY <1>4, <1>5, <1>6 DEF ExchangeInv
  <1>. QED  BY <1>3, <1>4, <1>7, <1>11, <1>12, <1>13, <1>14

(***************************************************************************)
(* A thread blocks in a call and no longer comes back to it.               *)
(***************************************************************************)
LEMMA BlockKeeps ==
  ASSUME NEW s, NEW at, NEW jb, ExchangeInv(s, at, jb, "open"),
         NEW t, t = s.cur, t # Idle, t \notin Sleepers(s), at[t] \notin {"test", "flush"},
         NEW q \in {Receivers, Senders}, NEW order, NEW timeout,
         NEW n, n = WaitOn(s, q, t, order, timeout),
         NEW j \in [Thread -> JobType(Ops, Mail)],
         \A x \in Thread \ {t} : j[x] = jb[x], j[t].op = OpOf(q), j[t].wait = timeout
  PROVE  /\ ExchangeInv(n, Moved(at, t, "block"), j, "open")
         /\ \A op \in Ops : Coming(n, Moved(at, t, "block"), j, op) = Coming(s, at, jb, op) \ {t}
         /\ \A r \in {Receivers, Senders} : r # q => n.wait[r] = s.wait[r]
  <1>1. /\ Receivers \in Queue /\ Senders \in Queue /\ Receivers # Senders /\ q \in Queue
        /\ s.err \in [Thread -> Err] /\ DOMAIN at = Thread /\ t \in Thread
    BY ExchangeFacts
  <1>2. PICK to : to = Moved(at, t, "block")
    OBVIOUS
  <1>3. \A x \in Thread : to[x] = IF x = t THEN "block" ELSE at[x]
    BY <1>1, <1>2 DEF Moved
  <1>4. PointsOK(to, j)
    <2>1. /\ PointsOK(at, jb) /\ "block" \in IpcPC \cup {"copy"} /\ "block" # "copy"
          /\ "block" \in Inside
      BY DEF ExchangeInv, IpcPC, Inside
    <2>. QED  BY <2>1, <1>1, <1>2, PointsMoved
  <1>5. Sound(n, to) /\ BlocksOn(s, q, t, order, timeout, n)
    BY <1>1, <1>2, WaitOnSound DEF ExchangeInv
  <1>6. ListedIn(s, jb, Receivers, "recv") /\ ListedIn(s, jb, Senders, "send") /\ Sound(s, at)
    BY DEF ExchangeInv
  <1>7. ListedIn(n, j, Receivers, "recv") /\ (Receivers # q => n.wait[Receivers] = s.wait[Receivers])
    <2>1. Receivers = q <=> j[t].op = "recv"
      BY <1>1 DEF OpOf
    <2>2. j[t].wait = timeout /\ \A x \in Thread \ {t} : j[x] = jb[x]
      OBVIOUS
    <2>. QED  BY <2>1, <2>2, <1>1, <1>5, <1>6, ListedBlocks
  <1>8. ListedIn(n, j, Senders, "send") /\ (Senders # q => n.wait[Senders] = s.wait[Senders])
    <2>1. Senders = q <=> j[t].op = "send"
      BY <1>1 DEF OpOf
    <2>2. j[t].wait = timeout /\ \A x \in Thread \ {t} : j[x] = jb[x]
      OBVIOUS
    <2>. QED  BY <2>1, <2>2, <1>1, <1>5, <1>6, ListedBlocks
  <1>9. SweepOK(n, to, "open")
    <2>1. Sweeping(at) = {}
      BY SweepOpen DEF ExchangeInv
    <2>2. Sweeping(to) = {}
      BY <2>1, <1>1, <1>2, SweepingMoved
    <2>. QED  BY <2>2, SweepOpen
  <1>11. Sleepers(n) = Sleepers(s) \cup {t} /\ n.err = [s.err EXCEPT ![t] = "ok"]
    BY <1>5 DEF BlocksOn, FallsAsleep
  <1>12. ASSUME NEW op \in Ops
         PROVE  Coming(n, to, j, op) = Coming(s, at, jb, op) \ {t}
    <2>1. ~ Comes(n, to, j, op, t)
      BY <1>11 DEF Comes
    <2>2. \A x \in Thread \ {t} : Comes(n, to, j, op, x) <=> Comes(s, at, jb, op, x)
      BY <1>1, <1>3, <1>11 DEF Comes
    <2>. QED  BY <2>1, <2>2 DEF Coming
  <1>. QED  BY <1>2, <1>4, <1>5, <1>7, <1>8, <1>9, <1>12 DEF ExchangeInv

(* n differs from s in that list q has been emptied; nobody comes back for that. *)
NobodyLeft(s, at, jb, q, n) ==
  /\ ExchangeInv(n, at, jb, "open")
  /\ n.wait = [s.wait EXCEPT ![q] = << >>] /\ n.cur = s.cur
  /\ Sleepers(n) \subseteq Sleepers(s)
  /\ \A op \in Ops : Coming(n, at, jb, op) = Coming(s, at, jb, op)

(***************************************************************************)
(* Whoever waits in one of the lists is woken with an error.               *)
(***************************************************************************)
LEMMA FailKeeps ==
  ASSUME NEW s, NEW at, NEW jb, ExchangeInv(s, at, jb, "open"),
         NEW q \in {Receivers, Senders}
  PROVE  NobodyLeft(s, at, jb, q, ResumeAll(s, q))
  <1> DEFINE n == ResumeAll(s, q)
  <1>1. /\ Receivers \in Queue /\ Senders \in Queue /\ q \in Queue
        /\ Sound(s, at) /\ s.err \in [Thread -> Err]
        /\ Range(s.wait[q]) \subseteq Sleepers(s)
    BY ExchangeFacts DEF ExchangeInv
  <1>2. Sound(n, at) /\ AllFailed(s, q, n)
    BY <1>1, ResumeAllSound
  <1>. HIDE DEF n
  <1>3. ListedIn(n, jb, Receivers, "recv") /\ ListedIn(n, jb, Senders, "send")
    BY <1>1, <1>2, ListedFailed DEF ExchangeInv
  <1>4. SweepOK(n, at, "open")
    BY SweepOpen DEF ExchangeInv
  <1>5. \A op : \A x \in Thread : Comes(n, at, jb, op, x) <=> Comes(s, at, jb, op, x)
    BY <1>1, <1>2 DEF AllFailed, Comes
  <1>6. \A op \in Ops : Coming(n, at, jb, op) = Coming(s, at, jb, op)
    BY <1>5 DEF Coming
  <1>7. /\ n.wait = [s.wait EXCEPT ![q] = << >>] /\ n.cur = s.cur
        /\ Sleepers(n) \subseteq Sleepers(s)
    BY <1>2 DEF AllFailed
  <1>8. ExchangeInv(n, at, jb, "open")
    BY <1>2, <1>3, <1>4, <1>7 DEF ExchangeInv
  <1>9. NobodyLeft(s, at, jb, q, n)
    BY <1>6, <1>7, <1>8 DEF NobodyLeft
  <1>. QED  BY <1>9 DEF n

(***************************************************************************)
(* A thread that is woken with a timeout or an error leaves its list; the  *)
(* lists that are being emptied keep a thread unless it is that one.       *)
(***************************************************************************)
LEMMA ErrorKeeps ==
  ASSUME NEW s, NEW at, NEW jb, NEW st, ExchangeInv(s, at, jb, st),
         NEW x \in Sleepers(s), NEW e \in Err \ {"ok"},
         NEW n, Sound(n, at), Awake(s, x, n), n.err = [s.err EXCEPT ![x] = e],
         \/ x \in s.armed
         \/ \A u \in Thread : at[u] # "flush"
  PROVE  /\ ExchangeInv(n, at, jb, st)
         /\ \A op \in Ops : Coming(n, at, jb, op) = Coming(s, at, jb, op)
         /\ \A q \in {Receivers, Senders} : n.wait[q] # << >> => s.wait[q] # << >>
  <1>1. /\ Receivers \in Queue /\ Senders \in Queue
        /\ Sound(s, at) /\ s.err \in [Thread -> Err] /\ x \in Thread
    BY ExchangeFacts DEF ExchangeInv
  <1>2. \A y \in Thread : n.err[y] = IF y = x THEN e ELSE s.err[y]
    BY <1>1
  <1>3. /\ ListedIn(n, jb, Receivers, "recv") /\ ListedIn(n, jb, Senders, "send")
        /\ \A q \in {Receivers, Senders} : /\ Range(n.wait[q]) = Range(s.wait[q]) \ {x}
                                           /\ x \notin Range(s.wait[q]) => n.wait[q] = s.wait[q]
    <2>1. \A y \in Thread \ {x} : n.err[y] = s.err[y]
      BY <1>2
    <2>2. /\ ListedIn(n, jb, Receivers, "recv")
          /\ Range(n.wait[Receivers]) = Range(s.wait[Receivers]) \ {x}
          /\ x \notin Range(s.wait[Receivers]) => n.wait[Receivers] = s.wait[Receivers]
      <3>1. ListedIn(s, jb, Receivers, "recv")
        BY DEF ExchangeInv
      <3>. QED  BY <3>1, <2>1, <1>1, ListedAwake
    <2>3. /\ ListedIn(n, jb, Senders, "send")
          /\ Range(n.wait[Senders]) = Range(s.wait[Senders]) \ {x}
          /\ x \notin Range(s.wait[Senders]) => n.wait[Senders] = s.wait[Senders]
      <3>1. ListedIn(s, jb, Senders, "send")
        BY DEF ExchangeInv
      <3>. QED  BY <3>1, <2>1, <1>1, ListedAwake
    <2>. QED  BY <2>2, <2>3
  <1>4. Sleepers(n) = Sleepers(s) \ {x} /\ n.armed = s.armed \ {x}
    BY DEF Awake
  <1>5. \A q \in {Receivers, Senders} : s.wait[q] = << >> => n.wait[q] = << >>
    <2>1. Range(<< >>) = {}
      BY DEF Range
    <2>. QED  BY <2>1, <1>3
  <1>6. SweepOK(n, at, st)
    <2>1. ASSUME NEW u \in Thread, at[u] = "flush"
          PROVE  n.wait[SweptIn(st)] # << >>
      <3>1. x \in s.armed /\ Sweeping(at) # {}
        BY <2>1 DEF Sweeping
      <3>2. x \notin Range(s.wait[Receivers]) /\ x \notin Range(s.wait[Senders])
        BY <3>1 DEF ExchangeInv, SweepOK
      <3>3. n.wait[SweptIn(st)] = s.wait[SweptIn(st)]
        BY <3>2, <1>3 DEF SweptIn
      <3>. QED  BY <3>3, <2>1 DEF ExchangeInv, SweepOK
    <2>2. Range(s.wait[Receivers]) \cap s.armed = {} => Range(n.wait[Receivers]) \cap n.armed = {}
      BY <1>3, <1>4
    <2>3. Range(s.wait[Senders]) \cap s.armed = {} => Range(n.wait[Senders]) \cap n.armed = {}
      BY <1>3, <1>4
    <2>. QED  BY <2>1, <2>2, <2>3, <1>5 DEF ExchangeInv, SweepOK
  <1>7. \A op : \A y \in Thread : Comes(n, at, jb, op, y) <=> Comes(s, at, jb, op, y)
    BY <1>1, <1>2, <1>4 DEF Comes
  <1>8. \A op \in Ops : Coming(n, at, jb, op) = Coming(s, at, jb, op)
    BY <1>7 DEF Coming
  <1>9. st # "open" => \A y \in Thread : jb[y].op # "none" =>
                         at[y] # "copy" /\ (y \in Sleepers(n) \/ n.err[y] # "ok")
    BY <1>2, <1>4 DEF ExchangeInv
  <1>. QED  BY <1>3, <1>5, <1>6, <1>8, <1>9 DEF ExchangeInv

(***************************************************************************)
(* A thread without a call goes to sleep for a time.                       *)
(***************************************************************************)
LEMMA NapKeeps ==
  ASSUME NEW s, NEW at, NEW jb, NEW st, ExchangeInv(s, at, jb, st),
         NEW t \in Thread, at[t] = "run", t \notin Sleepers(s),
         NEW n, Sound(n, Moved(at, t, "nap")), FallsAsleep(s, t, n),
         n.wait = s.wait, n.armed = s.armed \cup {t}
  PROVE  /\ ExchangeInv(n, Moved(at, t, "nap"), jb, st)
         /\ \A op \in Ops : Coming(n, Moved(at, t, "nap"), jb, op) = Coming(s, at, jb, op)
  <1>1. /\ Receivers \in Queue /\ Senders \in Queue /\ DOMAIN at = Thread
        /\ Sound(s, at) /\ s.err \in [Thread -> Err]
        /\ Range(s.wait[Receivers]) \subseteq Sleepers(s)
        /\ Range(s.wait[Senders]) \subseteq Sleepers(s)
    BY ExchangeFacts DEF ExchangeInv
  <1>2. PICK to : to = Moved(at, t, "nap")
    OBVIOUS
  <1>3. \A x \in Thread : to[x] = IF x = t THEN "nap" ELSE at[x]
    BY <1>1, <1>2 DEF Moved
  <1>5. jb[t].op = "none"
    BY PointsFacts DEF Inside
  <1>4. PointsOK(to, jb)
    <2>1. PointsOK(at, jb) /\ "nap" \in IpcPC \cup {"copy"} /\ "nap" # "copy"
      BY DEF ExchangeInv, IpcPC
    <2>. QED  BY <2>1, <1>2, <1>5, PointsMoved
  <1>6. ListedIn(n, jb, Receivers, "recv") /\ ListedIn(n, jb, Senders, "send")
    BY <1>1, <1>5, ListedAsleep DEF ExchangeInv
  <1>7. SweepOK(n, to, st)
    <2>1. /\ Range(s.wait[Receivers]) \cap n.armed \subseteq s.armed
          /\ Range(s.wait[Senders]) \cap n.armed \subseteq s.armed
      BY <1>1
    <2>2. /\ n.wait[Receivers] = s.wait[Receivers] /\ n.wait[Senders] = s.wait[Senders]
          /\ at[t] \notin {"test", "flush"} /\ "nap" \notin {"test", "flush"}
      OBVIOUS
    <2>. QED  BY <2>1, <2>2, <1>1, <1>2, SweepKept DEF ExchangeInv
  <1>8. Sleepers(n) = Sleepers(s) \cup {t} /\ n.err = [s.err EXCEPT ![t] = "ok"]
    BY DEF FallsAsleep
  <1>9. \A op \in Ops : \A y \in Thread : Comes(n, to, jb, op, y) <=> Comes(s, at, jb, op, y)
    BY <1>1, <1>3, <1>5, <1>8 DEF Comes, Ops
  <1>10. \A op \in Ops : Coming(n, to, jb, op) = Coming(s, at, jb, op)
    BY <1>9 DEF Coming
  <1>12. st # "open" => \A y \in Thread : jb[y].op # "none" =>
                          to[y] # "copy" /\ (y \in Sleepers(n) \/ n.err[y] # "ok")
    BY <1>1, <1>3, <1>5, <1>8 DEF ExchangeInv
  <1>. QED  BY <1>2, <1>4, <1>6, <1>7, <1>10, <1>12 DEF ExchangeInv

-----------------------------------------------------------------------------
(* The steps that the users of the object do not notice *)

(* Nobody more or less comes back, and no thread begins to wait. *)
Quiet(s, at, jb, n, to, j) ==
  /\ \A op \in Ops : Coming(n, to, j, op) = Coming(s, at, jb, op)
  /\ \A q \in {Receivers, Senders} : n.wait[q] # << >> => s.wait[q] # << >>

(***************************************************************************)
(* A thread that empties the lists only moves.                             *)
(***************************************************************************)
LEMMA SweeperMoves ==
  ASSUME NEW s, NEW at, NEW jb, NEW st, ExchangeInv(s, at, jb, st),
         NEW t \in Thread, t # Idle, t \notin Sleepers(s), jb[t].op = "none",
         NEW p \in IpcPC \ {"block", "woken"}, NEW fin \in {"open", "receivers", "senders", "gone"},
         SweepOK(s, Moved(at, t, p), fin), fin = "open" \/ st # "open"
  PROVE  ExchangeInv(s, Moved(at, t, p), jb, fin) /\ Quiet(s, at, jb, s, Moved(at, t, p), jb)
  <1>1. PICK to : to = Moved(at, t, p)
    OBVIOUS
  <1>2. \A x \in Thread : to[x] = IF x = t THEN p ELSE at[x]
    BY <1>1, ExchangeFacts DEF Moved
  <1>3. PointsOK(to, jb)
    <2>1. PointsOK(at, jb) /\ p \in IpcPC \cup {"copy"} /\ p # "copy"
      BY DEF ExchangeInv, IpcPC
    <2>. QED  BY <2>1, <1>1, PointsMoved
  <1>4. Sound(s, to)
    BY <1>1, ExchangeFacts, MoveSound DEF ExchangeInv
  <1>5. fin # "open" => \A x \in Thread : jb[x].op # "none" =>
                          to[x] # "copy" /\ (x \in Sleepers(s) \/ s.err[x] # "ok")
    BY <1>2 DEF ExchangeInv
  <1>6. \A op \in Ops : \A x \in Thread : Comes(s, to, jb, op, x) <=> Comes(s, at, jb, op, x)
    BY <1>2 DEF Comes, Ops
  <1>7. Quiet(s, at, jb, s, to, jb)
    BY <1>6 DEF Quiet, Coming
  <1>. QED  BY <1>1, <1>3, <1>4, <1>5, <1>7 DEF ExchangeInv

(***************************************************************************)
(* A call fails after its thread was woken with an error.                  *)
(***************************************************************************)
LEMMA CallFailsQuiet ==
  ASSUME ExchangeInv(k, pc, job, stage), NEW t \in Thread, CallFails(t), UNCHANGED stage
  PROVE  ExchangeInv(k', pc', job', stage') /\ Quiet(k, pc, job, k', pc', job')
  <1>1. /\ t = k.cur /\ pc[t] = "woken" /\ k.err[t] # "ok" /\ k' = k
        /\ pc' = Moved(pc, t, "run") /\ Done(t) /\ stage' = stage
    BY DEF CallFails, Goto, Moved
  <1>2. t \notin Sleepers(k) /\ t # Idle
    BY <1>1, CurrentAwake DEF ExchangeInv
  <1>3. /\ ExchangeInv(k, Moved(pc, t, "run"), job', stage)
        /\ \A op \in Ops : Coming(k, Moved(pc, t, "run"), job', op) = Coming(k, pc, job, op) \ {t}
    <2>1. Sound(k, pc) /\ "run" \in {"run", "sched"} /\ pc[t] \notin {"test", "flush"}
      BY <1>1 DEF ExchangeInv
    <2>2. Done(t)
      BY <1>1
    <2>. QED  BY <2>1, <2>2, <1>2, DoneKeeps
  <1>4. \A op \in Ops : t \notin Coming(k, pc, job, op)
    BY <1>1 DEF Coming, Comes
  <1>5. \A op \in Ops : Coming(k, Moved(pc, t, "run"), job', op) = Coming(k, pc, job, op)
    BY <1>3, <1>4
  <1>6. Quiet(k, pc, job, k, Moved(pc, t, "run"), job')
    BY <1>5 DEF Quiet
  <1>. QED  BY <1>1, <1>3, <1>6

(***************************************************************************)
(* The list of the receivers is empty: that of the senders comes next.     *)
(***************************************************************************)
LEMMA SweepNextQuiet ==
  ASSUME ExchangeInv(k, pc, job, stage), NEW t \in Thread, SweepNext(t)
  PROVE  ExchangeInv(k', pc', job', stage') /\ Quiet(k, pc, job, k', pc', job')
  <1>1. /\ pc[t] = "test" /\ stage = "receivers" /\ k.wait[Receivers] = << >>
        /\ stage' = "senders" /\ k' = k /\ pc' = pc /\ job' = job
    BY DEF SweepNext
  <1>2. t \in Sweeping(pc) /\ \A u \in Thread : pc[u] # "flush"
    BY <1>1 DEF ExchangeInv, SweepOK, Sweeping
  <1>3. SweepOK(k, pc, "senders")
    BY <1>1, <1>2 DEF ExchangeInv, SweepOK
  <1>. QED  BY <1>1, <1>3 DEF ExchangeInv, Quiet

(***************************************************************************)
(* The test of the loop that empties a list.                               *)
(***************************************************************************)
LEMMA SweepQuiet ==
  ASSUME ExchangeInv(k, pc, job, stage), NEW t \in Thread, Sweep(t)
  PROVE  ExchangeInv(k', pc', job', stage') /\ Quiet(k, pc, job, k', pc', job')
  <1>1. /\ t = k.cur /\ pc[t] = "test" /\ k' = k /\ job' = job
        /\ pc' = Moved(pc, t, IF k.wait[SweptIn(stage)] = << >> THEN "run" ELSE "flush")
        /\ stage' = (IF k.wait[SweptIn(stage)] = << >> THEN "gone" ELSE stage)
        /\ stage = "receivers" => k.wait[Receivers] # << >>
    BY DEF Sweep, TestList, Goto, Moved, Swept, SweptIn
  <1>2. t \notin Sleepers(k) /\ t # Idle /\ job[t].op = "none" /\ DOMAIN pc = Thread
    <2>1. Sound(k, pc) /\ DOMAIN pc = Thread /\ job[t].op = "none"
      BY <1>1, ExchangeFacts, PointsFacts DEF ExchangeInv, Inside
    <2>. QED  BY <2>1, <1>1, CurrentAwake
  <1>3. /\ t \in Sweeping(pc) /\ \A u \in Sweeping(pc) : u = t
        /\ stage \in {"receivers", "senders"}
        /\ Range(k.wait[Receivers]) \cap k.armed = {}
        /\ Range(k.wait[Senders]) \cap k.armed = {}
        /\ stage = "senders" => k.wait[Receivers] = << >>
    BY <1>1 DEF ExchangeInv, SweepOK, Sweeping
  <1>4. CASE k.wait[SweptIn(stage)] = << >>
    <2>1. pc' = Moved(pc, t, "run") /\ stage' = "gone" /\ "run" \in IpcPC \ {"block", "woken"}
      BY <1>1, <1>4 DEF IpcPC
    <2>2. k.wait[Receivers] = << >> /\ k.wait[Senders] = << >>
      BY <1>1, <1>3, <1>4 DEF SweptIn
    <2>3. Sweeping(Moved(pc, t, "run")) = {}
      BY <1>2, <1>3, SweepingMoved
    <2>4. \A u \in Thread : Moved(pc, t, "run")[u] # "flush"
      BY <2>3 DEF Sweeping
    <2>5. SweepOK(k, Moved(pc, t, "run"), "gone")
      BY <2>2, <2>3, <2>4 DEF SweepOK
    <2>6. "gone" \in {"open", "receivers", "senders", "gone"} /\ stage # "open"
      BY <1>3
    <2>. QED  BY <2>1, <2>5, <2>6, <1>1, <1>2, SweeperMoves
  <1>5. CASE k.wait[SweptIn(stage)] # << >>
    <2>1. pc' = Moved(pc, t, "flush") /\ stage' = stage /\ "flush" \in IpcPC \ {"block", "woken"}
      BY <1>1, <1>5 DEF IpcPC
    <2>2. Sweeping(Moved(pc, t, "flush")) = {t}
      BY <1>2, <1>3, SweepingMoved
    <2>3. SweepOK(k, Moved(pc, t, "flush"), stage)
      BY <2>2, <1>3, <1>5 DEF SweepOK
    <2>4. stage \in {"open", "receivers", "senders", "gone"} /\ stage # "open"
      BY <1>3
    <2>. QED  BY <2>1, <2>3, <2>4, <1>1, <1>2, SweeperMoves
  <1>. QED  BY <1>4, <1>5

(***************************************************************************)
(* A round of that loop.                                                   *)
(***************************************************************************)
LEMMA FlushQuiet ==
  ASSUME ExchangeInv(k, pc, job, stage), NEW t \in Thread, FlushWaiter(t)
  PROVE  ExchangeInv(k', pc', job', stage') /\ Quiet(k, pc, job, k', pc', job')
  <1>1. /\ FlushOne(t, SweptIn(stage)) /\ stage' = stage /\ job' = job /\ pc[t] = "flush"
    BY DEF FlushWaiter, exvars, FlushOne, Swept, SweptIn
  <1>2. /\ Sound(k, pc) /\ DOMAIN pc = Thread /\ SweptIn(stage) \in Queue
        /\ k.wait[SweptIn(stage)] # << >> /\ job[t].op = "none"
    <2>1. Sound(k, pc) /\ job[t].op = "none" /\ k.wait[SweptIn(stage)] # << >>
      <3>1. job[t].op = "none"
        BY <1>1, PointsFacts DEF Inside
      <3>. QED  BY <1>1, <3>1 DEF ExchangeInv, SweepOK
    <2>2. DOMAIN pc = Thread /\ SweptIn(stage) \in Queue
      BY ExchangeFacts DEF SweptIn
    <2>. QED  BY <2>1, <2>2
  <1>3. PICK x : x = Head(k.wait[SweptIn(stage)])
    OBVIOUS
  <1>4. /\ Sound(k', pc') /\ Awake(k, x, k') /\ k'.err = [k.err EXCEPT ![x] = "error"]
        /\ x \in Sleepers(k) /\ t \notin Sleepers(k) /\ t = k.cur
        /\ pc' = Moved(pc, t, "test")
    BY <1>1, <1>2, <1>3, StepFlushOne
  <1>5. PICK to : to = Moved(pc, t, "test")
    OBVIOUS
  <1>6. /\ t \in Sweeping(pc) /\ \A u \in Sweeping(pc) : u = t
        /\ stage \in {"receivers", "senders"}
        /\ Range(k.wait[Receivers]) \cap k.armed = {}
        /\ Range(k.wait[Senders]) \cap k.armed = {}
        /\ stage = "senders" => k.wait[Receivers] = << >>
    BY <1>1 DEF ExchangeInv, SweepOK, Sweeping
  <1>7. Sweeping(to) = {t} /\ \A u \in Thread : to[u] = IF u = t THEN "test" ELSE pc[u]
    BY <1>2, <1>5, <1>6, SweepingMoved
  <1>8. \A u \in Thread : to[u] # "flush"
    BY <1>6, <1>7 DEF Sweeping
  <1>9. ExchangeInv(k, to, job, stage) /\ Quiet(k, pc, job, k, to, job)
    <2>1. SweepOK(k, to, stage)
      BY <1>6, <1>7, <1>8 DEF SweepOK
    <2>2. t # Idle
      BY <1>1, <1>2 DEF Sound, Control
    <2>3. /\ "test" \in IpcPC \ {"block", "woken"} /\ stage # "open"
          /\ stage \in {"open", "receivers", "senders", "gone"}
      BY <1>6 DEF IpcPC
    <2>. QED  BY <2>1, <2>2, <2>3, <1>2, <1>4, <1>5, SweeperMoves
  <1>10. /\ ExchangeInv(k', to, job, stage)
         /\ \A op \in Ops : Coming(k', to, job, op) = Coming(k, to, job, op)
         /\ \A q \in {Receivers, Senders} : k'.wait[q] # << >> => k.wait[q] # << >>
    <2>1. "error" \in Err \ {"ok"} /\ Sound(k', to)
      BY <1>4, <1>5 DEF Err
    <2>. QED  BY <2>1, <1>4, <1>8, <1>9, ErrorKeeps
  <1>. QED  BY <1>1, <1>4, <1>5, <1>9, <1>10 DEF Quiet

(***************************************************************************)
(* rt_schedule at the end of a section.                                    *)
(***************************************************************************)
LEMMA ScheduleQuiet ==
  ASSUME ExchangeInv(k, pc, job, stage), NEW t \in Thread, DoSchedule(t), UNCHANGED exvars
  PROVE  ExchangeInv(k', pc', job', stage') /\ Quiet(k, pc, job, k', pc', job')
  <1>1. stage' = stage /\ job' = job /\ Sound(k, pc) /\ DOMAIN pc = Thread
    BY ExchangeFacts DEF exvars, ExchangeInv
  <1>2. PICK p : p = IF pc[t] = "block" THEN "woken" ELSE IF pc[t] = "nap" THEN "slept" ELSE "run"
    OBVIOUS
  <1>3. /\ Sound(k', pc') /\ SameWaits(k, k') /\ pc[t] \in {"sched", "block", "nap"}
        /\ pc' = Moved(pc, t, p)
    BY <1>1, <1>2, StepDoSchedule
  <1>4. Sound(k', pc)
    BY <1>1, ScheduleSound DEF DoSchedule
  <1>5. /\ ExchangeInv(k', pc, job, stage)
        /\ \A op : Coming(k', pc, job, op) = Coming(k, pc, job, op)
    BY <1>3, <1>4, SameKeeps
  <1>6. /\ p \in IpcPC /\ p \notin {"test", "flush"} /\ pc[t] \notin {"test", "flush"}
        /\ p \in {"block", "woken"} <=> pc[t] \in {"block", "woken"}
        /\ pc[t] # "copy"
    BY <1>2, <1>3 DEF IpcPC
  <1>7. /\ ExchangeInv(k', Moved(pc, t, p), job, stage)
        /\ \A op : Coming(k', Moved(pc, t, p), job, op) = Coming(k', pc, job, op)
    <2>1. Sound(k', Moved(pc, t, p))
      BY <1>3
    <2>. QED  BY <2>1, <1>5, <1>6, MoveKeeps
  <1>8. Quiet(k, pc, job, k', Moved(pc, t, p), job)
    BY <1>3, <1>5, <1>7 DEF Quiet, SameWaits
  <1>. QED  BY <1>1, <1>3, <1>7, <1>8

(***************************************************************************)
(* rt_thread_sleep, and its end.                                           *)
(***************************************************************************)
LEMMA SleepQuiet ==
  ASSUME ExchangeInv(k, pc, job, stage), NEW t \in Thread, Sleep(t), UNCHANGED exvars
  PROVE  ExchangeInv(k', pc', job', stage') /\ Quiet(k, pc, job, k', pc', job')
  <1>1. stage' = stage /\ job' = job /\ Sound(k, pc) /\ DOMAIN pc = Thread
    BY ExchangeFacts DEF exvars, ExchangeInv
  <1>2. /\ Sound(k', pc') /\ FallsAsleep(k, t, k')
        /\ k'.wait = k.wait /\ k'.armed = k.armed \cup {t}
        /\ pc[t] = "run" /\ pc' = Moved(pc, t, "nap")
    BY <1>1, StepSleep
  <1>3. t \notin Sleepers(k)
    BY CallerFacts DEF Sleep
  <1>4. /\ ExchangeInv(k', Moved(pc, t, "nap"), job, stage)
        /\ \A op \in Ops : Coming(k', Moved(pc, t, "nap"), job, op) = Coming(k, pc, job, op)
    <2>1. Sound(k', Moved(pc, t, "nap"))
      BY <1>2
    <2>. QED  BY <2>1, <1>2, <1>3, NapKeeps
  <1>. QED  BY <1>1, <1>2, <1>4 DEF Quiet

(***************************************************************************)
(* The end of rt_thread_sleep.                                             *)
(***************************************************************************)
LEMMA SleepReturnsQuiet ==
  ASSUME ExchangeInv(k, pc, job, stage), NEW t \in Thread, SleepReturns(t), UNCHANGED exvars
  PROVE  ExchangeInv(k', pc', job', stage') /\ Quiet(k, pc, job, k', pc', job')
  <1>1. /\ stage' = stage /\ job' = job /\ Sound(k, pc) /\ DOMAIN pc = Thread
        /\ job \in [Thread -> JobType(Ops, Mail)]
    BY ExchangeFacts DEF exvars, ExchangeInv
  <1>2. /\ Sound(k', pc') /\ Sleepers(k') = Sleepers(k)
        /\ k'.wait = k.wait /\ k'.armed = k.armed
        /\ \A x \in Thread \ {t} : k'.err[x] = k.err[x]
        /\ pc[t] = "slept" /\ pc' = Moved(pc, t, "run") /\ t \notin Sleepers(k)
    BY <1>1, StepSleepReturns
  <1>3. t = k.cur /\ t # Idle /\ job[t].op = "none"
    <2>1. job[t].op = "none"
      BY <1>2, PointsFacts DEF Inside
    <2>. QED  BY <2>1, <1>1, <1>2, CurrentAwake DEF SleepReturns
  <1>4. Sound(k', pc)
    <2>1. PICK e : e = IF k.err[t] = "timeout" THEN "ok" ELSE k.err[t]
      OBVIOUS
    <2>2. k' = ErrSet(k, t, e)
      BY <2>1 DEF SleepReturns, ErrSet
    <2>3. e \in Err
      BY <2>1, ExchangeFacts DEF Err
    <2>. QED  BY <2>2, <2>3, <1>1, ErrSound
  <1>5. /\ ExchangeInv(k', Moved(pc, t, "run"), job, stage)
        /\ \A op \in Ops : Coming(k', Moved(pc, t, "run"), job, op) = Coming(k, pc, job, op) \ {t}
    <2>1. "run" \in {"run", "sched"} /\ pc[t] \notin {"test", "flush"}
      BY <1>2
    <2>2. \A x \in Thread \ {t} : job[x] = job[x]
      OBVIOUS
    <2>. QED  BY <2>1, <2>2, <1>1, <1>2, <1>3, <1>4, ReturnKeeps
  <1>6. \A op \in Ops : t \notin Coming(k, pc, job, op)
    BY <1>3 DEF Coming, Comes, Ops
  <1>7. \A op \in Ops : Coming(k', Moved(pc, t, "run"), job, op) = Coming(k, pc, job, op)
    BY <1>5, <1>6
  <1>. QED  BY <1>1, <1>2, <1>5, <1>7 DEF Quiet

(***************************************************************************)
(* The steps of the threads that leave the content of the object alone.    *)
(***************************************************************************)
LEMMA WaiterStepQuiet ==
  ASSUME ExchangeInv(k, pc, job, stage), NEW t \in Thread, WaiterStep(t)
  PROVE  ExchangeInv(k', pc', job', stage') /\ Quiet(k, pc, job, k', pc', job')
  BY CallFailsQuiet, SweepNextQuiet, SweepQuiet, FlushQuiet, ScheduleQuiet, SleepQuiet,
     SleepReturnsQuiet DEF WaiterStep

(***************************************************************************)
(* The clock: the end of a time slice, and a timer that fires.             *)
(***************************************************************************)
LEMMA ClockStepQuiet ==
  ASSUME ExchangeInv(k, pc, job, stage), ClockStep
  PROVE  ExchangeInv(k', pc', job', stage') /\ Quiet(k, pc, job, k', pc', job')
  <1>1. stage' = stage /\ job' = job /\ Sound(k, pc)
    BY DEF ClockStep, exvars, ExchangeInv
  <1>2. CASE Tick
    <2>1. Sound(k', pc') /\ SameWaits(k, k') /\ pc' = pc
      BY <1>1, <1>2, StepTick
    <2>2. /\ ExchangeInv(k', pc, job, stage)
          /\ \A op : Coming(k', pc, job, op) = Coming(k, pc, job, op)
      <3>1. Sound(k', pc)
        BY <2>1
      <3>. QED  BY <3>1, <2>1, SameKeeps
    <2>. QED  BY <1>1, <2>1, <2>2 DEF Quiet, SameWaits
  <1>3. ASSUME NEW x \in Thread, TickTimeout(x)
        PROVE  ExchangeInv(k', pc', job', stage') /\ Quiet(k, pc, job, k', pc', job')
    <2>1. /\ Sound(k', pc') /\ Awake(k, x, k') /\ k'.err = [k.err EXCEPT ![x] = "timeout"]
          /\ x \in Sleepers(k) /\ x \in k.armed /\ pc' = pc
      BY <1>1, <1>3, StepTickTimeout
    <2>2. /\ ExchangeInv(k', pc, job, stage)
          /\ \A op \in Ops : Coming(k', pc, job, op) = Coming(k, pc, job, op)
          /\ \A q \in {Receivers, Senders} : k'.wait[q] # << >> => k.wait[q] # << >>
      <3>1. "timeout" \in Err \ {"ok"} /\ Sound(k', pc)
        BY <2>1 DEF Err
      <3>. QED  BY <3>1, <2>1, ErrorKeeps
    <2>. QED  BY <1>1, <2>1, <2>2 DEF Quiet
  <1>. QED  BY <1>2, <1>3 DEF ClockStep

(***************************************************************************)
(* A detach begins: nobody is to go on in a call.                          *)
(***************************************************************************)
LEMMA StartDetachQuiet ==
  ASSUME ExchangeInv(k, pc, job, stage), NEW t \in Thread, StartDetach(t)
  PROVE  ExchangeInv(k', pc', job', stage') /\ Quiet(k, pc, job, k', pc', job')
  <1>1. /\ stage = "open" /\ stage' = "receivers" /\ k' = k /\ job' = job
        /\ pc' = Moved(pc, t, "test")
        /\ Range(k.wait[Receivers]) \cap k.armed = {}
        /\ Range(k.wait[Senders]) \cap k.armed = {}
    BY DEF StartDetach, Goto, Moved, Waiting
  <1>2. t # Idle /\ t \notin Sleepers(k) /\ job[t].op = "none" /\ pc[t] = "run"
    BY CallerFacts DEF StartDetach
  <1>3. DOMAIN pc = Thread /\ Sweeping(pc) = {}
    BY <1>1, ExchangeFacts, SweepOpen DEF ExchangeInv
  <1>4. ASSUME NEW x \in Thread, job[x].op # "none"
        PROVE  pc[x] # "copy" /\ (x \in Sleepers(k) \/ k.err[x] # "ok")
    <2>1. job[x].op \in Ops
      BY <1>4, ExchangeFacts
    <2>2. pc[x] \in {"block", "woken"} /\ (k.stat[x] = "suspend" \/ k.err[x] # "ok")
      BY <2>1 DEF StartDetach, NobodyInside, Ops
    <2>. QED  BY <2>2 DEF Sleepers
  <1>5. SweepOK(k, pc, "receivers")
    BY <1>3 DEF SweepOK, Sweeping
  <1>6. ExchangeInv(k, pc, job, "receivers")
    BY <1>4, <1>5 DEF ExchangeInv
  <1>7. SweepOK(k, Moved(pc, t, "test"), "receivers")
    <2>1. /\ Sweeping(Moved(pc, t, "test")) = {t}
          /\ \A u \in Thread : Moved(pc, t, "test")[u] = IF u = t THEN "test" ELSE pc[u]
      BY <1>3, SweepingMoved
    <2>2. \A u \in Thread : Moved(pc, t, "test")[u] # "flush"
      BY <2>1, <1>3 DEF Sweeping
    <2>. QED  BY <2>1, <2>2, <1>1 DEF SweepOK
  <1>8. /\ ExchangeInv(k, Moved(pc, t, "test"), job, "receivers")
        /\ Quiet(k, pc, job, k, Moved(pc, t, "test"), job)
    <2>1. /\ "test" \in IpcPC \ {"block", "woken"}
          /\ "receivers" \in {"open", "receivers", "senders", "gone"}
      BY DEF IpcPC
    <2>. QED  BY <2>1, <1>2, <1>6, <1>7, SweeperMoves
  <1>. QED  BY <1>1, <1>8

(***************************************************************************)
(* The object is initialised again: nobody waits for it.                   *)
(***************************************************************************)
LEMMA ReopenQuiet ==
  ASSUME ExchangeInv(k, pc, job, stage), NEW t \in Thread, Reopen(t)
  PROVE  /\ ExchangeInv(k', pc', job', stage') /\ Quiet(k, pc, job, k', pc', job')
         /\ k'.wait[Receivers] = << >> /\ k'.wait[Senders] = << >>
  <1>1. stage = "gone" /\ stage' = "open" /\ k' = k /\ pc' = pc /\ job' = job
    BY DEF Reopen
  <1>2. /\ k.wait[Receivers] = << >> /\ k.wait[Senders] = << >>
        /\ Sweeping(pc) = {}
    BY <1>1 DEF ExchangeInv, SweepOK
  <1>3. SweepOK(k, pc, "open")
    BY <1>2, SweepOpen
  <1>. QED  BY <1>1, <1>2, <1>3 DEF ExchangeInv, Quiet

-----------------------------------------------------------------------------
(* Waking one waiter for what a call has added *)

(* There are enough who come back for what the threads of list q wait for. *)
Served(s, at, jb, q, amount) == Enough(s.wait[q], Coming(s, at, jb, OpOf(q)), amount)

(***************************************************************************)
(* The two sides.                                                          *)
(***************************************************************************)
LEMMA Sides ==
  /\ OpOf(Receivers) = "recv" /\ OpOf(Senders) = "send"
  /\ Other(Receivers) = Senders /\ Other(Senders) = Receivers
  /\ OpOf(Receivers) \in Ops /\ OpOf(Senders) \in Ops
  /\ \A q \in {Receivers, Senders} :
       /\ OpOf(q) \in Ops /\ OpOf(Other(q)) \in Ops /\ OpOf(Other(q)) # OpOf(q)
       /\ Other(q) \in {Receivers, Senders} /\ Other(q) # q
  BY ListsFacts DEF OpOf, Other, Ops

(***************************************************************************)
(* A call that adds one of what the threads of list q wait for wakes the   *)
(* first thread of q.  Its own thread does not come back for the other     *)
(* thing any more.                                                         *)
(***************************************************************************)
LEMMA WakeAndReturnKeeps ==
  ASSUME ExchangeInv(k, pc, job, stage), stage = "open",
         NEW t \in Thread, t # Idle, t \notin Sleepers(k), pc[t] \notin {"test", "flush"},
         NEW q \in {Receivers, Senders}, t \notin Coming(k, pc, job, OpOf(q)),
         WakeAndReturn(t, q), NEW a \in Int, Served(k, pc, job, q, a)
  PROVE  /\ ExchangeInv(k', pc', job', stage')
         /\ Served(k', pc', job', q, a + 1)
         /\ k'.wait[Other(q)] = k.wait[Other(q)]
         /\ Coming(k', pc', job', OpOf(Other(q))) = Coming(k, pc, job, OpOf(Other(q))) \ {t}
  <1>1. /\ OpOf(q) \in Ops /\ OpOf(Other(q)) \in Ops
        /\ Other(q) \in {Receivers, Senders} /\ Other(q) # q
    BY Sides
  <1>2. PICK n : n = IF Wakes(q) THEN ResumeFirst(k, q) ELSE k
    OBVIOUS
  <1>3. PICK p : p = IF Wakes(q) THEN "sched" ELSE "run"
    OBVIOUS
  <1>4. k' = n /\ pc' = Moved(pc, t, p) /\ Done(t) /\ stage' = stage /\ p \in {"run", "sched"}
    BY <1>2, <1>3 DEF WakeAndReturn, Goto, Moved
  <1>5. ASSUME Wakes(q)
         PROVE  \E x : /\ ExchangeInv(n, pc, job, "open")
                       /\ x \in Sleepers(k) /\ Sleepers(n) = Sleepers(k) \ {x}
                       /\ Coming(n, pc, job, OpOf(q)) = Coming(k, pc, job, OpOf(q)) \cup {x}
                       /\ Coming(n, pc, job, OpOf(Other(q))) = Coming(k, pc, job, OpOf(Other(q)))
                       /\ n.wait[Other(q)] = k.wait[Other(q)]
    <2>1. PICK x : x = Head(k.wait[q])
      OBVIOUS
    <2>2. n = ResumeFirst(k, q) /\ k.wait[q] # << >> /\ ExchangeInv(k, pc, job, "open")
      BY <1>2, <1>5 DEF Wakes
    <2>3. /\ ExchangeInv(n, pc, job, "open")
          /\ x \in Sleepers(k) /\ Sleepers(n) = Sleepers(k) \ {x}
          /\ Coming(n, pc, job, OpOf(q)) = Coming(k, pc, job, OpOf(q)) \cup {x}
          /\ Coming(n, pc, job, OpOf(Other(q))) = Coming(k, pc, job, OpOf(Other(q)))
          /\ n.wait[Other(q)] = k.wait[Other(q)]
      BY <2>1, <2>2, WakeKeeps
    <2>. QED  BY <2>3
  <1>6. Served(n, pc, job, q, a + 1) \/ n.wait[q] = << >>
    <2>1. CASE Wakes(q)
      <3>1. PICK x : /\ x \in Sleepers(k)
                     /\ Coming(n, pc, job, OpOf(q)) = Coming(k, pc, job, OpOf(q)) \cup {x}
        BY <2>1, <1>5
      <3>2. k.wait[q] # << >> /\ x \notin Coming(k, pc, job, OpOf(q))
        BY <2>1, <3>1 DEF Wakes, Coming, Comes
      <3>. QED  BY <3>1, <3>2, EnoughAdd DEF Served
    <2>2. CASE ~ Wakes(q)
      BY <2>2, <1>2 DEF Wakes
    <2>. QED  BY <2>1, <2>2
  <1>7. /\ ExchangeInv(n, pc, job, stage) /\ t \notin Sleepers(n)
        /\ t \notin Coming(n, pc, job, OpOf(q))
        /\ IsFiniteSet(Coming(n, pc, job, OpOf(q)))
        /\ Coming(n, pc, job, OpOf(Other(q))) = Coming(k, pc, job, OpOf(Other(q)))
        /\ n.wait[Other(q)] = k.wait[Other(q)]
    <2>1. CASE Wakes(q)
      <3>1. PICK x : /\ ExchangeInv(n, pc, job, "open")
                     /\ x \in Sleepers(k) /\ Sleepers(n) = Sleepers(k) \ {x}
                     /\ Coming(n, pc, job, OpOf(q)) = Coming(k, pc, job, OpOf(q)) \cup {x}
                     /\ Coming(n, pc, job, OpOf(Other(q))) = Coming(k, pc, job, OpOf(Other(q)))
                     /\ n.wait[Other(q)] = k.wait[Other(q)]
        BY <2>1, <1>5
      <3>2. IsFiniteSet(Coming(k, pc, job, OpOf(q)) \cup {x})
        BY FS_AddElement DEF Served, Enough
      <3>. QED  BY <3>1, <3>2, <1>1
    <2>2. CASE ~ Wakes(q)
      BY <2>2, <1>2 DEF Served, Enough
    <2>. QED  BY <2>1, <2>2
  <1>8. /\ ExchangeInv(n, Moved(pc, t, p), job', stage)
        /\ \A op \in Ops : Coming(n, Moved(pc, t, p), job', op) = Coming(n, pc, job, op) \ {t}
    <2>1. Sound(n, pc) /\ \A x \in Thread \ {t} : n.err[x] = n.err[x]
      BY <1>7 DEF ExchangeInv
    <2>. QED  BY <2>1, <1>4, <1>7, DoneKeeps
  <1>9. Coming(n, Moved(pc, t, p), job', OpOf(q)) = Coming(n, pc, job, OpOf(q))
    BY <1>1, <1>7, <1>8
  <1>10. Served(n, Moved(pc, t, p), job', q, a + 1)
    BY <1>6, <1>7, <1>9 DEF Served, Enough
  <1>11. /\ n.wait[Other(q)] = k.wait[Other(q)]
         /\ Coming(n, Moved(pc, t, p), job', OpOf(Other(q))) = Coming(k, pc, job, OpOf(Other(q))) \ {t}
    BY <1>1, <1>7, <1>8
  <1>. QED  BY <1>4, <1>8, <1>10, <1>11

(***************************************************************************)
(* When the call also takes one of what the other side waits for, there    *)
(* are enough for that too.                                                *)
(***************************************************************************)
LEMMA WakeAndReturnServes ==
  ASSUME ExchangeInv(k, pc, job, stage), stage = "open",
         NEW t \in Thread, t # Idle, t \notin Sleepers(k), pc[t] \notin {"test", "flush"},
         NEW q \in {Receivers, Senders}, t \notin Coming(k, pc, job, OpOf(q)),
         WakeAndReturn(t, q), NEW a \in Int, NEW b \in Int,
         Served(k, pc, job, q, a), Served(k, pc, job, Other(q), b)
  PROVE  /\ ExchangeInv(k', pc', job', stage')
         /\ Served(k', pc', job', q, a + 1) /\ Served(k', pc', job', Other(q), b - 1)
  <1>1. /\ ExchangeInv(k', pc', job', stage') /\ Served(k', pc', job', q, a + 1)
        /\ k'.wait[Other(q)] = k.wait[Other(q)]
        /\ Coming(k', pc', job', OpOf(Other(q))) = Coming(k, pc, job, OpOf(Other(q))) \ {t}
    BY WakeAndReturnKeeps
  <1>2. PICK C : C = Coming(k, pc, job, OpOf(Other(q)))
    OBVIOUS
  <1>3. PICK w : w = k.wait[Other(q)]
    OBVIOUS
  <1>4. Enough(w, C, b)
    BY <1>2, <1>3 DEF Served
  <1>5. Enough(w, C \ {t}, b - 1)
    BY <1>4, EnoughRemove
  <1>. QED  BY <1>1, <1>2, <1>3, <1>5 DEF Served

(***************************************************************************)
(* When it takes nothing and its thread does not come back for the other   *)
(* thing, it is the same there.                                            *)
(***************************************************************************)
LEMMA WakeAndReturnAdds ==
  ASSUME ExchangeInv(k, pc, job, stage), stage = "open",
         NEW t \in Thread, t # Idle, t \notin Sleepers(k), pc[t] = "copy",
         NEW q \in {Receivers, Senders},
         WakeAndReturn(t, q), NEW a \in Int, NEW b \in Int,
         Served(k, pc, job, q, a), Served(k, pc, job, Other(q), b)
  PROVE  /\ ExchangeInv(k', pc', job', stage')
         /\ Served(k', pc', job', q, a + 1) /\ Served(k', pc', job', Other(q), b)
  <1>1. t \notin Coming(k, pc, job, OpOf(q)) /\ t \notin Coming(k, pc, job, OpOf(Other(q)))
    BY DEF Coming, Comes
  <1>2. /\ ExchangeInv(k', pc', job', stage') /\ Served(k', pc', job', q, a + 1)
        /\ k'.wait[Other(q)] = k.wait[Other(q)]
        /\ Coming(k', pc', job', OpOf(Other(q))) = Coming(k, pc, job, OpOf(Other(q))) \ {t}
    BY <1>1, WakeAndReturnKeeps
  <1>3. Coming(k', pc', job', OpOf(Other(q))) = Coming(k, pc, job, OpOf(Other(q)))
    BY <1>1, <1>2
  <1>. QED  BY <1>2, <1>3 DEF Served

(***************************************************************************)
(* The same in an interrupt handler.                                       *)
(***************************************************************************)
LEMMA WakeFromIrqServes ==
  ASSUME ExchangeInv(k, pc, job, stage), stage = "open",
         NEW q \in {Receivers, Senders}, WakeFromIrq(q), NEW a \in Int, NEW b \in Int,
         Served(k, pc, job, q, a), Served(k, pc, job, Other(q), b)
  PROVE  /\ ExchangeInv(k', pc', job', stage')
         /\ Served(k', pc', job', q, a + 1) /\ Served(k', pc', job', Other(q), b - 1)
  <1>1. /\ pc' = pc /\ job' = job /\ stage' = stage
        /\ k' = (IF Wakes(q) THEN Schedule(ResumeFirst(k, q)) ELSE k)
    BY DEF WakeFromIrq, exvars
  <1>2. Other(q) \in {Receivers, Senders} /\ Other(q) # q
    BY ExchangeFacts DEF Other
  <1>3. CASE Wakes(q)
    <2>1. PICK x : x = Head(k.wait[q])
      OBVIOUS
    <2>2. PICK n : n = ResumeFirst(k, q)
      OBVIOUS
    <2>3. /\ ExchangeInv(n, pc, job, "open") /\ x \notin Coming(k, pc, job, OpOf(q))
          /\ Coming(n, pc, job, OpOf(q)) = Coming(k, pc, job, OpOf(q)) \cup {x}
          /\ Coming(n, pc, job, OpOf(Other(q))) = Coming(k, pc, job, OpOf(Other(q)))
          /\ n.wait[Other(q)] = k.wait[Other(q)]
      BY <2>1, <2>2, <1>3, WakeKeeps DEF Wakes
    <2>4. Sound(k', pc) /\ SameWaits(n, k')
      <3>1. Sound(n, pc) /\ k' = Schedule(n)
        BY <2>2, <2>3, <1>1, <1>3 DEF ExchangeInv
      <3>. QED  BY <3>1, ScheduleSound
    <2>5. /\ ExchangeInv(k', pc, job, "open")
          /\ \A op : Coming(k', pc, job, op) = Coming(n, pc, job, op)
      BY <2>3, <2>4, SameKeeps
    <2>6. Served(k', pc, job, q, a + 1)
      <3>1. k.wait[q] # << >>
        BY <1>3 DEF Wakes
      <3>. QED  BY <3>1, <2>3, <2>5, EnoughAdd DEF Served
    <2>7. Served(k', pc, job, Other(q), b - 1)
      <3>1. k'.wait[Other(q)] = k.wait[Other(q)]
        BY <2>3, <2>4, <1>2 DEF SameWaits
      <3>2. Coming(k', pc, job, OpOf(Other(q))) = Coming(k, pc, job, OpOf(Other(q)))
        BY <2>3, <2>5, <1>2
      <3>. QED  BY <3>1, <3>2, EnoughLess DEF Served
    <2>. QED  BY <2>5, <2>6, <2>7, <1>1
  <1>4. CASE ~ Wakes(q)
    <2>1. k' = k /\ k.wait[q] = << >>
      BY <1>1, <1>4 DEF Wakes
    <2>2. Served(k, pc, job, q, a + 1)
      BY <2>1 DEF Served, Enough
    <2>3. Served(k, pc, job, Other(q), b - 1)
      BY EnoughLess DEF Served
    <2>. QED  BY <2>1, <2>2, <2>3, <1>1
  <1>. QED  BY <1>3, <1>4

(***************************************************************************)
(* A step that no user of the object notices leaves the amounts alone.     *)
(***************************************************************************)
LEMMA QuietServes ==
  ASSUME Quiet(k, pc, job, k', pc', job'), NEW q \in {Receivers, Senders}, NEW a,
         Served(k, pc, job, q, a)
  PROVE  Served(k', pc', job', q, a)
  <1>1. k'.wait[q] # << >> => k.wait[q] # << >>
    BY DEF Quiet
  <1>2. Coming(k', pc', job', OpOf(q)) = Coming(k, pc, job, OpOf(q))
    BY Sides DEF Quiet
  <1>. QED  BY <1>1, <1>2 DEF Served, Enough

(***************************************************************************)
(* A call that cannot go on: it fails, or its thread blocks.  Who comes    *)
(* back for the same thing gets one less, but there is none of it; who     *)
(* comes back for the other thing is another thread.                       *)
(***************************************************************************)
LEMMA StillServed ==
  ASSUME NEW q \in {Receivers, Senders}, NEW t,
         t \notin Coming(k, pc, job, OpOf(Other(q))), NEW b,
         Served(k, pc, job, q, 0), Served(k, pc, job, Other(q), b),
         NEW s, NEW at, NEW j,
         \A op \in Ops : Coming(s, at, j, op) = Coming(k, pc, job, op) \ {t},
         s.wait[Other(q)] = k.wait[Other(q)]
  PROVE  Served(s, at, j, q, 0) /\ Served(s, at, j, Other(q), b)
  <1>1. OpOf(q) \in Ops /\ OpOf(Other(q)) \in Ops
    BY Sides
  <1>2. Coming(s, at, j, OpOf(Other(q))) = Coming(k, pc, job, OpOf(Other(q)))
    BY <1>1
  <1>3. IsFiniteSet(Coming(s, at, j, OpOf(q)))
    <2>1. IsFiniteSet(Coming(k, pc, job, OpOf(q)) \ {t})
      BY FS_RemoveElement DEF Served, Enough
    <2>. QED  BY <2>1, <1>1
  <1>4. Served(s, at, j, q, 0)
    BY <1>3, FS_CardinalityType DEF Served, Enough
  <1>. QED  BY <1>2, <1>4 DEF Served

(***************************************************************************)
(* The functions that find nothing, or no room, and do not wait or have no *)
(* time left.  A receiver that has been woken notes its timeout.           *)
(***************************************************************************)
LEMMA FailServes ==
  ASSUME ExchangeInv(k, pc, job, stage), NEW t \in Thread, NEW q \in {Receivers, Senders},
         NEW timeout, NEW m, Round(t, OpOf(q), timeout, m),
         Goto(t, "run"), Done(t), UNCHANGED stage,
         k' = k \/ k' = ErrSet(k, t, "timeout"), NEW b,
         Served(k, pc, job, q, 0), Served(k, pc, job, Other(q), b)
  PROVE  /\ ExchangeInv(k', pc', job', stage')
         /\ Served(k', pc', job', q, 0) /\ Served(k', pc', job', Other(q), b)
  <1>1. /\ t # Idle /\ t \notin Sleepers(k) /\ pc[t] \notin {"test", "flush"}
        /\ t \notin Coming(k, pc, job, OpOf(Other(q)))
    <2>1. OpOf(q) \in Ops /\ OpOf(Other(q)) \in Ops \ {OpOf(q)}
      BY Sides
    <2>2. /\ t # Idle /\ t \notin Sleepers(k) /\ pc[t] \in {"run", "woken"}
          /\ \A o \in Ops \ {OpOf(q)} : t \notin Coming(k, pc, job, o)
      BY <2>1, RoundFacts
    <2>. QED  BY <2>1, <2>2
  <1>2. pc' = Moved(pc, t, "run") /\ stage' = stage /\ "run" \in {"run", "sched"}
    BY DEF Goto, Moved
  <1>3. Sound(k, pc) /\ k.err \in [Thread -> Err] /\ Other(q) \in {Receivers, Senders}
    BY ExchangeFacts, Sides DEF ExchangeInv
  <1>4. /\ Sound(k', pc) /\ Sleepers(k') = Sleepers(k) /\ k'.wait = k.wait /\ k'.armed = k.armed
        /\ \A x \in Thread \ {t} : k'.err[x] = k.err[x]
    <2>1. CASE k' = ErrSet(k, t, "timeout")
      <3>1. /\ Sound(k', pc) /\ Sleepers(k') = Sleepers(k) /\ k'.wait = k.wait
            /\ k'.armed = k.armed /\ k'.err = [k.err EXCEPT ![t] = "timeout"]
        <4>1. "timeout" \in Err
          BY DEF Err
        <4>. QED  BY <4>1, <2>1, <1>3, ErrSound
      <3>. QED  BY <3>1, <1>3
    <2>2. CASE k' = k
      BY <2>2, <1>3
    <2>. QED  BY <2>1, <2>2
  <1>5. /\ ExchangeInv(k', Moved(pc, t, "run"), job', stage)
        /\ \A op \in Ops : Coming(k', Moved(pc, t, "run"), job', op) = Coming(k, pc, job, op) \ {t}
    BY <1>1, <1>2, <1>4, DoneKeeps
  <1>6. /\ Served(k', Moved(pc, t, "run"), job', q, 0)
        /\ Served(k', Moved(pc, t, "run"), job', Other(q), b)
    <2>1. k'.wait[Other(q)] = k.wait[Other(q)]
      BY <1>4
    <2>. QED  BY <2>1, <1>1, <1>5, StillServed
  <1>. QED  BY <1>2, <1>5, <1>6

(***************************************************************************)
(* The kinds of timeout a call can wait with, when it begins and later.    *)
(***************************************************************************)
LEMMA RoundTimeout ==
  ASSUME ExchangeInv(k, pc, job, stage), NEW t \in Thread, NEW op \in Ops, NEW timeout,
         NEW m \in Mail \cup {Junk}, Round(t, op, timeout, m), timeout # "none"
  PROVE  [op |-> op, wait |-> timeout, arg |-> m] \in JobType(Ops, Mail)
  <1>1. timeout \in Timeouts \cup {"none"}
    <2>1. CASE timeout \in Timeouts
      BY <2>1
    <2>2. CASE GoesOn(t, op, timeout, m)
      <3>1. timeout \in Remaining(job[t].wait)
        BY <2>2 DEF GoesOn
      <3>2. timeout = job[t].wait
        BY <3>1 DEF Remaining
      <3>. QED  BY <3>2 DEF ExchangeInv, JobType
    <2>. QED  BY <2>1, <2>2 DEF Round
  <1>. QED  BY <1>1 DEF JobType

(***************************************************************************)
(* The waiting branches of the functions that block.                       *)
(***************************************************************************)
LEMMA BlockServes ==
  ASSUME ExchangeInv(k, pc, job, stage), NEW t \in Thread, NEW q \in {Receivers, Senders},
         NEW timeout, NEW m \in Mail \cup {Junk}, Round(t, OpOf(q), timeout, m),
         BlockOn(t, q, flag, OpOf(q), timeout, m), UNCHANGED stage, NEW b,
         Served(k, pc, job, q, 0), Served(k, pc, job, Other(q), b)
  PROVE  /\ ExchangeInv(k', pc', job', stage')
         /\ Served(k', pc', job', q, 0) /\ Served(k', pc', job', Other(q), b)
  <1>1. /\ OpOf(q) \in Ops /\ OpOf(Other(q)) \in Ops \ {OpOf(q)}
        /\ Other(q) \in {Receivers, Senders} /\ Other(q) # q
    BY Sides
  <1>2. /\ stage = "open" /\ t = k.cur /\ t # Idle /\ t \notin Sleepers(k)
        /\ pc[t] \notin {"test", "flush"} /\ t \notin Coming(k, pc, job, OpOf(Other(q)))
    <2>1. /\ stage = "open" /\ t = k.cur /\ t # Idle /\ t \notin Sleepers(k)
          /\ pc[t] \in {"run", "woken"}
          /\ \A o \in Ops \ {OpOf(q)} : t \notin Coming(k, pc, job, o)
      BY <1>1, RoundFacts
    <2>. QED  BY <2>1, <1>1
  <1>3. /\ pc' = Moved(pc, t, "block") /\ k' = WaitOn(k, q, t, flag, timeout)
        /\ Begins(t, OpOf(q), timeout, m) /\ timeout # "none"
    BY DEF BlockOn, Goto, Moved
  <1>4. PICK j : j = job'
    OBVIOUS
  <1>5. /\ j \in [Thread -> JobType(Ops, Mail)] /\ \A x \in Thread \ {t} : j[x] = job[x]
        /\ j[t].op = OpOf(q) /\ j[t].wait = timeout
    <2>1. [op |-> OpOf(q), wait |-> timeout, arg |-> m] \in JobType(Ops, Mail)
      BY <1>1, <1>3, RoundTimeout
    <2>. QED  BY <2>1, <1>3, <1>4 DEF Begins, ExchangeInv
  <1>6. PICK n : n = WaitOn(k, q, t, flag, timeout)
    OBVIOUS
  <1>7. /\ ExchangeInv(n, Moved(pc, t, "block"), j, "open")
        /\ \A op \in Ops : Coming(n, Moved(pc, t, "block"), j, op) = Coming(k, pc, job, op) \ {t}
        /\ n.wait[Other(q)] = k.wait[Other(q)]
    <2>1. ExchangeInv(k, pc, job, "open")
      BY <1>2
    <2>2. /\ ExchangeInv(n, Moved(pc, t, "block"), j, "open")
          /\ \A op \in Ops : Coming(n, Moved(pc, t, "block"), j, op) = Coming(k, pc, job, op) \ {t}
          /\ \A r \in {Receivers, Senders} : r # q => n.wait[r] = k.wait[r]
      BY <1>2, <1>5, <1>6, <2>1, BlockKeeps
    <2>. QED  BY <2>2, <1>1
  <1>8. Served(n, Moved(pc, t, "block"), j, q, 0) /\ Served(n, Moved(pc, t, "block"), j, Other(q), b)
    BY <1>2, <1>7, StillServed
  <1>. QED  BY <1>2, <1>3, <1>4, <1>6, <1>7, <1>8

(***************************************************************************)
(* The reset: whoever waits has been woken with an error, and nobody waits *)
(* afterwards.                                                             *)
(***************************************************************************)
LEMMA ResetServes ==
  ASSUME ExchangeInv(k, pc, job, stage), NEW t \in Thread, FailWaiters(t),
         NEW a, Served(k, pc, job, Receivers, a), NEW b, Served(k, pc, job, Senders, b)
  PROVE  /\ ExchangeInv(k', pc', job', stage')
         /\ \A x : Served(k', pc', job', Receivers, x) /\ Served(k', pc', job', Senders, x)
  <1>1. PICK n : n = ResumeAll(k, Receivers)
    OBVIOUS
  <1>2. PICK o : o = ResumeAll(n, Senders)
    OBVIOUS
  <1>3. /\ stage = "open" /\ k' = o /\ pc' = Moved(pc, t, "sched") /\ job' = job
        /\ stage' = stage
    BY <1>1, <1>2 DEF FailWaiters, Goto, Moved, exvars
  <1>4. t # Idle /\ t \notin Sleepers(k) /\ pc[t] = "run" /\ job[t].op = "none"
    BY CallerFacts DEF FailWaiters
  <1>5. /\ ExchangeInv(n, pc, job, "open") /\ Sleepers(n) \subseteq Sleepers(k)
        /\ n.wait = [k.wait EXCEPT ![Receivers] = << >>]
        /\ \A op \in Ops : Coming(n, pc, job, op) = Coming(k, pc, job, op)
    <2>1. ExchangeInv(k, pc, job, "open") /\ Receivers \in {Receivers, Senders}
      BY <1>3
    <2>2. NobodyLeft(k, pc, job, Receivers, ResumeAll(k, Receivers))
      BY <2>1, FailKeeps
    <2>. QED  BY <2>2, <1>1 DEF NobodyLeft
  <1>6. /\ ExchangeInv(o, pc, job, "open") /\ Sleepers(o) \subseteq Sleepers(n)
        /\ o.wait = [n.wait EXCEPT ![Senders] = << >>]
        /\ \A op \in Ops : Coming(o, pc, job, op) = Coming(n, pc, job, op)
    <2>1. Senders \in {Receivers, Senders}
      OBVIOUS
    <2>2. NobodyLeft(n, pc, job, Senders, ResumeAll(n, Senders))
      BY <2>1, <1>5, FailKeeps
    <2>. QED  BY <2>2, <1>2 DEF NobodyLeft
  <1>7. o.wait[Receivers] = << >> /\ o.wait[Senders] = << >>
    <2>1. Receivers \in Queue /\ Senders \in Queue /\ k.wait \in [Queue -> Seq(Thread)]
      BY ExchangeFacts
    <2>. QED  BY <2>1, <1>5, <1>6
  <1>8. /\ ExchangeInv(o, Moved(pc, t, "sched"), job, "open")
        /\ \A op \in Ops : Coming(o, Moved(pc, t, "sched"), job, op) = Coming(o, pc, job, op) \ {t}
    <2>1. /\ Sound(o, pc) /\ job \in [Thread -> JobType(Ops, Mail)] /\ t \notin Sleepers(o)
          /\ \A x \in Thread \ {t} : o.err[x] = o.err[x] /\ job[x] = job[x]
          /\ pc[t] \notin {"test", "flush"} /\ "sched" \in {"run", "sched"}
      BY <1>4, <1>5, <1>6 DEF ExchangeInv
    <2>. QED  BY <2>1, <1>4, <1>6, ReturnKeeps
  <1>9. \A q \in {Receivers, Senders} : IsFiniteSet(Coming(o, Moved(pc, t, "sched"), job, OpOf(q)))
    <2>1. OpOf(Receivers) \in Ops /\ OpOf(Senders) \in Ops
      BY Sides
    <2>2. /\ IsFiniteSet(Coming(k, pc, job, OpOf(Receivers)) \ {t})
          /\ IsFiniteSet(Coming(k, pc, job, OpOf(Senders)) \ {t})
      BY FS_RemoveElement DEF Served, Enough
    <2>. QED  BY <2>1, <2>2, <1>5, <1>6, <1>8
  <1>10. \A x : /\ Served(o, Moved(pc, t, "sched"), job, Receivers, x)
                /\ Served(o, Moved(pc, t, "sched"), job, Senders, x)
    BY <1>7, <1>9 DEF Served, Enough
  <1>. QED  BY <1>3, <1>8, <1>10

(***************************************************************************)
(* When the object is initialised again nobody waits.                      *)
(***************************************************************************)
LEMMA ReopenServes ==
  ASSUME ExchangeInv(k, pc, job, stage), NEW t \in Thread, Reopen(t),
         NEW a, Served(k, pc, job, Receivers, a), NEW b, Served(k, pc, job, Senders, b)
  PROVE  /\ ExchangeInv(k', pc', job', stage')
         /\ \A x : Served(k', pc', job', Receivers, x) /\ Served(k', pc', job', Senders, x)
  <1>1. /\ ExchangeInv(k', pc', job', stage') /\ Quiet(k, pc, job, k', pc', job')
        /\ k'.wait[Receivers] = << >> /\ k'.wait[Senders] = << >>
    BY ReopenQuiet
  <1>2. /\ Coming(k', pc', job', OpOf(Receivers)) = Coming(k, pc, job, OpOf(Receivers))
        /\ Coming(k', pc', job', OpOf(Senders)) = Coming(k, pc, job, OpOf(Senders))
    BY <1>1, Sides DEF Quiet
  <1>. QED  BY <1>1, <1>2 DEF Served, Enough

(***************************************************************************)
(* At the start nobody waits and no call is under way.                     *)
(***************************************************************************)
LEMMA ExchangeStarts ==
  ASSUME ExchangeInit
  PROVE  /\ ExchangeInv(k, pc, job, stage) /\ flag \in Flags
         /\ \A t \in Thread : pc[t] = "run"
         /\ \A x : Served(k, pc, job, Receivers, x) /\ Served(k, pc, job, Senders, x)
  <1>1. /\ Sound(k, pc) /\ Sleepers(k) = {} /\ pc \in [Thread -> {"run"}]
        /\ k.wait = [q \in Queue |-> << >>]
    BY InitSound DEF ExchangeInit
  <1>2. Receivers \in Queue /\ Senders \in Queue /\ Receivers # Senders
    BY ListsFacts
  <1>3. k.wait[Receivers] = << >> /\ k.wait[Senders] = << >>
    BY <1>1, <1>2
  <1>4. job \in [Thread -> JobType(Ops, Mail)] /\ \A t \in Thread : job[t].op = "none"
    BY DEF ExchangeInit, NoJobs, NoJob, JobType
  <1>5. ListedIn(k, job, Receivers, "recv") /\ ListedIn(k, job, Senders, "send")
    <2>1. Range(<< >>) = {}
      BY DEF Range
    <2>. QED  BY <2>1, <1>1, <1>3 DEF ListedIn
  <1>6. SweepOK(k, pc, stage)
    <2>1. Sweeping(pc) = {}
      BY <1>1 DEF Sweeping
    <2>. QED  BY <2>1, SweepOpen DEF ExchangeInit
  <1>7. ExchangeInv(k, pc, job, stage)
    <2>1. PointsOK(pc, job)
      BY <1>1, <1>4 DEF PointsOK, IpcPC
    <2>2. stage = "open"
      BY DEF ExchangeInit
    <2>. QED  BY <2>1, <2>2, <1>1, <1>4, <1>5, <1>6 DEF ExchangeInv
  <1>8. Coming(k, pc, job, "recv") = {} /\ Coming(k, pc, job, "send") = {}
    BY <1>4 DEF Coming, Comes
  <1>9. \A x : Served(k, pc, job, Receivers, x) /\ Served(k, pc, job, Senders, x)
    BY <1>3, <1>8, Sides, FS_EmptySet DEF Served, Enough
  <1>. QED  BY <1>1, <1>7, <1>9 DEF ExchangeInit

(***************************************************************************)
(* Who comes back, in the words of module Jobs.                            *)
(***************************************************************************)
LEMMA ReturningComing ==
  ASSUME NEW op
  PROVE  Returning(op) = Coming(k, pc, job, op)
  BY DEF Returning, Coming, Comes, Sleepers

(***************************************************************************)
(* What the invariant says in the words of module Exchange: its type, who  *)
(* is listed, and that there are enough for each side.                     *)
(***************************************************************************)
LEMMA ExchangeSays ==
  ASSUME ExchangeInv(k, pc, job, stage), flag \in Flags
  PROVE  ExchangeType /\ WaitersListed
  <1>1. k \in KernelType
    BY SoundFacts DEF ExchangeInv
  <1>2. ListedIn(k, job, Receivers, "recv") /\ ListedIn(k, job, Senders, "send")
    BY DEF ExchangeInv
  <1>3. WaitersListed
    BY <1>2 DEF WaitersListed, ListedIn, Waiting, BlockedIn, Sleepers
  <1>. QED  BY <1>1, <1>3 DEF ExchangeInv, ExchangeType, Ops

(***************************************************************************)
(* While a thread of a side waits, no more is there than threads of that   *)
(* side come back.                                                         *)
(***************************************************************************)
LEMMA ServedSays ==
  ASSUME NEW q \in {Receivers, Senders}, NEW a, Served(k, pc, job, q, a), Waiting(q) # {}
  PROVE  a <= Cardinality(Returning(OpOf(q)))
  <1>1. k.wait[q] # << >>
    <2>1. Range(<< >>) = {}
      BY DEF Range
    <2>. QED  BY <2>1 DEF Waiting
  <1>. QED  BY <1>1, ReturningComing DEF Served, Enough

-----------------------------------------------------------------------------
(* The ring buffer of the mailbox *)

(***************************************************************************)
(* The offsets stay in the pool, and the next free slot is as many slots   *)
(* behind the oldest mail as there are mails.                              *)
(***************************************************************************)
RingOK(p, i, o, e) ==
  /\ p \in [Slot -> Mail \cup {Junk}]
  /\ i \in Slot /\ o \in Slot /\ e \in 0 .. Size
  /\ i = (o + e) % Size

(***************************************************************************)
(* Going on from a slot by at most the size of the pool wraps once.        *)
(***************************************************************************)
LEMMA Wrap ==
  ASSUME NEW a \in Slot, NEW b \in 0 .. Size
  PROVE  (a + b) % Size = IF a + b < Size THEN a + b ELSE a + b - Size
  <1>1. Size \in Nat \ {0} /\ a \in Int /\ b \in Int /\ 0 <= a /\ a < Size /\ 0 <= b /\ b <= Size
    BY SizeFacts DEF Slot
  <1>2. CASE a + b < Size
    BY <1>1, <1>2, SMTT(30)
  <1>3. CASE ~ (a + b < Size)
    <2>1. a + b - Size \in 0 .. Size - 1 /\ a + b = 1 * Size + (a + b - Size)
      BY <1>1, <1>3
    <2>. QED  BY <2>1, <1>1, <1>3, SMTT(30)
  <1>. QED  BY <1>2, <1>3

(***************************************************************************)
(* Storing, storing in front, fetching and resetting keep the ring closed. *)
(***************************************************************************)
LEMMA StoreRing ==
  ASSUME RingOK(pool, in, out, entry), NEW m \in Mail, Store(m)
  PROVE  RingOK(pool', in', out', entry') /\ entry' = entry + 1
  <1>1. Size \in Nat \ {0} /\ in \in 0 .. Size - 1 /\ out \in 0 .. Size - 1 /\ entry \in 0 .. Size
    BY SizeFacts DEF RingOK, Slot
  <1>2. /\ entry # Size /\ pool' = [pool EXCEPT ![in] = m] /\ entry' = entry + 1 /\ out' = out
        /\ in' = IF in + 1 >= Size THEN 0 ELSE in + 1
    BY DEF Store, Next1
  <1>3. entry' \in 0 .. Size /\ in' \in Slot /\ out' \in Slot
    BY <1>1, <1>2 DEF Slot
  <1>4. /\ in = IF out + entry < Size THEN out + entry ELSE out + entry - Size
        /\ (out + entry') % Size
             = IF out + entry' < Size THEN out + entry' ELSE out + entry' - Size
    BY <1>2, <1>3, Wrap DEF RingOK
  <1>5. in' = (out' + entry') % Size
    BY <1>1, <1>2, <1>4
  <1>. QED  BY <1>2, <1>3, <1>5 DEF RingOK

(***************************************************************************)
(* Storing in front moves out_offset back by one, with the same wrap.      *)
(***************************************************************************)
LEMMA StoreUrgentRing ==
  ASSUME RingOK(pool, in, out, entry), NEW m \in Mail, StoreUrgent(m)
  PROVE  RingOK(pool', in', out', entry') /\ entry' = entry + 1
  <1>1. Size \in Nat \ {0} /\ in \in 0 .. Size - 1 /\ out \in 0 .. Size - 1 /\ entry \in 0 .. Size
    BY SizeFacts DEF RingOK, Slot
  <1>2. /\ entry # Size /\ entry' = entry + 1 /\ in' = in
        /\ pool' = [pool EXCEPT ![out'] = m]
        /\ out' = IF out > 0 THEN out - 1 ELSE Size - 1
    BY DEF StoreUrgent, Before1
  <1>3. entry' \in 0 .. Size /\ in' \in Slot /\ out' \in Slot
    BY <1>1, <1>2 DEF Slot
  <1>4. /\ in = IF out + entry < Size THEN out + entry ELSE out + entry - Size
        /\ (out' + entry') % Size
             = IF out' + entry' < Size THEN out' + entry' ELSE out' + entry' - Size
    BY <1>3, Wrap DEF RingOK
  <1>5. in' = (out' + entry') % Size
    BY <1>1, <1>2, <1>4
  <1>. QED  BY <1>2, <1>3, <1>5 DEF RingOK

(***************************************************************************)
(* Fetching moves out_offset on by one.                                    *)
(***************************************************************************)
LEMMA FetchRing ==
  ASSUME RingOK(pool, in, out, entry), Fetch
  PROVE  RingOK(pool', in', out', entry') /\ entry' = entry - 1
  <1>1. Size \in Nat \ {0} /\ in \in 0 .. Size - 1 /\ out \in 0 .. Size - 1 /\ entry \in 0 .. Size
    BY SizeFacts DEF RingOK, Slot
  <1>2. /\ entry # 0 /\ entry' = entry - 1 /\ in' = in /\ pool' = pool
        /\ out' = IF out + 1 >= Size THEN 0 ELSE out + 1
    BY DEF Fetch, Next1
  <1>3. entry' \in 0 .. Size /\ in' \in Slot /\ out' \in Slot
    BY <1>1, <1>2 DEF Slot
  <1>4. /\ in = IF out + entry < Size THEN out + entry ELSE out + entry - Size
        /\ (out' + entry') % Size
             = IF out' + entry' < Size THEN out' + entry' ELSE out' + entry' - Size
    BY <1>3, Wrap DEF RingOK
  <1>5. in' = (out' + entry') % Size
    BY <1>1, <1>2, <1>4
  <1>. QED  BY <1>2, <1>3, <1>5 DEF RingOK

(***************************************************************************)
(* Both offsets at the start are an empty ring, whatever the pool holds.   *)
(***************************************************************************)
LEMMA EmptiedRing ==
  ASSUME NEW p \in [Slot -> Mail \cup {Junk}]
  PROVE  RingOK(p, 0, 0, 0)
  <1>1. 0 \in Slot /\ 0 \in 0 .. Size /\ Size \in Nat \ {0}
    BY SizeFacts DEF Slot
  <1>2. (0 + 0) % Size = 0
    BY <1>1, Wrap
  <1>. QED  BY <1>1, <1>2 DEF RingOK

-----------------------------------------------------------------------------
(* The mailbox: every step keeps its invariant *)

(***************************************************************************)
(* The inductive invariant.                                                *)
(***************************************************************************)
IInv ==
  /\ flag \in Flags
  /\ RingOK(pool, in, out, entry)
  /\ ExchangeInv(k, pc, job, stage)
  /\ Served(k, pc, job, Receivers, entry)
  /\ Served(k, pc, job, Senders, Size - entry)

(***************************************************************************)
(* The numbers of mails and of free slots.                                 *)
(***************************************************************************)
LEMMA Amounts ==
  ASSUME IInv
  PROVE  entry \in Nat /\ Size \in Nat /\ Size - entry \in Nat
         /\ Receivers # Senders /\ DOMAIN pc = Thread
  BY SizeFacts, ExchangeFacts DEF IInv, RingOK

(***************************************************************************)
(* The invariant holds at the start: nobody waits and the mailbox is       *)
(* empty.                                                                  *)
(***************************************************************************)
LEMMA InitInv == Init => IInv
  <1> SUFFICES ASSUME Init PROVE IInv
    OBVIOUS
  <1>1. /\ ExchangeInv(k, pc, job, stage) /\ flag \in Flags
        /\ \A x : Served(k, pc, job, Receivers, x) /\ Served(k, pc, job, Senders, x)
    BY ExchangeStarts DEF Init
  <1>2. RingOK(pool, in, out, entry)
    <2>1. pool \in [Slot -> Mail \cup {Junk}]
      BY DEF Init
    <2>. QED  BY <2>1, EmptiedRing DEF Init
  <1>. QED  BY <1>1, <1>2 DEF IInv

(***************************************************************************)
(* A step that touches neither the mails nor those who come for them.      *)
(***************************************************************************)
LEMMA StepQuiet ==
  ASSUME IInv, ExchangeInv(k', pc', job', stage'), Quiet(k, pc, job, k', pc', job'),
         UNCHANGED << pool, in, out, entry, flag >>
  PROVE  IInv'
  <1>1. Served(k', pc', job', Receivers, entry) /\ Served(k', pc', job', Senders, Size - entry)
    <2>1. Served(k, pc, job, Receivers, entry) /\ Served(k, pc, job, Senders, Size - entry)
      BY DEF IInv
    <2>. QED  BY <2>1, QuietServes
  <1>. QED  BY <1>1 DEF IInv

(***************************************************************************)
(* rt_mb_send_wait, rt_mb_send in an interrupt, rt_mb_urgent: one mail     *)
(* more, one receiver woken, and one slot less for the senders.            *)
(***************************************************************************)
LEMMA StepSend ==
  ASSUME IInv, NEW t \in Thread, NEW timeout, NEW m \in Plain, Send(t, timeout, m)
  PROVE  IInv'
  <1>1. /\ stage = "open" /\ t # Idle /\ t \notin Sleepers(k) /\ pc[t] \in {"run", "woken"}
        /\ t \notin Coming(k, pc, job, "recv")
    BY RoundFacts DEF IInv, Send, Ops
  <1>2. /\ OpOf(Receivers) = "recv" /\ Other(Receivers) = Senders
        /\ pc[t] \notin {"test", "flush"} /\ Receivers \in {Receivers, Senders}
        /\ entry \in Int /\ Size - entry \in Int
    BY <1>1, Amounts DEF OpOf, Other
  <1>3. /\ ExchangeInv(k', pc', job', stage')
        /\ Served(k', pc', job', Receivers, entry + 1)
        /\ Served(k', pc', job', Senders, Size - entry - 1)
    BY <1>1, <1>2, WakeAndReturnServes DEF IInv, Send
  <1>4. RingOK(pool', in', out', entry') /\ entry' = entry + 1
    BY StoreRing DEF IInv, Send, Mail
  <1>5. flag' = flag /\ Size - entry' = Size - entry - 1
    BY <1>4, Amounts DEF Send, WakeAndReturn
  <1>. QED  BY <1>3, <1>4, <1>5 DEF IInv

(***************************************************************************)
(* The same in an interrupt handler.                                       *)
(***************************************************************************)
LEMMA StepIrqSend ==
  ASSUME IInv, NEW m \in Plain, IrqSend(m)
  PROVE  IInv'
  <1>1. /\ stage = "open" /\ Other(Receivers) = Senders /\ Receivers \in {Receivers, Senders}
        /\ entry \in Int /\ Size - entry \in Int
    BY Amounts DEF Other, IrqSend
  <1>2. /\ ExchangeInv(k', pc', job', stage')
        /\ Served(k', pc', job', Receivers, entry + 1)
        /\ Served(k', pc', job', Senders, Size - entry - 1)
    BY <1>1, WakeFromIrqServes DEF IInv, IrqSend
  <1>3. RingOK(pool', in', out', entry') /\ entry' = entry + 1
    BY StoreRing DEF IInv, IrqSend, Mail
  <1>4. flag' = flag /\ Size - entry' = Size - entry - 1
    BY <1>3, Amounts DEF IrqSend, WakeFromIrq, exvars
  <1>. QED  BY <1>2, <1>3, <1>4 DEF IInv

(***************************************************************************)
(* The same for an urgent mail, of a thread that is in no call yet.        *)
(***************************************************************************)
LEMMA StepUrgent ==
  ASSUME IInv, NEW t \in Thread, NEW m \in Express, Urgent(t, m)
  PROVE  IInv'
  <1>1. /\ t # Idle /\ t \notin Sleepers(k) /\ pc[t] = "run" /\ job[t].op = "none"
        /\ stage = "open"
    BY CallerFacts DEF IInv, Urgent
  <1>2. /\ OpOf(Receivers) = "recv" /\ Other(Receivers) = Senders
        /\ pc[t] \notin {"test", "flush"} /\ Receivers \in {Receivers, Senders}
        /\ entry \in Int /\ Size - entry \in Int /\ t \notin Coming(k, pc, job, "recv")
    BY <1>1, Amounts DEF OpOf, Other, Coming, Comes
  <1>3. /\ ExchangeInv(k', pc', job', stage')
        /\ Served(k', pc', job', Receivers, entry + 1)
        /\ Served(k', pc', job', Senders, Size - entry - 1)
    BY <1>1, <1>2, WakeAndReturnServes DEF IInv, Urgent
  <1>4. RingOK(pool', in', out', entry') /\ entry' = entry + 1
    BY StoreUrgentRing DEF IInv, Urgent, Mail
  <1>5. flag' = flag /\ Size - entry' = Size - entry - 1
    BY <1>4, Amounts DEF Urgent, WakeAndReturn
  <1>. QED  BY <1>3, <1>4, <1>5 DEF IInv

(***************************************************************************)
(* rt_mb_recv: one mail less, and a slot more for a sender that is woken.  *)
(***************************************************************************)
LEMMA StepRecv ==
  ASSUME IInv, NEW t \in Thread, NEW timeout, Recv(t, timeout)
  PROVE  IInv'
  <1>1. /\ stage = "open" /\ t # Idle /\ t \notin Sleepers(k) /\ pc[t] \in {"run", "woken"}
        /\ t \notin Coming(k, pc, job, "send")
    BY RoundFacts DEF IInv, Recv, Ops
  <1>2. /\ OpOf(Senders) = "send" /\ Other(Senders) = Receivers
        /\ pc[t] \notin {"test", "flush"} /\ Senders \in {Receivers, Senders}
        /\ entry \in Int /\ Size - entry \in Int
    BY <1>1, Amounts DEF OpOf, Other
  <1>3. /\ ExchangeInv(k', pc', job', stage')
        /\ Served(k', pc', job', Senders, Size - entry + 1)
        /\ Served(k', pc', job', Receivers, entry - 1)
    BY <1>1, <1>2, WakeAndReturnServes DEF IInv, Recv
  <1>4. RingOK(pool', in', out', entry') /\ entry' = entry - 1
    BY FetchRing DEF IInv, Recv
  <1>5. flag' = flag /\ Size - entry' = Size - entry + 1
    BY <1>4, Amounts DEF Recv, WakeAndReturn
  <1>. QED  BY <1>3, <1>4, <1>5 DEF IInv

(***************************************************************************)
(* A call that cannot go on: a sender with a full mailbox, a receiver with *)
(* an empty one.                                                           *)
(***************************************************************************)
LEMMA Full ==
  ASSUME IInv, entry = Size
  PROVE  /\ Served(k, pc, job, Senders, 0) /\ Served(k, pc, job, Other(Senders), entry)
         /\ OpOf(Senders) = "send" /\ Senders \in {Receivers, Senders}
         /\ \A s, at, j : Served(s, at, j, Senders, 0) => Served(s, at, j, Senders, Size - entry)
         /\ \A s, at, j : Served(s, at, j, Other(Senders), entry) => Served(s, at, j, Receivers, entry)
  <1>1. Size - entry = 0
    BY Amounts
  <1>. QED  BY <1>1, Sides DEF IInv

(***************************************************************************)
(* The receiver's side of it.                                              *)
(***************************************************************************)
LEMMA Empty ==
  ASSUME IInv, entry = 0
  PROVE  /\ Served(k, pc, job, Receivers, 0) /\ Served(k, pc, job, Other(Receivers), Size - entry)
         /\ OpOf(Receivers) = "recv" /\ Receivers \in {Receivers, Senders}
         /\ \A s, at, j : Served(s, at, j, Receivers, 0) => Served(s, at, j, Receivers, entry)
         /\ \A s, at, j : Served(s, at, j, Other(Receivers), Size - entry)
                            => Served(s, at, j, Senders, Size - entry)
  BY Sides DEF IInv

(***************************************************************************)
(* rt_mb_send with a full mailbox, and rt_mb_recv with an empty one, that  *)
(* do not wait or have no time left.                                       *)
(***************************************************************************)
LEMMA StepSendFails ==
  ASSUME IInv, NEW t \in Thread, NEW m, SendFails(t, m)
  PROVE  IInv'
  <1>1. /\ Round(t, "send", "none", m) /\ entry = Size /\ Goto(t, "run") /\ Done(t) /\ k' = k
        /\ UNCHANGED << pool, in, out, entry, flag, stage >>
    BY DEF SendFails, ring
  <1>2. /\ ExchangeInv(k', pc', job', stage')
        /\ Served(k', pc', job', Senders, 0) /\ Served(k', pc', job', Other(Senders), entry)
    BY <1>1, Full, FailServes DEF IInv
  <1>. QED  BY <1>1, <1>2, Full DEF IInv

(***************************************************************************)
(* A receiver that has been woken and finds nothing notes its timeout.     *)
(***************************************************************************)
LEMMA StepRecvFails ==
  ASSUME IInv, NEW t \in Thread, RecvFails(t)
  PROVE  IInv'
  <1>1. /\ Round(t, "recv", "none", Junk) /\ entry = 0 /\ Goto(t, "run") /\ Done(t)
        /\ k' = k \/ k' = ErrSet(k, t, "timeout")
        /\ UNCHANGED << pool, in, out, entry, flag, stage >>
    BY DEF RecvFails, ring, ErrSet
  <1>2. /\ ExchangeInv(k', pc', job', stage') /\ Served(k', pc', job', Receivers, 0)
        /\ Served(k', pc', job', Other(Receivers), Size - entry)
    BY <1>1, Empty, FailServes DEF IInv
  <1>. QED  BY <1>1, <1>2, Empty DEF IInv

(***************************************************************************)
(* The waiting branches of rt_mb_send_wait and rt_mb_recv.                 *)
(***************************************************************************)
LEMMA StepSendWaits ==
  ASSUME IInv, NEW t \in Thread, NEW timeout, NEW m \in Plain, SendWaits(t, timeout, m)
  PROVE  IInv'
  <1>1. /\ Round(t, "send", timeout, m) /\ entry = Size
        /\ BlockOn(t, Senders, flag, "send", timeout, m) /\ m \in Mail \cup {Junk}
        /\ UNCHANGED << pool, in, out, entry, flag, stage >>
    BY DEF SendWaits, ring, Mail
  <1>2. /\ ExchangeInv(k', pc', job', stage')
        /\ Served(k', pc', job', Senders, 0) /\ Served(k', pc', job', Other(Senders), entry)
    BY <1>1, Full, BlockServes DEF IInv
  <1>. QED  BY <1>1, <1>2, Full DEF IInv

(***************************************************************************)
(* The waiting branch of rt_mb_recv.                                       *)
(***************************************************************************)
LEMMA StepRecvWaits ==
  ASSUME IInv, NEW t \in Thread, NEW timeout, RecvWaits(t, timeout)
  PROVE  IInv'
  <1>1. /\ Round(t, "recv", timeout, Junk) /\ entry = 0
        /\ BlockOn(t, Receivers, flag, "recv", timeout, Junk) /\ Junk \in Mail \cup {Junk}
        /\ UNCHANGED << pool, in, out, entry, flag, stage >>
    BY DEF RecvWaits, ring
  <1>2. /\ ExchangeInv(k', pc', job', stage') /\ Served(k', pc', job', Receivers, 0)
        /\ Served(k', pc', job', Other(Receivers), Size - entry)
    BY <1>1, Empty, BlockServes DEF IInv
  <1>. QED  BY <1>1, <1>2, Empty DEF IInv

(***************************************************************************)
(* rt_mb_control(RT_IPC_CMD_RESET) and rt_mb_init: nobody waits afterwards *)
(* and the ring is empty.                                                  *)
(***************************************************************************)
LEMMA StepReset ==
  ASSUME IInv, NEW t \in Thread, Reset(t) \/ Initialise(t)
  PROVE  IInv'
  <1>1. pool' = pool /\ in' = 0 /\ out' = 0 /\ entry' = 0 /\ flag' = flag
    BY DEF Reset, FailWaiters, exvars, Initialise, Reopen, Emptied
  <1>2. RingOK(pool', 0, 0, 0)
    BY <1>1, EmptiedRing DEF IInv, RingOK
  <1>3. /\ ExchangeInv(k', pc', job', stage')
        /\ \A x : Served(k', pc', job', Receivers, x) /\ Served(k', pc', job', Senders, x)
    BY ResetServes, ReopenServes DEF IInv, Reset, Initialise
  <1>. QED  BY <1>1, <1>2, <1>3 DEF IInv

(***************************************************************************)
(* rt_mb_detach begins.                                                    *)
(***************************************************************************)
LEMMA StepDetach ==
  ASSUME IInv, NEW t \in Thread, Detach(t)
  PROVE  IInv'
  <1>1. ExchangeInv(k', pc', job', stage') /\ Quiet(k, pc, job, k', pc', job')
    BY StartDetachQuiet DEF IInv, Detach
  <1>2. UNCHANGED << pool, in, out, entry, flag >>
    BY DEF Detach, StartDetach, ring
  <1>. QED  BY <1>1, <1>2, StepQuiet

-----------------------------------------------------------------------------
(* The mailbox: its theorems *)

(***************************************************************************)
(* Every step keeps the invariant.                                         *)
(***************************************************************************)
LEMMA NextInv == IInv /\ [Next]_vars => IInv'
  <1> SUFFICES ASSUME IInv, [Next]_vars PROVE IInv'
    OBVIOUS
  <1>1. ASSUME NEW t \in Thread, ThreadStep(t)
        PROVE  IInv'
    <2>1. CASE RecvFails(t) \/ Reset(t) \/ Detach(t) \/ Initialise(t)
      BY <2>1, StepRecvFails, StepReset, StepDetach
    <2>2. CASE \E timeout \in Timeouts : RecvWaits(t, timeout) \/ Recv(t, timeout)
      BY <2>2, StepRecvWaits, StepRecv
    <2>3. CASE \E m \in Express : Urgent(t, m)
      BY <2>3, StepUrgent
    <2>4. ASSUME NEW m \in Plain,
                 \/ SendFails(t, m)
                 \/ \E timeout \in Timeouts : SendWaits(t, timeout, m) \/ Send(t, timeout, m)
          PROVE  IInv'
      BY <2>4, StepSendFails, StepSendWaits, StepSend
    <2>5. CASE WaiterStep(t) /\ UNCHANGED ring
      <3>1. ExchangeInv(k', pc', job', stage') /\ Quiet(k, pc, job, k', pc', job')
        BY <2>5, WaiterStepQuiet DEF IInv
      <3>2. flag' = flag
        BY <2>5 DEF WaiterStep, SweepNext, Sweep, FlushWaiter, exvars
      <3>. QED  BY <2>5, <3>1, <3>2, StepQuiet DEF ring
    <2>. QED  BY <1>1, <2>1, <2>2, <2>3, <2>4, <2>5 DEF ThreadStep
  <1>2. ASSUME NEW m \in Plain, IrqSend(m)
        PROVE  IInv'
    BY <1>2, StepIrqSend
  <1>3. CASE ClockStep /\ UNCHANGED ring
    <2>1. ExchangeInv(k', pc', job', stage') /\ Quiet(k, pc, job, k', pc', job')
      BY <1>3, ClockStepQuiet DEF IInv
    <2>2. flag' = flag
      BY <1>3 DEF ClockStep, exvars
    <2>. QED  BY <1>3, <2>1, <2>2, StepQuiet DEF ring
  <1>4. CASE UNCHANGED vars
    BY <1>4 DEF vars, IInv, Served
  <1>. QED  BY <1>1, <1>2, <1>3, <1>4 DEF Next

(***************************************************************************)
(* The invariant always holds.                                             *)
(***************************************************************************)
THEOREM SpecIInv == Spec => []IInv
  <1>1. Init => IInv
    BY InitInv
  <1>2. IInv /\ [Next]_vars => IInv'
    BY NextInv
  <1>. QED  BY <1>1, <1>2, PTL DEF Spec

(***************************************************************************)
(* In the functions of the mailbox no thread is at the point where the     *)
(* message queue copies.                                                   *)
(***************************************************************************)
LEMMA PointsKept == pc \in [Thread -> IpcPC] /\ [Next]_vars => pc' \in [Thread -> IpcPC]
  <1> SUFFICES ASSUME pc \in [Thread -> IpcPC], [Next]_vars PROVE pc' \in [Thread -> IpcPC]
    OBVIOUS
  <1>1. ASSUME NEW t \in Thread, NEW p \in IpcPC, Goto(t, p)
        PROVE  pc' \in [Thread -> IpcPC]
    BY <1>1 DEF Goto
  <1>2. {"run", "sched", "block", "woken", "nap", "slept", "test", "flush"} \subseteq IpcPC
    BY DEF IpcPC
  <1>3. ASSUME NEW t \in Thread, ThreadStep(t)
        PROVE  \/ UNCHANGED pc
               \/ \E p \in {"run", "sched", "block", "woken", "nap", "slept", "test", "flush"} : Goto(t, p)
    <2>1. CASE \/ RecvFails(t) \/ Reset(t) \/ Detach(t) \/ Initialise(t)
               \/ \E timeout \in Timeouts : RecvWaits(t, timeout) \/ Recv(t, timeout)
      BY <2>1 DEF RecvFails, Reset, FailWaiters, Detach, StartDetach, Initialise, Reopen,
                  RecvWaits, BlockOn, Recv, WakeAndReturn
    <2>2. CASE \E m \in Express : Urgent(t, m)
      BY <2>2 DEF Urgent, WakeAndReturn
    <2>3. ASSUME NEW m \in Plain,
                 \/ SendFails(t, m)
                 \/ \E timeout \in Timeouts : SendWaits(t, timeout, m) \/ Send(t, timeout, m)
          PROVE  \E p \in {"run", "sched", "block", "woken", "nap", "slept", "test", "flush"} : Goto(t, p)
      BY <2>3 DEF SendFails, SendWaits, BlockOn, Send, WakeAndReturn
    <2>4. CASE WaiterStep(t)
      <3>1. CASE CallFails(t) \/ SweepNext(t) \/ Sweep(t) \/ FlushWaiter(t)
        BY <3>1 DEF CallFails, SweepNext, Sweep, TestList, FlushWaiter, FlushOne
      <3>2. CASE DoSchedule(t)
        BY <3>2 DEF DoSchedule, AfterSchedule
      <3>3. CASE Sleep(t) \/ SleepReturns(t)
        BY <3>3 DEF Sleep, SleepReturns
      <3>. QED  BY <2>4, <3>1, <3>2, <3>3 DEF WaiterStep
    <2>. QED  BY <1>3, <2>1, <2>2, <2>3, <2>4 DEF ThreadStep
  <1>4. CASE (\E m \in Plain : IrqSend(m)) \/ ClockStep \/ UNCHANGED vars
    BY <1>4 DEF IrqSend, WakeFromIrq, ClockStep, Tick, TickTimeout, vars
  <1>. QED  BY <1>1, <1>2, <1>3, <1>4 DEF Next

(***************************************************************************)
(* The state always has its type: the offsets of the ring stay in the pool *)
(* and the count within its size, in every order of the calls.             *)
(***************************************************************************)
THEOREM TypeCorrect == Spec => []TypeOK
  <1>1. Init => pc \in [Thread -> IpcPC]
    BY DEF Init, ExchangeInit, IpcInit, IpcPC
  <1>2. pc \in [Thread -> IpcPC] /\ [Next]_vars => (pc \in [Thread -> IpcPC])'
    BY PointsKept
  <1>3. IInv /\ pc \in [Thread -> IpcPC] => TypeOK
    BY ExchangeSays DEF IInv, TypeOK, RingOK
  <1>. QED  BY <1>1, <1>2, <1>3, SpecIInv, PTL DEF Spec

(***************************************************************************)
(* A thread suspended in rt_mb_send_wait or rt_mb_recv is always in the    *)
(* list of its side, and its timer runs when its wait is limited.          *)
(***************************************************************************)
THEOREM WaitersAlwaysListed == Spec => []WaitersListed
  <1>1. IInv => WaitersListed
    BY ExchangeSays DEF IInv
  <1>. QED  BY <1>1, SpecIInv, PTL

(***************************************************************************)
(* While a receiver waits there are no more mails than receivers that were *)
(* woken and have not come back.                                           *)
(***************************************************************************)
THEOREM NeverStrandedMail == Spec => []NoStrandedMail
  <1>1. IInv => NoStrandedMail
    BY Amounts, ServedSays, Sides DEF NoStrandedMail, IInv
  <1>. QED  BY <1>1, SpecIInv, PTL

(***************************************************************************)
(* While a sender waits there are no more free slots than senders that     *)
(* were woken and have not come back.                                      *)
(***************************************************************************)
THEOREM NeverIdleSlot == Spec => []NoIdleSlot
  <1>1. IInv => NoIdleSlot
    BY Amounts, ServedSays, Sides DEF NoIdleSlot, IInv
  <1>. QED  BY <1>1, SpecIInv, PTL

-----------------------------------------------------------------------------
(* The mailbox implements MailboxSpec *)

(* the slot i places behind slot o *)
At(o, i) == IF o + i < Size THEN o + i ELSE o + i - Size

(* the mails in a pool p, the e of them from slot o on *)
BoxOf(p, o, e) == [i \in 1 .. e |-> p[At(o, i - 1)]]

(***************************************************************************)
(* The box, without the remainder.                                         *)
(***************************************************************************)
LEMMA BoxIs ==
  ASSUME NEW p, NEW i, NEW o, NEW e, RingOK(p, i, o, e)
  PROVE  /\ [j \in 1 .. e |-> p[(o + j - 1) % Size]] = BoxOf(p, o, e)
         /\ BoxOf(p, o, e) \in Seq(Mail \cup {Junk}) /\ Len(BoxOf(p, o, e)) = e
         /\ o \in 0 .. Size - 1 /\ e \in 0 .. Size /\ Size \in Nat \ {0} /\ i = At(o, e)
         /\ DOMAIN p = 0 .. Size - 1
  <1>1. /\ o \in 0 .. Size - 1 /\ e \in 0 .. Size /\ Size \in Nat \ {0}
        /\ p \in [0 .. Size - 1 -> Mail \cup {Junk}]
    BY SizeFacts DEF RingOK, Slot
  <1>2. \A j \in 0 .. Size : (o + j) % Size = At(o, j)
    BY <1>1, Wrap DEF At, Slot
  <1>3. ASSUME NEW j \in 1 .. e
        PROVE  (o + j - 1) % Size = At(o, j - 1) /\ At(o, j - 1) \in 0 .. Size - 1
    <2>1. j - 1 \in 0 .. Size /\ o + j - 1 = o + (j - 1)
      BY <1>1
    <2>2. At(o, j - 1) \in 0 .. Size - 1
      BY <1>1, <2>1 DEF At
    <2>. QED  BY <2>1, <2>2, <1>2
  <1>4. [j \in 1 .. e |-> p[(o + j - 1) % Size]] = BoxOf(p, o, e)
    BY <1>3 DEF BoxOf
  <1>5. BoxOf(p, o, e) \in [1 .. e -> Mail \cup {Junk}]
    BY <1>1, <1>3 DEF BoxOf
  <1>6. BoxOf(p, o, e) \in Seq(Mail \cup {Junk}) /\ Len(BoxOf(p, o, e)) = e
    BY <1>1, <1>5
  <1>7. i = At(o, e)
    BY <1>1, <1>2 DEF RingOK
  <1>. QED  BY <1>1, <1>4, <1>6, <1>7

(***************************************************************************)
(* The box before and after a step.                                        *)
(***************************************************************************)
LEMMA BoxFacts ==
  ASSUME RingOK(pool, in, out, entry), RingOK(pool', in', out', entry')
  PROVE  /\ Box = BoxOf(pool, out, entry) /\ Box' = BoxOf(pool', out', entry')
         /\ Box \in Seq(Mail \cup {Junk}) /\ Len(Box) = entry
         /\ Box' \in Seq(Mail \cup {Junk}) /\ Len(Box') = entry'
         /\ out \in 0 .. Size - 1 /\ out' \in 0 .. Size - 1 /\ entry \in 0 .. Size
         /\ Size \in Nat \ {0} /\ in = At(out, entry) /\ DOMAIN pool = 0 .. Size - 1
  <1>1. /\ [j \in 1 .. entry |-> pool[(out + j - 1) % Size]] = BoxOf(pool, out, entry)
        /\ BoxOf(pool, out, entry) \in Seq(Mail \cup {Junk}) /\ Len(BoxOf(pool, out, entry)) = entry
        /\ out \in 0 .. Size - 1 /\ entry \in 0 .. Size
        /\ Size \in Nat \ {0} /\ in = At(out, entry) /\ DOMAIN pool = 0 .. Size - 1
    BY BoxIs
  <1>2. Box = BoxOf(pool, out, entry)
    BY <1>1 DEF Box
  <1>3. /\ [j \in 1 .. entry' |-> pool'[(out' + j - 1) % Size]] = BoxOf(pool', out', entry')
        /\ BoxOf(pool', out', entry') \in Seq(Mail \cup {Junk})
        /\ Len(BoxOf(pool', out', entry')) = entry' /\ out' \in 0 .. Size - 1
    BY BoxIs
  <1>4. Box' = BoxOf(pool', out', entry')
    BY <1>3 DEF Box
  <1>. QED  BY <1>1, <1>2, <1>3, <1>4

(***************************************************************************)
(* Storing a mail behind the newest one.                                   *)
(***************************************************************************)
LEMMA StorePuts ==
  ASSUME IInv, IInv', NEW m \in Plain, Store(m)
  PROVE  Promise!Put(m)
  <1>1. /\ RingOK(pool, in, out, entry) /\ RingOK(pool', in', out', entry')
        /\ pool' = [pool EXCEPT ![in] = m] /\ entry' = entry + 1 /\ out' = out /\ entry # Size
    BY DEF IInv, Store
  <1>2. /\ Box = BoxOf(pool, out, entry) /\ Box' = BoxOf(pool', out', entry')
        /\ Box \in Seq(Mail \cup {Junk}) /\ Len(Box) = entry
        /\ Box' \in Seq(Mail \cup {Junk}) /\ Len(Box') = entry + 1
        /\ out \in 0 .. Size - 1 /\ entry \in 0 .. Size /\ Size \in Nat \ {0}
        /\ in = At(out, entry) /\ DOMAIN pool = 0 .. Size - 1
    BY <1>1, BoxFacts
  <1>3. Append(Box, m) \in Seq(Mail \cup {Junk}) /\ Len(Append(Box, m)) = entry + 1
    BY <1>2, AppendProperties DEF Mail
  <1>4. ASSUME NEW j \in 1 .. entry + 1
        PROVE  Box'[j] = Append(Box, m)[j]
    <2>1. Box'[j] = pool'[At(out, j - 1)]
      BY <1>1, <1>2 DEF BoxOf
    <2>2. CASE j = entry + 1
      <3>1. j - 1 = entry /\ in \in 0 .. Size - 1
        BY <1>1, <1>2, <2>2 DEF RingOK, Slot
      <3>2. Box'[j] = m
        BY <1>1, <1>2, <2>1, <3>1
      <3>3. Append(Box, m)[j] = m
        BY <1>2, <2>2
      <3>. QED  BY <3>2, <3>3
    <2>3. CASE j # entry + 1
      <3>1. j \in 1 .. entry
        BY <1>2, <2>3
      <3>2. At(out, j - 1) # in
        BY <1>1, <1>2, <3>1 DEF At
      <3>3. Box'[j] = pool[At(out, j - 1)] /\ Box[j] = pool[At(out, j - 1)]
        BY <1>1, <1>2, <2>1, <3>1, <3>2 DEF BoxOf
      <3>4. Append(Box, m)[j] = Box[j]
        BY <1>2, <3>1
      <3>. QED  BY <3>3, <3>4
    <2>. QED  BY <2>2, <2>3
  <1>5. Box' = Append(Box, m)
    BY <1>2, <1>3, <1>4, SeqEqual
  <1>6. Len(Box) < Size
    BY <1>1, <1>2
  <1>. QED  BY <1>5, <1>6 DEF Promise!Put

(***************************************************************************)
(* Storing a mail in front of the oldest one.                              *)
(***************************************************************************)
LEMMA StoreUrgentPuts ==
  ASSUME IInv, IInv', NEW m \in Express, StoreUrgent(m)
  PROVE  Promise!PutUrgent(m)
  <1>1. /\ RingOK(pool, in, out, entry) /\ RingOK(pool', in', out', entry')
        /\ pool' = [pool EXCEPT ![out'] = m] /\ entry' = entry + 1 /\ entry # Size
        /\ out' = IF out > 0 THEN out - 1 ELSE Size - 1
    BY DEF IInv, StoreUrgent, Before1
  <1>2. /\ Box = BoxOf(pool, out, entry) /\ Box' = BoxOf(pool', out', entry')
        /\ Box \in Seq(Mail \cup {Junk}) /\ Len(Box) = entry
        /\ Box' \in Seq(Mail \cup {Junk}) /\ Len(Box') = entry + 1
        /\ out \in 0 .. Size - 1 /\ out' \in 0 .. Size - 1
        /\ entry \in 0 .. Size /\ Size \in Nat \ {0} /\ DOMAIN pool = 0 .. Size - 1
    BY <1>1, BoxFacts
  <1>3. << m >> \in Seq(Mail \cup {Junk}) /\ Len(<< m >>) = 1 /\ << m >>[1] = m
    BY DEF Mail
  <1>4. /\ << m >> \o Box \in Seq(Mail \cup {Junk}) /\ Len(<< m >> \o Box) = entry + 1
        /\ \A j \in 1 .. entry + 1 :
             (<< m >> \o Box)[j] = IF j <= 1 THEN << m >>[j] ELSE Box[j - 1]
    BY <1>2, <1>3, ConcatProperties
  <1>5. ASSUME NEW j \in 1 .. entry + 1
        PROVE  Box'[j] = (<< m >> \o Box)[j]
    <2>1. Box'[j] = pool'[At(out', j - 1)]
      BY <1>1, <1>2 DEF BoxOf
    <2>2. CASE j = 1
      <3>1. At(out', j - 1) = out'
        <4>1. PICK o \in 0 .. Size - 1 : o = out'
          BY <1>2
        <4>2. At(o, 0) = o /\ j - 1 = 0
          BY <1>2, <2>2 DEF At
        <4>. QED  BY <4>1, <4>2
      <3>2. Box'[j] = m
        BY <1>1, <1>2, <2>1, <3>1
      <3>3. (<< m >> \o Box)[j] = m
        BY <1>3, <1>4, <2>2
      <3>. QED  BY <3>2, <3>3
    <2>3. CASE j # 1
      <3>1. j - 1 \in 1 .. entry /\ ~ (j <= 1)
        BY <1>2, <2>3
      <3>2. At(out', j - 1) = At(out, j - 1 - 1) /\ At(out', j - 1) # out'
        BY <1>1, <1>2, <3>1 DEF At
      <3>3. Box'[j] = pool[At(out, j - 1 - 1)]
        BY <1>1, <1>2, <2>1, <3>2
      <3>4. Box[j - 1] = pool[At(out, j - 1 - 1)]
        BY <1>2, <3>1 DEF BoxOf
      <3>. QED  BY <1>4, <3>1, <3>3, <3>4
    <2>. QED  BY <2>2, <2>3
  <1>6. Box' = << m >> \o Box
    BY <1>2, <1>4, <1>5, SeqEqual
  <1>7. Len(Box) < Size
    BY <1>1, <1>2
  <1>. QED  BY <1>6, <1>7 DEF Promise!PutUrgent

(***************************************************************************)
(* Fetching the oldest mail.                                               *)
(***************************************************************************)
LEMMA FetchGets ==
  ASSUME IInv, IInv', Fetch
  PROVE  Promise!Get
  <1>1. /\ RingOK(pool, in, out, entry) /\ RingOK(pool', in', out', entry')
        /\ pool' = pool /\ entry' = entry - 1 /\ entry # 0
        /\ out' = IF out + 1 >= Size THEN 0 ELSE out + 1
    BY DEF IInv, Fetch, Next1
  <1>2. /\ Box = BoxOf(pool, out, entry) /\ Box' = BoxOf(pool', out', entry')
        /\ Box \in Seq(Mail \cup {Junk}) /\ Len(Box) = entry
        /\ Box' \in Seq(Mail \cup {Junk}) /\ Len(Box') = entry - 1
        /\ out \in 0 .. Size - 1 /\ entry \in 0 .. Size /\ Size \in Nat \ {0}
    BY <1>1, BoxFacts
  <1>3. Box # << >>
    BY <1>1, <1>2, EmptySeq
  <1>4. /\ Tail(Box) \in Seq(Mail \cup {Junk}) /\ Len(Tail(Box)) = entry - 1
        /\ \A j \in 1 .. entry - 1 : Tail(Box)[j] = Box[j + 1]
    BY <1>2, <1>3, HeadTailProperties
  <1>5. ASSUME NEW j \in 1 .. entry - 1
        PROVE  Box'[j] = Tail(Box)[j]
    <2>1. Box'[j] = pool[At(out', j - 1)]
      BY <1>1, <1>2 DEF BoxOf
    <2>2. j + 1 \in 1 .. entry /\ At(out', j - 1) = At(out, j + 1 - 1)
      BY <1>1, <1>2 DEF At
    <2>3. Box[j + 1] = pool[At(out, j + 1 - 1)]
      BY <1>2, <2>2 DEF BoxOf
    <2>. QED  BY <1>4, <2>1, <2>2, <2>3
  <1>6. Box' = Tail(Box)
    BY <1>2, <1>4, <1>5, SeqEqual
  <1>. QED  BY <1>3, <1>6 DEF Promise!Get

(***************************************************************************)
(* An empty ring is an empty box.                                          *)
(***************************************************************************)
LEMMA EmptiedClears ==
  ASSUME IInv', entry' = 0
  PROVE  Promise!Clear
  <1>1. Box' \in Seq(Mail \cup {Junk}) /\ Len(Box') = 0
    BY BoxIs DEF Box, IInv
  <1>2. Box' = << >>
    BY <1>1, EmptySeq
  <1>. QED  BY <1>2 DEF Promise!Clear

(***************************************************************************)
(* The steps that leave the ring alone.                                    *)
(***************************************************************************)
LEMMA BoxKept ==
  ASSUME UNCHANGED << pool, in, out, entry >>
  PROVE  UNCHANGED Box
  BY DEF Box

(***************************************************************************)
(* Every step of the mailbox is one of the promise, or none.               *)
(***************************************************************************)
LEMMA NextPromise == IInv /\ [Next]_vars => [Promise!Next]_Box
  <1> SUFFICES ASSUME IInv, [Next]_vars PROVE Promise!Next \/ UNCHANGED Box
    OBVIOUS
  <1>1. IInv'
    BY NextInv
  <1>2. ASSUME NEW t \in Thread, ThreadStep(t)
        PROVE  Promise!Next \/ UNCHANGED Box
    <2>1. CASE RecvFails(t) \/ Detach(t) \/ (WaiterStep(t) /\ UNCHANGED ring)
      BY <2>1, BoxKept DEF RecvFails, Detach, ring
    <2>2. CASE Reset(t) \/ Initialise(t)
      <3>1. entry' = 0
        BY <2>2 DEF Reset, Initialise, Emptied
      <3>. QED  BY <3>1, <1>1, EmptiedClears DEF Promise!Next
    <2>3. ASSUME NEW timeout \in Timeouts, RecvWaits(t, timeout) \/ Recv(t, timeout)
          PROVE  Promise!Next \/ UNCHANGED Box
      <3>1. CASE RecvWaits(t, timeout)
        BY <3>1, BoxKept DEF RecvWaits, ring
      <3>2. CASE Recv(t, timeout)
        BY <3>2, <1>1, FetchGets DEF Recv, Promise!Next
      <3>. QED  BY <2>3, <3>1, <3>2
    <2>4. ASSUME NEW m \in Express, Urgent(t, m)
          PROVE  Promise!Next
      BY <2>4, <1>1, StoreUrgentPuts DEF Urgent, Promise!Next
    <2>5. ASSUME NEW m \in Plain,
                 \/ SendFails(t, m)
                 \/ \E timeout \in Timeouts : SendWaits(t, timeout, m) \/ Send(t, timeout, m)
          PROVE  Promise!Next \/ UNCHANGED Box
      <3>1. CASE SendFails(t, m)
        BY <3>1, BoxKept DEF SendFails, ring
      <3>2. CASE \E timeout \in Timeouts : SendWaits(t, timeout, m)
        BY <3>2, BoxKept DEF SendWaits, ring
      <3>3. CASE \E timeout \in Timeouts : Send(t, timeout, m)
        BY <3>3, <1>1, StorePuts DEF Send, Promise!Next
      <3>. QED  BY <2>5, <3>1, <3>2, <3>3
    <2>. QED  BY <1>2, <2>1, <2>2, <2>3, <2>4, <2>5 DEF ThreadStep
  <1>3. ASSUME NEW m \in Plain, IrqSend(m)
        PROVE  Promise!Next
    BY <1>1, <1>3, StorePuts DEF IrqSend, Promise!Next
  <1>4. CASE (ClockStep /\ UNCHANGED ring) \/ UNCHANGED vars
    BY <1>4, BoxKept DEF ring, vars
  <1>. QED  BY <1>2, <1>3, <1>4 DEF Next

(***************************************************************************)
(* The mailbox implements MailboxSpec: no mail is lost, doubled or         *)
(* invented, and the order is kept, where the offsets wrap and where       *)
(* sends, receives, resets and interrupts meet.                            *)
(***************************************************************************)
THEOREM OrderKept == Spec => KeepsOrder
  <1>1. Init => Promise!Init
    <2> SUFFICES ASSUME Init PROVE Box = << >>
      BY DEF Promise!Init
    <2>1. IInv /\ entry = 0
      BY InitInv DEF Init
    <2>2. Box \in Seq(Mail \cup {Junk}) /\ Len(Box) = 0
      BY <2>1, BoxIs DEF Box, IInv
    <2>. QED  BY <2>2, EmptySeq
  <1>2. IInv /\ [Next]_vars => [Promise!Next]_Box
    BY NextPromise
  <1>. QED  BY <1>1, <1>2, SpecIInv, PTL DEF Spec, KeepsOrder, Promise!Spec
-----------------------------------------------------------------------------
(* The lists of slots of the message queue *)

(* The element of a list at place i, if there is one *)
Nth(q, i) == IF i \in 1 .. Len(q) THEN q[i] ELSE Null

(* From start the next pointers lead through the slots of q. *)
IsChain(links, start, q) ==
  /\ start = Nth(q, 1)
  /\ \A i \in 1 .. Len(q) : links[q[i]] = Nth(q, i + 1)

(* The next pointers once slot x points to y, and once x follows the end *)
Pointed(links, x, y) == [links EXCEPT ![x] = y]

Followed(links, end, x) == IF end # Null THEN [links EXCEPT ![end] = x] ELSE links

(* A list of slots, each of them once *)
SlotList(q) == q \in Seq(MqSlot) /\ IsInjective(q)

(***************************************************************************)
(* Places in a list, and the null pointer, which is no slot.               *)
(***************************************************************************)
LEMMA NthFacts ==
  ASSUME NEW q \in Seq(MqSlot)
  PROVE  /\ Len(q) \in Nat /\ DOMAIN q = 1 .. Len(q) /\ Null \notin MqSlot
         /\ \A i \in 1 .. Len(q) : q[i] \in MqSlot /\ q[i] \in Range(q) /\ Nth(q, i) = q[i]
         /\ \A i : i \notin 1 .. Len(q) => Nth(q, i) = Null
         /\ \A i : Nth(q, i) \in Link
         /\ Nth(q, 1) = Null <=> q = << >>
         /\ q = << >> <=> Len(q) = 0
         /\ \A x \in Range(q) : x \in MqSlot /\ \E i \in 1 .. Len(q) : x = q[i]
  <1>1. Len(q) \in Nat /\ DOMAIN q = 1 .. Len(q) /\ (q = << >> <=> Len(q) = 0)
    BY LenProperties, EmptySeq
  <1>2. Null \notin MqSlot
    BY QueueAssumption DEF MqSlot
  <1>3. \A i \in 1 .. Len(q) : q[i] \in MqSlot /\ q[i] \in Range(q)
    BY <1>1, ElementOfSeq DEF Range
  <1>4. \A x \in Range(q) : x \in MqSlot /\ \E i \in 1 .. Len(q) : x = q[i]
    BY <1>1, <1>3 DEF Range
  <1>5. Nth(q, 1) = Null <=> q = << >>
    BY <1>1, <1>2, <1>3 DEF Nth
  <1>. QED  BY <1>1, <1>2, <1>3, <1>4, <1>5 DEF Nth, Link

(***************************************************************************)
(* How many places there are up to n.                                      *)
(***************************************************************************)
LEMMA UpTo ==
  ASSUME NEW n \in Nat
  PROVE  IsFiniteSet(1 .. n) /\ Cardinality(1 .. n) = n
  <1>1. 1 \in Int /\ n \in Int
    OBVIOUS
  <1>2. IsFiniteSet(1 .. n) /\ Cardinality(1 .. n) = IF 1 > n THEN 0 ELSE n - 1 + 1
    BY <1>1, FS_Interval
  <1>. QED  BY <1>2

(***************************************************************************)
(* There are no more slots in a list than in the pool.                     *)
(***************************************************************************)
LEMMA SlotListBound ==
  ASSUME NEW q, SlotList(q)
  PROVE  Len(q) <= Size
  <1>1. Len(q) \in Nat /\ q \in [1 .. Len(q) -> MqSlot] /\ Size \in Nat
    BY LenProperties, SizeFacts, SeqDef DEF SlotList
  <1>2. /\ IsFiniteSet(1 .. Len(q)) /\ Cardinality(1 .. Len(q)) = Len(q)
        /\ IsFiniteSet(MqSlot) /\ Cardinality(MqSlot) = Size
    BY <1>1, UpTo DEF MqSlot
  <1>3. SUFFICES ASSUME Size < Len(q) PROVE FALSE
    BY <1>1
  <1>4. \E i, j \in 1 .. Len(q) : i # j /\ q[i] = q[j]
    BY <1>1, <1>2, <1>3, FS_PigeonHole
  <1>5. DOMAIN q = 1 .. Len(q)
    BY LenProperties DEF SlotList
  <1>. QED  BY <1>4, <1>5 DEF SlotList, IsInjective

(***************************************************************************)
(* Following the next pointers ends after at most Size slots and finds     *)
(* exactly the slots of the list.                                          *)
(***************************************************************************)
LEMMA ChainIs ==
  ASSUME NEW links, NEW start, NEW q, SlotList(q), IsChain(links, start, q)
  PROVE  Chain(links, start) = q
  <1> DEFINE step(g) == [n \in 1 .. Size + 1 |->
                           IF n = 1 THEN start
                           ELSE IF g[n - 1] = Null THEN Null ELSE links[g[n - 1]]]
             at == CHOOSE g : g = step(g)
             along == [n \in 1 .. Size + 1 |-> Nth(q, n)]
  <1>1. /\ q \in Seq(MqSlot) /\ Len(q) \in Nat /\ Len(q) <= Size /\ Size \in Nat \ {0}
        /\ Null \notin MqSlot /\ DOMAIN q = 1 .. Len(q)
    BY SlotListBound, SizeFacts, NthFacts DEF SlotList
  <1>2. \A i \in 1 .. Len(q) : q[i] \in MqSlot /\ Nth(q, i) = q[i]
    BY <1>1, NthFacts
  <1>3. ASSUME NEW n \in 1 .. Size + 1, n # 1
        PROVE  Nth(q, n) = IF Nth(q, n - 1) = Null THEN Null ELSE links[Nth(q, n - 1)]
    <2>1. n - 1 \in 1 .. Size /\ (n - 1) + 1 = n
      BY <1>1, <1>3
    <2>2. CASE n - 1 \in 1 .. Len(q)
      BY <1>1, <1>2, <2>1, <2>2 DEF IsChain
    <2>3. CASE n - 1 \notin 1 .. Len(q)
      BY <1>1, <2>1, <2>3 DEF Nth
    <2>. QED  BY <2>2, <2>3
  <1>4. along = step(along)
    <2>1. \A n \in 1 .. Size + 1 : along[n] = Nth(q, n)
      OBVIOUS
    <2>2. \A n \in 1 .. Size + 1 : n # 1 => n - 1 \in 1 .. Size + 1
      BY <1>1
    <2>3. start = Nth(q, 1)
      BY DEF IsChain
    <2>4. \A n \in 1 .. Size + 1 : along[n] = step(along)[n]
      <3>. SUFFICES ASSUME NEW n \in 1 .. Size + 1 PROVE along[n] = step(along)[n]
        OBVIOUS
      <3>1. CASE n = 1
        BY <2>1, <2>3, <3>1
      <3>2. CASE n # 1
        <4>1. along[n - 1] = Nth(q, n - 1) /\ along[n] = Nth(q, n)
          BY <2>1, <2>2, <3>2
        <4>2. step(along)[n] = IF along[n - 1] = Null THEN Null ELSE links[along[n - 1]]
          BY <3>2
        <4>. HIDE DEF along, step
        <4>. QED  BY <1>3, <3>2, <4>1, <4>2
      <3>. QED  BY <3>1, <3>2
    <2>. HIDE DEF step
    <2>5. step(along) = [n \in 1 .. Size + 1 |-> step(along)[n]]
      BY DEF step
    <2>. QED  BY <2>4, <2>5
  <1>5. at = step(at)
    BY <1>4
  <1>6. Chain(links, start) = [n \in 1 .. Cardinality({i \in 1 .. Size + 1 : at[i] # Null}) |-> at[n]]
    BY DEF Chain
  <1>7. /\ \A n \in 1 .. Size + 1 : n = 1 => at[n] = start
        /\ \A n \in 1 .. Size + 1 : n # 1 =>
             at[n] = IF at[n - 1] = Null THEN Null ELSE links[at[n - 1]]
    <2>. HIDE DEF at
    <2>. QED  BY <1>5
  <1>. HIDE DEF at, along, step
  <1>8. \A n \in 1 .. Size + 1 : at[n] = Nth(q, n)
    <2> DEFINE wrong == {n \in 1 .. Size + 1 : at[n] # Nth(q, n)}
    <2>1. SUFFICES ASSUME wrong # {} PROVE FALSE
      OBVIOUS
    <2>2. PICK n : n \in wrong /\ \A y \in wrong : n <= y
      <3>1. wrong \subseteq Nat
        BY <1>1
      <3>. QED  BY <2>1, <3>1, MinInSet
    <2>3. n \in 1 .. Size + 1 /\ at[n] # Nth(q, n)
      BY <2>2
    <2>4. n # 1
      BY <2>3, <1>7 DEF IsChain
    <2>5. n - 1 \in 1 .. Size + 1 /\ ~ (n <= n - 1)
      BY <1>1, <2>3, <2>4
    <2>6. at[n - 1] = Nth(q, n - 1)
      BY <2>2, <2>5
    <2>. QED  BY <1>3, <1>7, <2>3, <2>4, <2>6
  <1>9. {i \in 1 .. Size + 1 : at[i] # Null} = 1 .. Len(q)
    <2>1. \A i \in 1 .. Size + 1 : at[i] # Null <=> i \in 1 .. Len(q)
      BY <1>1, <1>2, <1>8 DEF Nth
    <2>2. 1 .. Len(q) \subseteq 1 .. Size + 1
      BY <1>1
    <2>. QED  BY <2>1, <2>2
  <1>10. Cardinality(1 .. Len(q)) = Len(q)
    BY <1>1, UpTo
  <1>11. \A i \in 1 .. Len(q) : at[i] = q[i]
    BY <1>1, <1>2, <1>8
  <1>12. Chain(links, start) = [n \in 1 .. Len(q) |-> q[n]]
    BY <1>6, <1>9, <1>10, <1>11
  <1>13. q = [n \in 1 .. Len(q) |-> q[n]]
    BY <1>1, SeqDef
  <1>. QED  BY <1>12, <1>13

(***************************************************************************)
(* A list does not notice that the pointers of other slots change.         *)
(***************************************************************************)
LEMMA ChainKept ==
  ASSUME NEW links, NEW start, NEW q, SlotList(q), IsChain(links, start, q),
         NEW new, \A x \in Range(q) : new[x] = links[x]
  PROVE  IsChain(new, start, q)
  <1>1. \A i \in 1 .. Len(q) : q[i] \in Range(q)
    BY NthFacts DEF SlotList
  <1>. QED  BY <1>1 DEF IsChain

(***************************************************************************)
(* Without its first slot the list begins where that one points.           *)
(***************************************************************************)
LEMMA ChainTail ==
  ASSUME NEW links, NEW start, NEW q, SlotList(q), IsChain(links, start, q), start # Null
  PROVE  /\ q # << >> /\ start = q[1] /\ start = Head(q) /\ start \in Range(q)
         /\ Tail(q) \in Seq(MqSlot) /\ Len(Tail(q)) = Len(q) - 1
         /\ SlotList(Tail(q)) /\ IsChain(links, links[start], Tail(q))
         /\ Range(Tail(q)) = Range(q) \ {start}
         /\ \A i \in 1 .. Len(q) - 1 : Tail(q)[i] = q[i + 1]
         /\ Nth(Tail(q), Len(Tail(q))) = IF Nth(q, Len(q)) = start THEN Null ELSE Nth(q, Len(q))
  <1>1. q \in Seq(MqSlot) /\ q # << >> /\ start = q[1] /\ Len(q) \in Nat \ {0} /\ start \in Range(q)
    BY NthFacts DEF SlotList, IsChain, Nth
  <1>2. PICK r : r = Tail(q)
    OBVIOUS
  <1>3. /\ r \in Seq(MqSlot) /\ Len(r) = Len(q) - 1 /\ start = Head(q)
        /\ \A i \in 1 .. Len(q) - 1 : r[i] = q[i + 1]
    BY <1>1, <1>2, HeadTailProperties
  <1>4. \A i, j \in 1 .. Len(q) : q[i] = q[j] => i = j
    BY <1>1, LenProperties DEF SlotList, IsInjective
  <1>5. SlotList(r)
    <2>1. DOMAIN r = 1 .. Len(q) - 1
      BY <1>3, LenProperties
    <2>2. ASSUME NEW i \in 1 .. Len(q) - 1, NEW j \in 1 .. Len(q) - 1, r[i] = r[j]
          PROVE  i = j
      <3>1. i + 1 \in 1 .. Len(q) /\ j + 1 \in 1 .. Len(q) /\ q[i + 1] = q[j + 1]
        BY <1>1, <1>3, <2>2
      <3>2. i + 1 = j + 1
        BY <1>4, <3>1
      <3>. QED  BY <3>2
    <2>. QED  BY <1>3, <2>1, <2>2 DEF SlotList, IsInjective
  <1>6. \A i \in 1 .. Len(q) : Nth(r, i) = Nth(q, i + 1)
    BY <1>1, <1>3 DEF Nth
  <1>7. IsChain(links, links[start], r)
    <2>1. links[start] = Nth(q, 1 + 1) /\ 1 \in 1 .. Len(q)
      BY <1>1 DEF IsChain
    <2>2. links[start] = Nth(r, 1)
      BY <1>6, <2>1
    <2>3. ASSUME NEW i \in 1 .. Len(r)
          PROVE  links[r[i]] = Nth(r, i + 1)
      <3>1. i + 1 \in 1 .. Len(q) /\ r[i] = q[i + 1]
        BY <1>1, <1>3
      <3>2. links[q[i + 1]] = Nth(q, i + 1 + 1)
        BY <3>1 DEF IsChain
      <3>. QED  BY <1>6, <3>1, <3>2
    <2>. QED  BY <2>2, <2>3 DEF IsChain
  <1>8. Range(r) = Range(q) \ {start}
    <2>1. ASSUME NEW x, x \in Range(r)
          PROVE  x \in Range(q) \ {start}
      <3>1. PICK i \in 1 .. Len(r) : x = r[i]
        BY <1>3, <2>1, NthFacts
      <3>2. i + 1 \in 1 .. Len(q) /\ x = q[i + 1] /\ 1 \in 1 .. Len(q) /\ i + 1 # 1
        BY <1>1, <1>3, <3>1
      <3>. QED  BY <1>1, <1>4, <3>2, NthFacts
    <2>2. ASSUME NEW x, x \in Range(q) \ {start}
          PROVE  x \in Range(r)
      <3>1. PICK i \in 1 .. Len(q) : x = q[i]
        BY <1>1, <2>2, NthFacts
      <3>2. i # 1
        BY <1>1, <2>2, <3>1
      <3>3. i - 1 \in 1 .. Len(r) /\ (i - 1) + 1 = i
        BY <1>1, <1>3, <3>2
      <3>4. r[i - 1] = x
        BY <1>3, <3>1, <3>3
      <3>. QED  BY <1>3, <3>3, <3>4, NthFacts
    <2>. QED  BY <2>1, <2>2
  <1>9. Nth(r, Len(r)) = IF Nth(q, Len(q)) = start THEN Null ELSE Nth(q, Len(q))
    <2>1. Nth(q, Len(q)) = q[Len(q)] /\ 1 \in 1 .. Len(q) /\ Len(q) \in 1 .. Len(q)
      BY <1>1 DEF Nth
    <2>2. CASE Len(q) = 1
      BY <1>1, <1>3, <2>1, <2>2 DEF Nth
    <2>3. CASE Len(q) # 1
      <3>1. q[Len(q)] # start
        BY <1>1, <1>4, <2>1, <2>3
      <3>2. Len(r) \in 1 .. Len(q) - 1 /\ Len(r) + 1 = Len(q)
        BY <1>1, <1>3, <2>3
      <3>. QED  BY <1>3, <2>1, <3>1, <3>2 DEF Nth
    <2>. QED  BY <2>2, <2>3
  <1>. QED  BY <1>1, <1>2, <1>3, <1>5, <1>7, <1>8, <1>9

(***************************************************************************)
(* A slot that is put in front points to the old start.                    *)
(***************************************************************************)
LEMMA ChainCons ==
  ASSUME NEW links \in [MqSlot -> Link], NEW start, NEW q, SlotList(q), IsChain(links, start, q),
         NEW x \in MqSlot, x \notin Range(q),
         NEW new, new = Pointed(links, x, start)
  PROVE  /\ SlotList(<< x >> \o q) /\ IsChain(new, x, << x >> \o q)
         /\ new \in [MqSlot -> Link]
         /\ Range(<< x >> \o q) = Range(q) \cup {x} /\ Len(<< x >> \o q) = Len(q) + 1
         /\ \A i \in 1 .. Len(q) + 1 : (<< x >> \o q)[i] = IF i = 1 THEN x ELSE q[i - 1]
         /\ Nth(<< x >> \o q, Len(<< x >> \o q)) = IF Nth(q, Len(q)) = Null THEN x ELSE Nth(q, Len(q))
         /\ << x >> \o q # << >>
  <1>1. /\ q \in Seq(MqSlot) /\ Len(q) \in Nat /\ IsInjective(q) /\ start = Nth(q, 1)
        /\ \A i \in 1 .. Len(q) : q[i] \in MqSlot /\ q[i] \in Range(q) /\ Nth(q, i) = q[i]
        /\ Null \notin MqSlot /\ start \in Link /\ (Null = Nth(q, 1) <=> Len(q) = 0)
        /\ 0 \notin 1 .. Len(q) => Nth(q, 0) = Null
    BY NthFacts DEF SlotList, IsChain
  <1>2. PICK r : r = << x >> \o q
    OBVIOUS
  <1>3. r \in Seq(MqSlot) /\ IsInjective(r) /\ Range(r) = Range(q) \cup {x}
    BY <1>1, <1>2, InsertedFacts DEF InsertedAfter, Cons
  <1>4. Len(r) = Len(q) + 1 /\ \A i \in 1 .. Len(q) + 1 : r[i] = IF i = 1 THEN x ELSE q[i - 1]
    BY <1>1, <1>2
  <1>5. new \in [MqSlot -> Link] /\ \A y \in MqSlot : new[y] = IF y = x THEN start ELSE links[y]
    BY <1>1 DEF Pointed
  <1>6. \A i \in 1 .. Len(q) : Nth(r, i + 1) = Nth(q, i)
    BY <1>1, <1>4 DEF Nth
  <1>7. IsChain(new, x, r)
    <2>1. x = Nth(r, 1)
      BY <1>1, <1>4 DEF Nth
    <2>2. ASSUME NEW i \in 1 .. Len(r)
          PROVE  new[r[i]] = Nth(r, i + 1)
      <3>1. CASE i = 1
        <4>1. new[r[i]] = start
          BY <1>4, <1>5, <2>2, <3>1
        <4>2. CASE Len(q) = 0
          BY <1>1, <1>4, <3>1, <4>1, <4>2 DEF Nth
        <4>3. CASE Len(q) # 0
          <5>1. 1 \in 1 .. Len(q)
            BY <1>1, <4>3
          <5>. QED  BY <1>1, <1>6, <3>1, <4>1, <5>1
        <4>. QED  BY <4>2, <4>3
      <3>2. CASE i # 1
        <4>1. i - 1 \in 1 .. Len(q) /\ (i - 1) + 1 = i /\ r[i] = q[i - 1]
          BY <1>1, <1>4, <2>2, <3>2
        <4>2. q[i - 1] \in MqSlot /\ q[i - 1] # x
          BY <1>1, <4>1
        <4>3. new[r[i]] = Nth(q, i)
          BY <1>5, <4>1, <4>2 DEF IsChain
        <4>4. Nth(r, i + 1) = Nth(q, i)
          BY <1>1, <1>4, <2>2, <3>2 DEF Nth
        <4>. QED  BY <4>3, <4>4
      <3>. QED  BY <3>1, <3>2
    <2>. QED  BY <2>1, <2>2 DEF IsChain
  <1>8. Nth(r, Len(r)) = IF Nth(q, Len(q)) = Null THEN x ELSE Nth(q, Len(q))
    BY <1>1, <1>4 DEF Nth
  <1>9. r # << >>
    BY <1>1, <1>3, <1>4, EmptySeq
  <1>. QED  BY <1>1, <1>2, <1>3, <1>4, <1>5, <1>7, <1>8, <1>9 DEF SlotList

(***************************************************************************)
(* A slot that points nowhere becomes the last one.                        *)
(***************************************************************************)
LEMMA ChainAppend ==
  ASSUME NEW links \in [MqSlot -> Link], NEW start, NEW q, SlotList(q), IsChain(links, start, q),
         NEW x \in MqSlot, x \notin Range(q), links[x] = Null,
         NEW end, end = Nth(q, Len(q)),
         NEW new, new = Followed(links, end, x)
  PROVE  /\ SlotList(Append(q, x)) /\ IsChain(new, IF start = Null THEN x ELSE start, Append(q, x))
         /\ new \in [MqSlot -> Link]
         /\ Range(Append(q, x)) = Range(q) \cup {x} /\ Len(Append(q, x)) = Len(q) + 1
         /\ \A i \in 1 .. Len(q) + 1 : Append(q, x)[i] = IF i = Len(q) + 1 THEN x ELSE q[i]
         /\ x = Nth(Append(q, x), Len(Append(q, x)))
         /\ \A y \in MqSlot \ Range(q) : new[y] = links[y]
  <1>1. /\ q \in Seq(MqSlot) /\ Len(q) \in Nat /\ IsInjective(q) /\ start = Nth(q, 1)
        /\ DOMAIN q = 1 .. Len(q)
        /\ \A i \in 1 .. Len(q) : q[i] \in MqSlot /\ q[i] \in Range(q) /\ Nth(q, i) = q[i]
        /\ Null \notin MqSlot /\ start \in Link
        /\ \A i : i \notin 1 .. Len(q) => Nth(q, i) = Null
    BY NthFacts DEF SlotList, IsChain
  <1>2. PICK r : r = Append(q, x)
    OBVIOUS
  <1>3. r \in Seq(MqSlot) /\ IsInjective(r) /\ Range(r) = Range(q) \cup {x}
    BY <1>1, <1>2, InsertedFacts DEF InsertedBefore
  <1>4. Len(r) = Len(q) + 1 /\ \A i \in 1 .. Len(q) + 1 : r[i] = IF i = Len(q) + 1 THEN x ELSE q[i]
    BY <1>1, <1>2, AppendProperties
  <1>5. new \in [MqSlot -> Link] /\ \A y \in MqSlot : new[y] = IF y = end THEN x ELSE links[y]
    BY <1>1 DEF Link, Followed
  <1>6. /\ Len(q) # 0 => end = q[Len(q)] /\ end \in Range(q)
        /\ Len(q) = 0 => end = Null
    BY <1>1
  <1>7. \A y \in MqSlot \ Range(q) : new[y] = links[y]
    BY <1>1, <1>5, <1>6
  <1>8. IsChain(new, IF start = Null THEN x ELSE start, r)
    <2>1. (IF start = Null THEN x ELSE start) = Nth(r, 1)
      <3>1. CASE Len(q) = 0
        BY <1>1, <1>4, <3>1 DEF Nth
      <3>2. CASE Len(q) # 0
        <4>1. 1 \in 1 .. Len(q) /\ 1 # Len(q) + 1 /\ 1 \in 1 .. Len(q) + 1
          BY <1>1, <3>2
        <4>2. start = q[1] /\ start # Null
          BY <1>1, <4>1
        <4>3. Nth(r, 1) = q[1]
          BY <1>4, <4>1 DEF Nth
        <4>. QED  BY <4>2, <4>3
      <3>. QED  BY <3>1, <3>2
    <2>2. Len(q) \in Nat /\ Len(r) = Len(q) + 1
      BY <1>1, <1>4
    <2>3. ASSUME NEW i \in 1 .. Len(r)
          PROVE  new[r[i]] = Nth(r, i + 1)
      <3>1. CASE i = Len(q) + 1
        <4>1. r[i] = x /\ i + 1 \notin 1 .. Len(r)
          BY <1>1, <1>4, <2>2, <2>3, <3>1
        <4>2. new[x] = Null
          BY <1>7
        <4>. QED  BY <4>1, <4>2 DEF Nth
      <3>2. CASE i = Len(q)
        <4>1. r[i] = q[i] /\ i \in 1 .. Len(q) /\ i + 1 \in 1 .. Len(r) /\ r[i + 1] = x
          BY <1>1, <1>4, <2>2, <2>3, <3>2
        <4>2. q[i] = end /\ q[i] \in MqSlot
          BY <1>1, <1>6, <3>2, <4>1
        <4>. QED  BY <1>5, <4>1, <4>2 DEF Nth
      <3>3. CASE i \in 1 .. Len(q) - 1
        <4>1. /\ i \in 1 .. Len(q) /\ i + 1 \in 1 .. Len(r) /\ i + 1 \in 1 .. Len(q)
              /\ i # Len(q) /\ Len(q) \in 1 .. Len(q) /\ i # Len(q) + 1 /\ i + 1 # Len(q) + 1
              /\ i \in 1 .. Len(q) + 1 /\ i + 1 \in 1 .. Len(q) + 1
          BY <2>2, <2>3, <3>3
        <4>2. r[i] = q[i] /\ r[i + 1] = q[i + 1]
          BY <1>4, <4>1
        <4>3. q[i] # end /\ q[i] \in MqSlot
          BY <1>1, <1>6, <4>1 DEF IsInjective
        <4>4. links[q[i]] = q[i + 1]
          <5>1. links[q[i]] = Nth(q, i + 1)
            BY <4>1 DEF IsChain
          <5>. QED  BY <1>1, <4>1, <5>1
        <4>. QED  BY <1>5, <4>1, <4>2, <4>3, <4>4 DEF Nth
      <3>. QED  BY <2>2, <2>3, <3>1, <3>2, <3>3
    <2>. QED  BY <2>1, <2>3 DEF IsChain
  <1>9. x = Nth(r, Len(r))
    BY <1>1, <1>4 DEF Nth
  <1>. QED  BY <1>2, <1>3, <1>4, <1>5, <1>7, <1>8, <1>9 DEF SlotList

(***************************************************************************)
(* The loop of rt_mq_init links the slots from the last to the first one.  *)
(***************************************************************************)
LEMMA FreshChain ==
  /\ SlotList([i \in MqSlot |-> Size + 1 - i])
  /\ IsChain(FreshLinks, Size, [i \in MqSlot |-> Size + 1 - i])
  /\ FreshLinks \in [MqSlot -> Link]
  /\ Range([i \in MqSlot |-> Size + 1 - i]) = MqSlot
  /\ Len([i \in MqSlot |-> Size + 1 - i]) = Size
  <1>1. Size \in Nat \ {0} /\ MqSlot = 1 .. Size
    BY SizeFacts DEF MqSlot
  <1>2. PICK q : q = [i \in MqSlot |-> Size + 1 - i]
    OBVIOUS
  <1>3. /\ q \in [1 .. Size -> MqSlot] /\ DOMAIN q = 1 .. Size
        /\ \A i \in 1 .. Size : q[i] = Size + 1 - i
    BY <1>1, <1>2
  <1>4. q \in Seq(MqSlot) /\ Len(q) = Size
    BY <1>1, <1>3, SeqDef
  <1>5. IsInjective(q)
    BY <1>1, <1>3 DEF IsInjective
  <1>6. FreshLinks \in [MqSlot -> Link] /\ \A i \in MqSlot : FreshLinks[i] = IF i = 1 THEN Null ELSE i - 1
    BY <1>1 DEF FreshLinks, Link
  <1>7. IsChain(FreshLinks, Size, q)
    <2>1. Size = Nth(q, 1)
      BY <1>1, <1>3, <1>4 DEF Nth
    <2>2. ASSUME NEW i \in 1 .. Len(q)
          PROVE  FreshLinks[q[i]] = Nth(q, i + 1)
      <3>1. q[i] = Size + 1 - i /\ q[i] \in MqSlot /\ i \in 1 .. Size
        BY <1>3, <1>4
      <3>2. CASE i = Size
        BY <1>1, <1>4, <1>6, <3>1, <3>2 DEF Nth
      <3>3. CASE i # Size
        <4>1. i + 1 \in 1 .. Len(q) /\ q[i + 1] = Size + 1 - (i + 1)
          BY <1>1, <1>3, <1>4, <3>3
        <4>. QED  BY <1>1, <1>4, <1>6, <3>1, <3>3, <4>1 DEF Nth
      <3>. QED  BY <3>2, <3>3
    <2>. QED  BY <2>1, <2>2 DEF IsChain
  <1>8. Range(q) = MqSlot
    <2>1. ASSUME NEW x \in MqSlot
          PROVE  x \in Range(q)
      <3>1. Size + 1 - x \in 1 .. Size /\ x = Size + 1 - (Size + 1 - x)
        BY <1>1
      <3>2. x = q[Size + 1 - x]
        BY <1>3, <3>1
      <3>. QED  BY <1>3, <3>1, <3>2 DEF Range
    <2>. QED  BY <1>1, <1>3, <2>1 DEF Range
  <1>. QED  BY <1>2, <1>4, <1>5, <1>6, <1>7, <1>8 DEF SlotList

(* The next pointers, and the first free slot, once the messages of list q *)
(* have been put into the free list one by one *)
DrainedLinks(links, q, start) ==
  [i \in MqSlot |-> IF i \notin Range(q) THEN links[i]
                    ELSE LET n == CHOOSE j \in DOMAIN q : q[j] = i
                         IN  IF n = 1 THEN start ELSE q[n - 1]]

DrainedStart(q, start) == IF q = << >> THEN start ELSE Last(q)

(* The free list then: those of q from the last to the first, and the old one *)
Backwards(q, f) ==
  [i \in 1 .. Len(q) + Len(f) |-> IF i <= Len(q) THEN q[Len(q) + 1 - i] ELSE f[i - Len(q)]]

(***************************************************************************)
(* The pointers that the loop of the reset leaves.                         *)
(***************************************************************************)
LEMMA DrainedPointers ==
  ASSUME NEW links \in [MqSlot -> Link], NEW q, SlotList(q), NEW start \in Link,
         NEW new, new = DrainedLinks(links, q, start)
  PROVE  /\ new \in [MqSlot -> Link]
         /\ \A x \in MqSlot \ Range(q) : new[x] = links[x]
         /\ \A i \in 1 .. Len(q) : new[q[i]] = IF i = 1 THEN start ELSE q[i - 1]
  <1>1. /\ q \in Seq(MqSlot) /\ Len(q) \in Nat /\ DOMAIN q = 1 .. Len(q)
        /\ \A i \in 1 .. Len(q) : q[i] \in MqSlot /\ q[i] \in Range(q)
        /\ \A x \in Range(q) : \E i \in 1 .. Len(q) : x = q[i]
    BY NthFacts DEF SlotList
  <1>2. ASSUME NEW i \in 1 .. Len(q)
        PROVE  new[q[i]] = (IF i = 1 THEN start ELSE q[i - 1]) /\ new[q[i]] \in Link
    <2>1. PICK n : n = CHOOSE j \in DOMAIN q : q[j] = q[i]
      OBVIOUS
    <2>2. n \in 1 .. Len(q) /\ q[n] = q[i]
      BY <1>1, <2>1
    <2>3. n = i
      BY <1>1, <2>2 DEF SlotList, IsInjective
    <2>4. new[q[i]] = IF n = 1 THEN start ELSE q[n - 1]
      BY <1>1, <2>1 DEF DrainedLinks
    <2>5. i # 1 => i - 1 \in 1 .. Len(q)
      BY <1>1
    <2>. QED  BY <1>1, <2>3, <2>4, <2>5 DEF Link
  <1>3. \A x \in MqSlot \ Range(q) : new[x] = links[x]
    BY DEF DrainedLinks
  <1>4. \A x \in MqSlot : new[x] \in Link
    BY <1>1, <1>2, <1>3
  <1>5. new = [x \in MqSlot |-> new[x]]
    BY DEF DrainedLinks
  <1>. QED  BY <1>2, <1>3, <1>4, <1>5

(***************************************************************************)
(* Two lists of different slots, the first of them turned round.           *)
(***************************************************************************)
LEMMA BackwardsFacts ==
  ASSUME NEW q, NEW f, SlotList(q), SlotList(f), Range(q) \cap Range(f) = {}
  PROVE  /\ SlotList(Backwards(q, f)) /\ Len(Backwards(q, f)) = Len(q) + Len(f)
         /\ Range(Backwards(q, f)) = Range(q) \cup Range(f)
  <1>1. /\ q \in Seq(MqSlot) /\ Len(q) \in Nat /\ DOMAIN q = 1 .. Len(q)
        /\ \A i \in 1 .. Len(q) : q[i] \in MqSlot /\ q[i] \in Range(q)
        /\ \A x \in Range(q) : \E i \in 1 .. Len(q) : x = q[i]
    BY NthFacts DEF SlotList
  <1>2. /\ f \in Seq(MqSlot) /\ Len(f) \in Nat /\ DOMAIN f = 1 .. Len(f)
        /\ \A i \in 1 .. Len(f) : f[i] \in MqSlot /\ f[i] \in Range(f)
        /\ \A x \in Range(f) : \E i \in 1 .. Len(f) : x = f[i]
    BY NthFacts DEF SlotList
  <1>3. PICK r : r = Backwards(q, f)
    OBVIOUS
  <1>4. PICK a : a = Len(q)
    OBVIOUS
  <1>5. PICK b : b = Len(f)
    OBVIOUS
  <1>6. a \in Nat /\ b \in Nat /\ a + b \in Nat
    BY <1>1, <1>2, <1>4, <1>5
  <1>7. /\ DOMAIN r = 1 .. a + b
        /\ \A i \in 1 .. a + b : r[i] = IF i <= a THEN q[a + 1 - i] ELSE f[i - a]
    BY <1>3, <1>4, <1>5 DEF Backwards
  <1>8. ASSUME NEW i \in 1 .. a + b
        PROVE  /\ i <= a => a + 1 - i \in 1 .. a /\ r[i] \in Range(q)
               /\ ~ (i <= a) => i - a \in 1 .. b /\ r[i] \in Range(f)
               /\ r[i] \in MqSlot
    <2>1. /\ i <= a => a + 1 - i \in 1 .. a
          /\ ~ (i <= a) => i - a \in 1 .. b
      BY <1>6
    <2>. QED  BY <1>1, <1>2, <1>4, <1>5, <1>7, <2>1
  <1>9. r \in Seq(MqSlot) /\ Len(r) = a + b
    <2>1. r = [i \in 1 .. a + b |-> r[i]]
      BY <1>3, <1>4, <1>5 DEF Backwards
    <2>2. r \in [1 .. a + b -> MqSlot]
      BY <1>8, <2>1
    <2>. QED  BY <1>6, <2>2, SeqDef
  <1>10. ASSUME NEW i \in 1 .. a + b, NEW j \in 1 .. a + b, r[i] = r[j]
         PROVE  i = j
    <2>1. i <= a <=> j <= a
      <3>1. r[i] \in Range(q) <=> i <= a
        BY <1>8
      <3>2. r[j] \in Range(q) <=> j <= a
        BY <1>8
      <3>. QED  BY <1>10, <3>1, <3>2
    <2>2. CASE i <= a
      <3>1. /\ a + 1 - i \in DOMAIN q /\ a + 1 - j \in DOMAIN q
            /\ r[i] = q[a + 1 - i] /\ r[j] = q[a + 1 - j]
        BY <1>1, <1>4, <1>7, <1>8, <2>1, <2>2
      <3>2. a + 1 - i = a + 1 - j
        BY <1>10, <3>1 DEF SlotList, IsInjective
      <3>. QED  BY <1>6, <3>2
    <2>3. CASE ~ (i <= a)
      <3>1. i - a \in DOMAIN f /\ j - a \in DOMAIN f /\ r[i] = f[i - a] /\ r[j] = f[j - a]
        BY <1>2, <1>5, <1>7, <1>8, <2>1, <2>3
      <3>2. i - a = j - a
        BY <1>10, <3>1 DEF SlotList, IsInjective
      <3>. QED  BY <1>6, <3>2
    <2>. QED  BY <2>2, <2>3
  <1>11. Range(r) = Range(q) \cup Range(f)
    <2>1. Range(r) \subseteq Range(q) \cup Range(f)
      BY <1>7, <1>8 DEF Range
    <2>2. ASSUME NEW x \in Range(q)
          PROVE  x \in Range(r)
      <3>1. PICK i \in 1 .. a : x = q[i]
        BY <1>1, <1>4
      <3>2. a + 1 - i \in 1 .. a + b /\ a + 1 - i <= a /\ a + 1 - (a + 1 - i) = i
        BY <1>6
      <3>3. r[a + 1 - i] = q[a + 1 - (a + 1 - i)]
        BY <1>7, <3>2
      <3>4. x = r[a + 1 - i]
        BY <3>1, <3>2, <3>3
      <3>5. a + 1 - i \in DOMAIN r
        BY <1>7, <3>2
      <3>. QED  BY <3>4, <3>5 DEF Range
    <2>3. ASSUME NEW x \in Range(f)
          PROVE  x \in Range(r)
      <3>1. PICK i \in 1 .. b : x = f[i]
        BY <1>2, <1>5
      <3>2. PICK n : n = a + i
        OBVIOUS
      <3>3. n \in 1 .. a + b /\ ~ (n <= a) /\ n - a = i
        BY <1>6, <3>2
      <3>4. r[n] = f[n - a]
        BY <1>7, <3>3
      <3>5. x = r[n] /\ n \in DOMAIN r
        BY <1>7, <3>1, <3>3, <3>4
      <3>. QED  BY <3>5 DEF Range
    <2>. QED  BY <2>1, <2>2, <2>3
  <1>12. IsInjective(r)
    BY <1>7, <1>10 DEF IsInjective
  <1>. QED  BY <1>3, <1>4, <1>5, <1>9, <1>11, <1>12 DEF SlotList

(***************************************************************************)
(* The loop of the reset makes them one free list.                         *)
(***************************************************************************)
LEMMA DrainedChain ==
  ASSUME NEW links \in [MqSlot -> Link], NEW q, NEW f, SlotList(q), SlotList(f),
         Range(q) \cap Range(f) = {}, NEW start, IsChain(links, start, f),
         NEW new, new = DrainedLinks(links, q, start)
  PROVE  IsChain(new, DrainedStart(q, start), Backwards(q, f)) /\ DrainedStart(q, start) \in Link
  <1>1. /\ Len(q) \in Nat /\ start \in Link /\ start = Nth(f, 1) /\ Len(f) \in Nat
        /\ \A i \in 1 .. Len(q) : q[i] \in MqSlot /\ Nth(q, i) = q[i]
        /\ q = << >> <=> Len(q) = 0
        /\ \A i \in 1 .. Len(f) : f[i] \in MqSlot /\ f[i] \in Range(f) /\ Nth(f, i) = f[i]
    BY NthFacts DEF SlotList, IsChain
  <1>2. /\ \A x \in MqSlot \ Range(q) : new[x] = links[x]
        /\ \A i \in 1 .. Len(q) : new[q[i]] = IF i = 1 THEN start ELSE q[i - 1]
    BY <1>1, DrainedPointers
  <1>3. PICK r : r = Backwards(q, f)
    OBVIOUS
  <1>4. PICK a : a = Len(q)
    OBVIOUS
  <1>5. PICK b : b = Len(f)
    OBVIOUS
  <1>6. a \in Nat /\ b \in Nat /\ a + b \in Nat /\ Len(r) = a + b
    BY <1>1, <1>3, <1>4, <1>5, BackwardsFacts
  <1>7. \A i \in 1 .. a + b : r[i] = IF i <= a THEN q[a + 1 - i] ELSE f[i - a]
    BY <1>3, <1>4, <1>5 DEF Backwards
  <1>8. ASSUME NEW i \in 1 .. a
        PROVE  Nth(r, i) = q[a + 1 - i] /\ a + 1 - i \in 1 .. a
    <2>1. i \in 1 .. a + b /\ i <= a /\ a + 1 - i \in 1 .. a
      BY <1>6
    <2>. QED  BY <1>6, <1>7, <2>1 DEF Nth
  <1>9. ASSUME NEW i \in 1 .. b + 1
        PROVE  Nth(r, a + i) = Nth(f, i)
    <2>1. CASE i = b + 1
      <3>1. a + i \notin 1 .. a + b /\ i \notin 1 .. b
        BY <1>6, <2>1
      <3>. QED  BY <1>5, <1>6, <3>1 DEF Nth
    <2>2. CASE i # b + 1
      <3>1. a + i \in 1 .. a + b /\ i \in 1 .. b /\ ~ (a + i <= a) /\ a + i - a = i
        BY <1>6, <2>2
      <3>. QED  BY <1>5, <1>6, <1>7, <3>1 DEF Nth
    <2>. QED  BY <2>1, <2>2
  <1>10. DrainedStart(q, start) = Nth(r, 1) /\ DrainedStart(q, start) \in Link
    <2>1. CASE a = 0
      <3>1. DrainedStart(q, start) = start
        BY <1>1, <1>4, <2>1 DEF DrainedStart
      <3>2. 1 \in 1 .. b + 1 /\ a + 1 = 1
        BY <1>6, <2>1
      <3>3. Nth(r, a + 1) = Nth(f, 1)
        BY <1>9, <3>2
      <3>. QED  BY <1>1, <3>1, <3>2, <3>3
    <2>2. CASE a # 0
      <3>1. 1 \in 1 .. a /\ a + 1 - 1 = a /\ a \in 1 .. a
        BY <1>6, <2>2
      <3>2. Nth(r, 1) = q[a]
        BY <1>8, <3>1
      <3>3. DrainedStart(q, start) = q[a]
        BY <1>1, <1>4, <2>2 DEF DrainedStart, Last
      <3>. QED  BY <1>1, <1>4, <3>1, <3>2, <3>3 DEF Link
    <2>. QED  BY <2>1, <2>2
  <1>11. ASSUME NEW i \in 1 .. a + b
         PROVE  new[r[i]] = Nth(r, i + 1)
    <2>1. CASE i <= a
      <3>1. i \in 1 .. a /\ r[i] = q[a + 1 - i] /\ a + 1 - i \in 1 .. a
        BY <1>6, <1>7, <2>1
      <3>2. new[r[i]] = IF a + 1 - i = 1 THEN start ELSE q[a + 1 - i - 1]
        BY <1>2, <1>4, <3>1
      <3>3. CASE i = a
        <4>1. a + 1 - i = 1 /\ 1 \in 1 .. b + 1
          BY <1>6, <3>3
        <4>2. Nth(r, a + 1) = start
          BY <1>1, <1>9, <4>1
        <4>. QED  BY <3>2, <3>3, <4>1, <4>2
      <3>4. CASE i # a
        <4>1. i + 1 \in 1 .. a /\ a + 1 - i # 1 /\ a + 1 - i - 1 = a + 1 - (i + 1)
          BY <1>6, <3>1, <3>4
        <4>2. Nth(r, i + 1) = q[a + 1 - (i + 1)]
          BY <1>8, <4>1
        <4>. QED  BY <3>2, <4>1, <4>2
      <3>. QED  BY <3>3, <3>4
    <2>2. CASE ~ (i <= a)
      <3>1. PICK j : j = i - a
        OBVIOUS
      <3>2. j \in 1 .. b /\ r[i] = f[j] /\ j + 1 \in 1 .. b + 1 /\ i + 1 = a + (j + 1)
        BY <1>6, <1>7, <2>2, <3>1
      <3>3. f[j] \in MqSlot \ Range(q)
        BY <1>1, <1>5, <3>2
      <3>4. new[f[j]] = Nth(f, j + 1)
        BY <1>2, <1>5, <3>2, <3>3 DEF IsChain
      <3>5. Nth(r, i + 1) = Nth(f, j + 1)
        BY <1>9, <3>2
      <3>. QED  BY <3>2, <3>4, <3>5
    <2>. QED  BY <2>1, <2>2
  <1>12. IsChain(new, DrainedStart(q, start), r)
    BY <1>6, <1>10, <1>11 DEF IsChain
  <1>. QED  BY <1>3, <1>10, <1>12

-----------------------------------------------------------------------------
(* Where the slots are *)

(***************************************************************************)
(* With the next pointers l, the queue from h to tl, which counts e        *)
(* messages, is the list q and the free list from fr is f; every slot is   *)
(* in one of the two lists or in the set held.                             *)
(***************************************************************************)
SlotsOK(l, h, tl, fr, e, q, f, held) ==
  /\ l \in [MqSlot -> Link]
  /\ SlotList(q) /\ SlotList(f) /\ Range(q) \cap Range(f) = {}
  /\ Range(q) \cup Range(f) = MqSlot \ held
  /\ IsChain(l, h, q) /\ IsChain(l, fr, f)
  /\ tl = Nth(q, Len(q)) /\ e = Len(q)

(* The same with a slot x that is held, and a list new where the next      *)
(* pointer of a slot may have been cleared                                 *)
Holding(l, h, tl, fr, e, q, f, held, x) ==
  SlotsOK(l, h, tl, fr, e, q, f, held) /\ x \in held /\ x \in MqSlot

Cleared(l, x, new) == new = l \/ new = Pointed(l, x, Null)

(* What the steps on the lists leave: the slot fr taken, the slot x linked *)
(* last, linked first, or freed                                            *)
SlotGone(l, h, tl, fr, e, q, f, held, new) ==
  /\ SlotsOK(new, h, tl, l[fr], e, q, Tail(f), held \cup {fr})
  /\ Len(Tail(f)) = Len(f) - 1 /\ fr \in MqSlot \ held
  /\ fr \notin Range(q) /\ fr \notin Range(Tail(f))
  /\ \A y \in MqSlot \ {fr} : new[y] = l[y]

SlotLast(l, h, tl, fr, e, q, f, held, x, new) ==
  /\ SlotsOK(new, IF h = Null THEN x ELSE h, x, fr, e + 1, Append(q, x), f, held \ {x})
  /\ Len(q) < Size /\ q \in Seq(MqSlot)
  /\ Append(q, x) \in Seq(MqSlot) /\ Len(Append(q, x)) = Len(q) + 1
  /\ \A i \in 1 .. Len(q) + 1 : Append(q, x)[i] = IF i = Len(q) + 1 THEN x ELSE q[i]
  /\ \A y \in MqSlot \cap held : new[y] = l[y]

SlotFirst(l, h, tl, fr, e, q, f, held, x, new) ==
  /\ SlotsOK(new, x, IF tl = Null THEN x ELSE tl, fr, e + 1, << x >> \o q, f, held \ {x})
  /\ Len(q) < Size /\ q \in Seq(MqSlot)
  /\ << x >> \o q \in Seq(MqSlot) /\ Len(<< x >> \o q) = Len(q) + 1
  /\ \A i \in 1 .. Len(q) + 1 : (<< x >> \o q)[i] = IF i = 1 THEN x ELSE q[i - 1]
  /\ \A y \in MqSlot \ {x} : new[y] = l[y]

SlotBack(l, h, tl, fr, e, q, f, held, x, new) ==
  /\ SlotsOK(new, h, tl, x, e, q, << x >> \o f, held \ {x})
  /\ Len(<< x >> \o f) = Len(f) + 1
  /\ \A y \in MqSlot \ {x} : new[y] = l[y]

(***************************************************************************)
(* The lists are what following the pointers finds.                        *)
(***************************************************************************)
LEMMA SlotsAre ==
  ASSUME NEW l, NEW h, NEW tl, NEW fr, NEW e, NEW q, NEW f, NEW held,
         SlotsOK(l, h, tl, fr, e, q, f, held)
  PROVE  /\ Chain(l, h) = q /\ Chain(l, fr) = f
         /\ h \in Link /\ tl \in Link /\ fr \in Link /\ e \in 0 .. Size
         /\ Len(q) \in Nat /\ Len(f) \in Nat
         /\ q \in Seq(MqSlot) /\ f \in Seq(MqSlot)
         /\ h = Null <=> e = 0
         /\ fr = Null <=> Len(f) = 0
  <1>1. /\ SlotList(q) /\ IsChain(l, h, q) /\ SlotList(f) /\ IsChain(l, fr, f)
        /\ tl = Nth(q, Len(q)) /\ e = Len(q)
    BY DEF SlotsOK
  <1>2. Chain(l, h) = q /\ Chain(l, fr) = f
    BY <1>1, ChainIs
  <1>3. q \in Seq(MqSlot) /\ f \in Seq(MqSlot) /\ h = Nth(q, 1) /\ fr = Nth(f, 1)
    BY <1>1 DEF SlotList, IsChain
  <1>4. /\ Len(q) \in Nat /\ Nth(q, 1) \in Link /\ Nth(q, Len(q)) \in Link
        /\ Nth(q, 1) = Null <=> Len(q) = 0
    BY <1>3, NthFacts
  <1>5. /\ Len(f) \in Nat /\ Nth(f, 1) \in Link
        /\ Nth(f, 1) = Null <=> Len(f) = 0
    BY <1>3, NthFacts
  <1>6. Len(q) <= Size /\ Size \in Nat
    BY <1>1, SlotListBound, SizeFacts
  <1>. QED  BY <1>1, <1>2, <1>3, <1>4, <1>5, <1>6

(***************************************************************************)
(* The first free slot is taken; its next pointer may be cleared.          *)
(***************************************************************************)
LEMMA SlotTaken ==
  ASSUME NEW l, NEW h, NEW tl, NEW fr, NEW e, NEW q, NEW f, NEW held,
         SlotsOK(l, h, tl, fr, e, q, f, held), fr # Null,
         NEW new, Cleared(l, fr, new)
  PROVE  SlotGone(l, h, tl, fr, e, q, f, held, new)
  <1>1. /\ SlotList(q) /\ IsChain(l, h, q) /\ SlotList(f) /\ IsChain(l, fr, f)
        /\ Range(q) \cap Range(f) = {} /\ Range(q) \cup Range(f) = MqSlot \ held
        /\ l \in [MqSlot -> Link] /\ tl = Nth(q, Len(q)) /\ e = Len(q)
    BY DEF SlotsOK
  <1>2. PICK g : g = Tail(f)
    OBVIOUS
  <1>3. /\ SlotList(g) /\ IsChain(l, l[fr], g) /\ Range(g) = Range(f) \ {fr}
        /\ fr \in Range(f) /\ Len(g) = Len(f) - 1
    BY <1>1, <1>2, ChainTail
  <1>4. fr \in MqSlot \ held /\ fr \notin Range(q)
    BY <1>1, <1>3
  <1>5. new \in [MqSlot -> Link] /\ \A y \in MqSlot \ {fr} : new[y] = l[y]
    BY <1>1, <1>4 DEF Link, Pointed, Cleared
  <1>6. \A y \in Range(q) \cup Range(g) : new[y] = l[y]
    BY <1>1, <1>3, <1>5
  <1>7. IsChain(new, h, q) /\ IsChain(new, l[fr], g)
    BY <1>1, <1>3, <1>6, ChainKept
  <1>8. Range(q) \cap Range(g) = {} /\ Range(q) \cup Range(g) = MqSlot \ (held \cup {fr})
    BY <1>1, <1>3, <1>4
  <1>. QED  BY <1>1, <1>2, <1>3, <1>4, <1>5, <1>7, <1>8 DEF SlotsOK, SlotGone

(***************************************************************************)
(* The first message is taken out of the queue.                            *)
(***************************************************************************)
LEMMA SlotUnlinked ==
  ASSUME NEW l, NEW h, NEW tl, NEW fr, NEW e, NEW q, NEW f, NEW held,
         SlotsOK(l, h, tl, fr, e, q, f, held), e # 0
  PROVE  /\ SlotsOK(l, l[h], IF tl = h THEN Null ELSE tl, fr, e - 1, Tail(q), f, held \cup {h})
         /\ h \in MqSlot \ held /\ q # << >> /\ h = Head(q)
         /\ Tail(q) \in Seq(MqSlot) /\ Len(Tail(q)) = Len(q) - 1
         /\ \A i \in 1 .. Len(q) - 1 : Tail(q)[i] = q[i + 1]
  <1>1. /\ SlotList(q) /\ IsChain(l, h, q) /\ SlotList(f) /\ IsChain(l, fr, f)
        /\ Range(q) \cap Range(f) = {} /\ Range(q) \cup Range(f) = MqSlot \ held
        /\ l \in [MqSlot -> Link] /\ tl = Nth(q, Len(q)) /\ e = Len(q)
    BY DEF SlotsOK
  <1>2. h # Null
    BY SlotsAre
  <1>3. PICK g : g = Tail(q)
    OBVIOUS
  <1>4. /\ SlotList(g) /\ IsChain(l, l[h], g) /\ Range(g) = Range(q) \ {h}
        /\ h \in Range(q) /\ Len(g) = Len(q) - 1 /\ q # << >> /\ h = Head(q)
        /\ g \in Seq(MqSlot) /\ \A i \in 1 .. Len(q) - 1 : g[i] = q[i + 1]
        /\ Nth(g, Len(g)) = IF Nth(q, Len(q)) = h THEN Null ELSE Nth(q, Len(q))
    BY <1>1, <1>2, <1>3, ChainTail
  <1>5. /\ Range(g) \cap Range(f) = {} /\ Range(g) \cup Range(f) = MqSlot \ (held \cup {h})
        /\ h \in MqSlot \ held
    BY <1>1, <1>4
  <1>6. (IF tl = h THEN Null ELSE tl) = Nth(g, Len(g)) /\ e - 1 = Len(g)
    BY <1>1, <1>4
  <1>. QED  BY <1>1, <1>3, <1>4, <1>5, <1>6 DEF SlotsOK

(***************************************************************************)
(* A slot that is held and points nowhere becomes the last of the queue.   *)
(***************************************************************************)
LEMMA SlotLinkedLast ==
  ASSUME NEW l, NEW h, NEW tl, NEW fr, NEW e, NEW q, NEW f, NEW held,
         NEW x, Holding(l, h, tl, fr, e, q, f, held, x), l[x] = Null,
         NEW new, new = Followed(l, tl, x)
  PROVE  SlotLast(l, h, tl, fr, e, q, f, held, x, new)
  <1>1. /\ SlotList(q) /\ IsChain(l, h, q) /\ SlotList(f) /\ IsChain(l, fr, f)
        /\ Range(q) \cap Range(f) = {} /\ Range(q) \cup Range(f) = MqSlot \ held
        /\ l \in [MqSlot -> Link] /\ tl = Nth(q, Len(q)) /\ e = Len(q)
        /\ x \in held /\ x \in MqSlot
    BY DEF SlotsOK, Holding
  <1>2. x \notin Range(q)
    BY <1>1
  <1>3. PICK r : r = Append(q, x)
    OBVIOUS
  <1>4. /\ SlotList(r) /\ IsChain(new, IF h = Null THEN x ELSE h, r)
        /\ new \in [MqSlot -> Link]
        /\ Range(r) = Range(q) \cup {x} /\ Len(r) = Len(q) + 1
        /\ \A i \in 1 .. Len(q) + 1 : r[i] = IF i = Len(q) + 1 THEN x ELSE q[i]
        /\ x = Nth(r, Len(r))
        /\ \A y \in MqSlot \ Range(q) : new[y] = l[y]
    <2>1. /\ l \in [MqSlot -> Link] /\ SlotList(q) /\ IsChain(l, h, q) /\ x \in MqSlot
          /\ x \notin Range(q) /\ l[x] = Null /\ tl = Nth(q, Len(q))
          /\ new = Followed(l, tl, x)
      BY <1>1, <1>2
    <2>2. /\ SlotList(Append(q, x)) /\ IsChain(new, IF h = Null THEN x ELSE h, Append(q, x))
          /\ new \in [MqSlot -> Link]
          /\ Range(Append(q, x)) = Range(q) \cup {x} /\ Len(Append(q, x)) = Len(q) + 1
          /\ \A i \in 1 .. Len(q) + 1 : Append(q, x)[i] = IF i = Len(q) + 1 THEN x ELSE q[i]
          /\ x = Nth(Append(q, x), Len(Append(q, x)))
          /\ \A y \in MqSlot \ Range(q) : new[y] = l[y]
      BY ONLY <2>1, ChainAppend
    <2>. QED  BY <1>3, <2>2
  <1>5. \A y \in Range(f) : new[y] = l[y]
    BY <1>1, <1>4
  <1>6. IsChain(new, fr, f)
    BY <1>1, <1>5, ChainKept
  <1>7. \A y \in MqSlot \cap held : new[y] = l[y]
    BY <1>1, <1>4
  <1>8. Range(r) \cap Range(f) = {} /\ Range(r) \cup Range(f) = MqSlot \ (held \ {x})
    BY <1>1, <1>4
  <1>9. Len(r) <= Size /\ Size \in Nat /\ Len(q) \in Nat
    BY <1>1, <1>4, SlotListBound, SizeFacts, LenProperties DEF SlotList
  <1>10. Len(q) < Size
    BY <1>4, <1>9
  <1>11. q \in Seq(MqSlot) /\ r \in Seq(MqSlot)
    BY <1>1, <1>4 DEF SlotList
  <1>. QED  BY <1>1, <1>3, <1>4, <1>6, <1>7, <1>8, <1>10, <1>11 DEF SlotsOK, SlotLast

(***************************************************************************)
(* A slot that is held becomes the first of the queue.                     *)
(***************************************************************************)
LEMMA SlotLinkedFirst ==
  ASSUME NEW l, NEW h, NEW tl, NEW fr, NEW e, NEW q, NEW f, NEW held,
         NEW x, Holding(l, h, tl, fr, e, q, f, held, x),
         NEW new, new = Pointed(l, x, h)
  PROVE  SlotFirst(l, h, tl, fr, e, q, f, held, x, new)
  <1>1. /\ SlotList(q) /\ IsChain(l, h, q) /\ SlotList(f) /\ IsChain(l, fr, f)
        /\ Range(q) \cap Range(f) = {} /\ Range(q) \cup Range(f) = MqSlot \ held
        /\ l \in [MqSlot -> Link] /\ tl = Nth(q, Len(q)) /\ e = Len(q)
        /\ x \in held /\ x \in MqSlot
    BY DEF SlotsOK, Holding
  <1>2. x \notin Range(q)
    BY <1>1
  <1>3. PICK r : r = << x >> \o q
    OBVIOUS
  <1>4. /\ SlotList(r) /\ IsChain(new, x, r) /\ new \in [MqSlot -> Link]
        /\ Range(r) = Range(q) \cup {x} /\ Len(r) = Len(q) + 1
        /\ \A i \in 1 .. Len(q) + 1 : r[i] = IF i = 1 THEN x ELSE q[i - 1]
        /\ Nth(r, Len(r)) = IF Nth(q, Len(q)) = Null THEN x ELSE Nth(q, Len(q))
    <2>1. /\ l \in [MqSlot -> Link] /\ SlotList(q) /\ IsChain(l, h, q) /\ x \in MqSlot
          /\ x \notin Range(q) /\ new = Pointed(l, x, h)
      BY <1>1, <1>2
    <2>2. /\ SlotList(<< x >> \o q) /\ IsChain(new, x, << x >> \o q)
          /\ new \in [MqSlot -> Link]
          /\ Range(<< x >> \o q) = Range(q) \cup {x} /\ Len(<< x >> \o q) = Len(q) + 1
          /\ \A i \in 1 .. Len(q) + 1 : (<< x >> \o q)[i] = IF i = 1 THEN x ELSE q[i - 1]
          /\ Nth(<< x >> \o q, Len(<< x >> \o q)) = IF Nth(q, Len(q)) = Null THEN x ELSE Nth(q, Len(q))
      BY ONLY <2>1, ChainCons
    <2>. QED  BY <1>3, <2>2
  <1>5. \A y \in MqSlot \ {x} : new[y] = l[y]
    BY <1>1 DEF Pointed
  <1>6. IsChain(new, fr, f)
    <2>1. \A y \in Range(f) : new[y] = l[y]
      BY <1>1, <1>5
    <2>. QED  BY <1>1, <2>1, ChainKept
  <1>7. Range(r) \cap Range(f) = {} /\ Range(r) \cup Range(f) = MqSlot \ (held \ {x})
    BY <1>1, <1>4
  <1>8. Len(r) <= Size /\ Size \in Nat /\ Len(q) \in Nat
    BY <1>1, <1>4, SlotListBound, SizeFacts, LenProperties DEF SlotList
  <1>9. Len(q) < Size
    BY <1>4, <1>8
  <1>10. q \in Seq(MqSlot) /\ r \in Seq(MqSlot)
    BY <1>1, <1>4 DEF SlotList
  <1>. QED  BY <1>1, <1>3, <1>4, <1>5, <1>6, <1>7, <1>9, <1>10 DEF SlotsOK, SlotFirst

(***************************************************************************)
(* A slot that is held becomes the first free one.                         *)
(***************************************************************************)
LEMMA SlotFreed ==
  ASSUME NEW l, NEW h, NEW tl, NEW fr, NEW e, NEW q, NEW f, NEW held,
         NEW x, Holding(l, h, tl, fr, e, q, f, held, x),
         NEW new, new = Pointed(l, x, fr)
  PROVE  SlotBack(l, h, tl, fr, e, q, f, held, x, new)
  <1>1. /\ SlotList(q) /\ IsChain(l, h, q) /\ SlotList(f) /\ IsChain(l, fr, f)
        /\ Range(q) \cap Range(f) = {} /\ Range(q) \cup Range(f) = MqSlot \ held
        /\ l \in [MqSlot -> Link] /\ tl = Nth(q, Len(q)) /\ e = Len(q)
        /\ x \in held /\ x \in MqSlot
    BY DEF SlotsOK, Holding
  <1>2. x \notin Range(f)
    BY <1>1
  <1>3. PICK r : r = << x >> \o f
    OBVIOUS
  <1>4. /\ SlotList(r) /\ IsChain(new, x, r) /\ new \in [MqSlot -> Link]
        /\ Range(r) = Range(f) \cup {x} /\ Len(r) = Len(f) + 1
    <2>1. /\ l \in [MqSlot -> Link] /\ SlotList(f) /\ IsChain(l, fr, f) /\ x \in MqSlot
          /\ x \notin Range(f) /\ new = Pointed(l, x, fr)
      BY <1>1, <1>2
    <2>2. /\ SlotList(<< x >> \o f) /\ IsChain(new, x, << x >> \o f)
          /\ new \in [MqSlot -> Link]
          /\ Range(<< x >> \o f) = Range(f) \cup {x} /\ Len(<< x >> \o f) = Len(f) + 1
      BY ONLY <2>1, ChainCons
    <2>. QED  BY <1>3, <2>2
  <1>5. \A y \in MqSlot \ {x} : new[y] = l[y]
    BY <1>1 DEF Pointed
  <1>6. IsChain(new, h, q)
    <2>1. \A y \in Range(q) : new[y] = l[y]
      BY <1>1, <1>5
    <2>. QED  BY <1>1, <2>1, ChainKept
  <1>7. Range(q) \cap Range(r) = {} /\ Range(q) \cup Range(r) = MqSlot \ (held \ {x})
    BY <1>1, <1>4
  <1>. QED  BY <1>1, <1>3, <1>4, <1>5, <1>6, <1>7 DEF SlotsOK, SlotBack

(***************************************************************************)
(* The reset puts all messages into the free list.                         *)
(***************************************************************************)
LEMMA SlotsDrained ==
  ASSUME NEW l, NEW h, NEW tl, NEW fr, NEW e, NEW q, NEW f, NEW held,
         SlotsOK(l, h, tl, fr, e, q, f, held),
         NEW new, new = DrainedLinks(l, q, fr)
  PROVE  /\ SlotsOK(new, Null, IF tl \in Range(q) THEN Null ELSE tl, DrainedStart(q, fr), 0,
                    << >>, Backwards(q, f), held)
         /\ \A y \in MqSlot \cap held : new[y] = l[y]
  <1>1. /\ SlotList(q) /\ IsChain(l, h, q) /\ SlotList(f) /\ IsChain(l, fr, f)
        /\ Range(q) \cap Range(f) = {} /\ Range(q) \cup Range(f) = MqSlot \ held
        /\ l \in [MqSlot -> Link] /\ tl = Nth(q, Len(q)) /\ fr \in Link /\ q \in Seq(MqSlot)
    <2>1. fr \in Link /\ q \in Seq(MqSlot)
      BY SlotsAre
    <2>. QED  BY <2>1 DEF SlotsOK
  <1>2. PICK r : r = Backwards(q, f)
    OBVIOUS
  <1>3. SlotList(r) /\ Range(r) = Range(q) \cup Range(f)
    BY <1>1, <1>2, BackwardsFacts
  <1>4. IsChain(new, DrainedStart(q, fr), r)
    BY <1>1, <1>2, DrainedChain
  <1>5. new \in [MqSlot -> Link] /\ \A y \in MqSlot \ Range(q) : new[y] = l[y]
    BY <1>1, DrainedPointers
  <1>6. Range(<< >>) = {} /\ Len(<< >>) = 0
    BY DEF Range
  <1>7. SlotList(<< >>) /\ IsChain(new, Null, << >>) /\ Nth(<< >>, Len(<< >>)) = Null
    BY DEF SlotList, IsInjective, IsChain, Nth
  <1>8. (IF tl \in Range(q) THEN Null ELSE tl) = Null
    <2>1. tl = Null \/ tl \in Range(q)
      <3>1. CASE Len(q) \in 1 .. Len(q)
        BY <1>1, <3>1, NthFacts
      <3>2. CASE Len(q) \notin 1 .. Len(q)
        BY <1>1, <3>2 DEF Nth
      <3>. QED  BY <3>1, <3>2
    <2>. QED  BY <2>1
  <1>9. \A y \in MqSlot \cap held : new[y] = l[y]
    BY <1>1, <1>5
  <1>. QED  BY <1>1, <1>2, <1>3, <1>4, <1>5, <1>6, <1>7, <1>8, <1>9 DEF SlotsOK

(***************************************************************************)
(* After rt_mq_init every slot is free.                                    *)
(***************************************************************************)
LEMMA SlotsFresh ==
  ASSUME NEW held, held \cap MqSlot = {}
  PROVE  SlotsOK(FreshLinks, Null, Null, Size, 0, << >>, [i \in MqSlot |-> Size + 1 - i], held)
  <1>1. PICK f : f = [i \in MqSlot |-> Size + 1 - i]
    OBVIOUS
  <1>2. /\ SlotList(f) /\ IsChain(FreshLinks, Size, f) /\ FreshLinks \in [MqSlot -> Link]
        /\ Range(f) = MqSlot
    BY <1>1, FreshChain
  <1>3. Range(<< >>) = {} /\ Len(<< >>) = 0
    BY DEF Range
  <1>4. SlotList(<< >>) /\ IsChain(FreshLinks, Null, << >>) /\ Nth(<< >>, Len(<< >>)) = Null
    BY DEF SlotList, IsInjective, IsChain, Nth
  <1>. QED  BY <1>1, <1>2, <1>3, <1>4 DEF SlotsOK

-----------------------------------------------------------------------------
(* The threads that copy *)

(***************************************************************************)
(* A thread takes one of what the threads of list q wait for and goes on   *)
(* to copy: it does not come back for it any more.                         *)
(***************************************************************************)
LEMMA TakeServes ==
  ASSUME ExchangeInv(k, pc, job, stage), stage = "open", NEW t \in Thread, t # Idle,
         t \notin Sleepers(k), pc[t] \in {"run", "woken"},
         NEW op \in Ops, NEW m \in Mail \cup {Junk},
         k' = k, Goto(t, "copy"), Begins(t, op, "none", m), stage' = stage,
         NEW q \in {Receivers, Senders}, t \notin Coming(k, pc, job, OpOf(Other(q))),
         NEW a \in Int, NEW b, Served(k, pc, job, q, a), Served(k, pc, job, Other(q), b)
  PROVE  /\ ExchangeInv(k', pc', job', stage')
         /\ Served(k', pc', job', q, a - 1) /\ Served(k', pc', job', Other(q), b)
  <1>1. PICK to : to = Moved(pc, t, "copy")
    OBVIOUS
  <1>2. PICK j : j = job'
    OBVIOUS
  <1>3. /\ DOMAIN pc = Thread /\ PointsOK(pc, job) /\ Sound(k, pc)
        /\ job \in [Thread -> JobType(Ops, Mail)] /\ Sleepers(k) \subseteq Thread
        /\ ListedIn(k, job, Receivers, "recv") /\ ListedIn(k, job, Senders, "send")
        /\ SweepOK(k, pc, "open")
    BY ExchangeFacts DEF ExchangeInv
  <1>4. pc' = to
    BY <1>1 DEF Goto, Moved
  <1>5. j = [job EXCEPT ![t] = [op |-> op, wait |-> "none", arg |-> m]]
    BY <1>2 DEF Begins
  <1>6. /\ j \in [Thread -> JobType(Ops, Mail)] /\ j[t].op = op
        /\ \A x \in Thread \ {t} : j[x] = job[x]
    <2>1. [op |-> op, wait |-> "none", arg |-> m] \in JobType(Ops, Mail)
      BY DEF JobType
    <2>. QED  BY <2>1, <1>3, <1>5
  <1>7. \A x \in Thread : to[x] = IF x = t THEN "copy" ELSE pc[x]
    BY <1>1, <1>3, SweepingMoved
  <1>8. PointsOK(to, j)
    <2>1. /\ PointsOK(pc, job) /\ "copy" \in IpcPC \cup {"copy"} /\ "copy" \in Inside
          /\ j[t].op # "none" /\ \A x \in Thread \ {t} : j[x] = job[x]
      BY <1>3, <1>6 DEF Inside, Ops
    <2>. QED  BY <2>1, <1>1, PointsMoved
  <1>9. Sound(k, to)
    BY <1>1, <1>3, MoveSound
  <1>10. ListedIn(k, j, Receivers, "recv") /\ ListedIn(k, j, Senders, "send")
    <2>1. \A x \in Sleepers(k) : j[x] = job[x] /\ k.err[x] = k.err[x]
      BY <1>3, <1>6
    <2>2. ListedIn(k, j, Receivers, "recv")
      BY <2>1, <1>3, ListedSame
    <2>3. ListedIn(k, j, Senders, "send")
      BY <2>1, <1>3, ListedSame
    <2>. QED  BY <2>2, <2>3
  <1>11. SweepOK(k, to, "open")
    <2>1. Sweeping(pc) = {}
      BY <1>3, SweepOpen
    <2>2. Sweeping(to) = {}
      BY <2>1, <1>1, <1>3, SweepingMoved
    <2>. QED  BY <2>2, SweepOpen
  <1>12. ExchangeInv(k', pc', job', stage')
    <2>1. ExchangeInv(k, to, j, "open")
      BY <1>6, <1>8, <1>9, <1>10, <1>11 DEF ExchangeInv
    <2>. QED  BY <2>1, <1>2, <1>4
  <1>13. ASSUME NEW o
         PROVE  Coming(k, to, j, o) = Coming(k, pc, job, o) \ {t}
    <2>1. ~ Comes(k, to, j, o, t)
      BY <1>7 DEF Comes
    <2>2. \A x \in Thread \ {t} : Comes(k, to, j, o, x) <=> Comes(k, pc, job, o, x)
      BY <1>6, <1>7 DEF Comes
    <2>. QED  BY <2>1, <2>2 DEF Coming
  <1>14. Served(k, to, j, q, a - 1)
    <2>1. PICK C : C = Coming(k, pc, job, OpOf(q))
      OBVIOUS
    <2>2. PICK w : w = k.wait[q]
      OBVIOUS
    <2>3. Enough(w, C, a)
      BY <2>1, <2>2 DEF Served
    <2>4. Enough(w, C \ {t}, a - 1)
      BY <2>3, EnoughRemove
    <2>. QED  BY <2>1, <2>2, <2>4, <1>13 DEF Served
  <1>15. Served(k, to, j, Other(q), b)
    BY <1>13 DEF Served
  <1>. QED  BY <1>2, <1>4, <1>12, <1>14, <1>15

(***************************************************************************)
(* A thread that copies while it runs: the object is open.                 *)
(***************************************************************************)
LEMMA CopyFacts ==
  ASSUME ExchangeInv(k, pc, job, stage), NEW t \in Thread, t = k.cur, pc[t] = "copy"
  PROVE  stage = "open" /\ t # Idle /\ t \notin Sleepers(k) /\ job[t].op \in Ops
  <1>1. job[t].op # "none" /\ job[t].op \in Ops \cup {"none"}
    BY ExchangeFacts DEF ExchangeInv, PointsOK
  <1>2. stage = "open"
    BY <1>1 DEF ExchangeInv
  <1>3. t # Idle /\ t \notin Sleepers(k)
    BY CurrentAwake DEF ExchangeInv
  <1>. QED  BY <1>1, <1>2, <1>3

(* The same threads copy, in the same calls. *)
SameCopies(at, jb, to, j) ==
  \A t \in Thread : /\ to[t] = "copy" <=> at[t] = "copy"
                    /\ at[t] = "copy" => j[t] = jb[t]

(***************************************************************************)
(* A thread that does not copy moves.                                      *)
(***************************************************************************)
LEMMA AsideCopies ==
  ASSUME NEW at, DOMAIN at = Thread, NEW jb, NEW t \in Thread, at[t] # "copy",
         NEW p, p # "copy", NEW j, \A x \in Thread \ {t} : j[x] = jb[x]
  PROVE  SameCopies(at, jb, Moved(at, t, p), j)
  <1>1. \A u \in Thread : Moved(at, t, p)[u] = IF u = t THEN p ELSE at[u]
    BY SweepingMoved
  <1>2. ASSUME NEW u \in Thread
        PROVE  /\ Moved(at, t, p)[u] = "copy" <=> at[u] = "copy"
               /\ at[u] = "copy" => j[u] = jb[u]
    BY <1>1
  <1>. QED  BY <1>2 DEF SameCopies

(***************************************************************************)
(* The steps of module Exchange that leave the content alone, and the      *)
(* clock, let everybody copy who did.                                      *)
(***************************************************************************)
LEMMA WaiterCopies ==
  ASSUME ExchangeInv(k, pc, job, stage), NEW t \in Thread,
         \/ WaiterStep(t) \/ StartDetach(t) \/ FailWaiters(t) \/ Reopen(t)
  PROVE  SameCopies(pc, job, pc', job')
  <1>1. DOMAIN pc = Thread /\ DOMAIN job = Thread
    BY ExchangeFacts
  <1>2. CASE pc' = pc /\ job' = job
    BY <1>2 DEF SameCopies
  <1>3. ASSUME NEW p, p # "copy", pc' = Moved(pc, t, p), pc[t] # "copy",
               \A x \in Thread \ {t} : job'[x] = job[x]
        PROVE  SameCopies(pc, job, pc', job')
    <2>1. PICK j : j = job'
      OBVIOUS
    <2>2. \A x \in Thread \ {t} : j[x] = job[x]
      BY <2>1, <1>3
    <2>3. SameCopies(pc, job, Moved(pc, t, p), j)
      BY <2>2, <1>1, <1>3, AsideCopies
    <2>. QED  BY <2>1, <2>3, <1>3
  <1>4. CASE CallFails(t)
    <2>1. \A x \in Thread \ {t} : job'[x] = job[x]
      BY <1>1, <1>4 DEF CallFails, Done
    <2>. QED  BY <2>1, <1>3, <1>4 DEF CallFails, Goto, Moved
  <1>5. CASE SweepNext(t) \/ Reopen(t)
    BY <1>2, <1>5 DEF SweepNext, Reopen
  <1>6. CASE Sweep(t)
    <2>1. PICK p : p = IF k.wait[Swept] = << >> THEN "run" ELSE "flush"
      OBVIOUS
    <2>2. p # "copy" /\ pc' = Moved(pc, t, p) /\ pc[t] = "test" /\ job' = job
      BY <2>1, <1>6 DEF Sweep, TestList, Goto, Moved
    <2>. QED  BY <2>2, <1>3
  <1>7. CASE FlushWaiter(t)
    <2>1. pc' = Moved(pc, t, "test") /\ pc[t] = "flush" /\ job' = job
      BY <1>7 DEF FlushWaiter, FlushOne, Goto, Moved, exvars
    <2>. QED  BY <2>1, <1>3
  <1>8. CASE (DoSchedule(t) \/ Sleep(t) \/ SleepReturns(t)) /\ UNCHANGED exvars
    <2>1. CASE DoSchedule(t)
      <3>1. PICK p : p = AfterSchedule[pc[t]]
        OBVIOUS
      <3>2. p # "copy" /\ pc[t] # "copy"
        BY <2>1, <3>1 DEF DoSchedule, AfterSchedule
      <3>3. pc' = Moved(pc, t, p) /\ job' = job
        BY <2>1, <3>1, <1>8 DEF DoSchedule, Goto, Moved, exvars
      <3>. QED  BY <3>2, <3>3, <1>3
    <2>2. CASE Sleep(t)
      <3>1. pc' = Moved(pc, t, "nap") /\ pc[t] = "run" /\ job' = job
        BY <2>2, <1>8 DEF Sleep, InCall, Goto, Moved, exvars
      <3>. QED  BY <3>1, <1>3
    <2>3. CASE SleepReturns(t)
      <3>1. pc' = Moved(pc, t, "run") /\ pc[t] = "slept" /\ job' = job
        BY <2>3, <1>8 DEF SleepReturns, Goto, Moved, exvars
      <3>. QED  BY <3>1, <1>3
    <2>. QED  BY <2>1, <2>2, <2>3, <1>8
  <1>9. CASE StartDetach(t)
    <2>1. pc' = Moved(pc, t, "test") /\ pc[t] = "run" /\ job' = job
      BY <1>9 DEF StartDetach, InCall, Goto, Moved
    <2>. QED  BY <2>1, <1>3
  <1>10. CASE FailWaiters(t)
    <2>1. pc' = Moved(pc, t, "sched") /\ pc[t] = "run" /\ job' = job
      BY <1>10 DEF FailWaiters, InCall, Goto, Moved, exvars
    <2>. QED  BY <2>1, <1>3
  <1>. QED  BY <1>4, <1>5, <1>6, <1>7, <1>8, <1>9, <1>10 DEF WaiterStep

-----------------------------------------------------------------------------
(* The slots in hand *)

InHands(hd) == {hd[t] : t \in {u \in Thread : hd[u] # Null}}

(***************************************************************************)
(* Whoever copies, and nobody else, has a slot in hand, everyone another   *)
(* one, and it holds the message of the call; that of an ordinary send     *)
(* points nowhere.                                                         *)
(***************************************************************************)
HandsOK(at, jb, hd, l, d) ==
  /\ hd \in [Thread -> Link]
  /\ d \in [MqSlot -> Mail \cup {Junk}]
  /\ \A t \in Thread : hd[t] # Null <=> at[t] = "copy"
  /\ \A t \in Thread : \A u \in Thread : hd[t] # Null /\ hd[t] = hd[u] => t = u
  /\ \A t \in Thread : hd[t] # Null =>
       /\ d[hd[t]] = jb[t].arg
       /\ jb[t].op = "send" => l[hd[t]] = Null /\ jb[t].arg \in Plain
       /\ jb[t].op = "urgent" => jb[t].arg \in Express

(***************************************************************************)
(* A thread takes a slot that nobody has.                                  *)
(***************************************************************************)
LEMMA HandTakes ==
  ASSUME NEW at, DOMAIN at = Thread, NEW jb, NEW hd, NEW l, NEW d, HandsOK(at, jb, hd, l, d),
         NEW t \in Thread, at[t] # "copy", NEW x \in MqSlot, x \notin InHands(hd),
         NEW g, g = Moved(hd, t, x),
         NEW j, \A u \in Thread \ {t} : j[u] = jb[u],
         NEW new, \A y \in MqSlot \ {x} : new[y] = l[y],
         NEW e \in [MqSlot -> Mail \cup {Junk}], \A y \in MqSlot \ {x} : e[y] = d[y],
         e[x] = j[t].arg,
         j[t].op = "send" => new[x] = Null /\ j[t].arg \in Plain,
         j[t].op = "urgent" => j[t].arg \in Express
  PROVE  /\ HandsOK(Moved(at, t, "copy"), j, g, new, e)
         /\ InHands(g) = InHands(hd) \cup {x}
  <1>1. PICK to : to = Moved(at, t, "copy")
    OBVIOUS
  <1>2. \A u \in Thread : to[u] = IF u = t THEN "copy" ELSE at[u]
    BY <1>1, SweepingMoved
  <1>3. Null \notin MqSlot /\ x # Null /\ x \in Link
    BY QueueAssumption DEF MqSlot, Link
  <1>4. /\ hd \in [Thread -> Link]
        /\ \A u \in Thread : hd[u] # Null <=> at[u] = "copy"
        /\ \A u \in Thread : \A v \in Thread : hd[u] # Null /\ hd[u] = hd[v] => u = v
        /\ \A u \in Thread : hd[u] # Null =>
             /\ d[hd[u]] = jb[u].arg
             /\ jb[u].op = "send" => l[hd[u]] = Null /\ jb[u].arg \in Plain
             /\ jb[u].op = "urgent" => jb[u].arg \in Express
    BY DEF HandsOK
  <1>5. g \in [Thread -> Link] /\ \A u \in Thread : g[u] = IF u = t THEN x ELSE hd[u]
    BY <1>3, <1>4 DEF Moved
  <1>6. \A u \in Thread : hd[u] # Null => hd[u] # x /\ hd[u] \in MqSlot
    BY <1>4 DEF InHands, Link
  <1>7. hd[t] = Null
    BY <1>4
  <1>8. ASSUME NEW u \in Thread
        PROVE  g[u] # Null <=> to[u] = "copy"
    <2>1. CASE u = t
      BY <2>1, <1>2, <1>3, <1>5
    <2>2. CASE u # t
      BY <2>2, <1>2, <1>4, <1>5
    <2>. QED  BY <2>1, <2>2
  <1>9. ASSUME NEW u \in Thread, NEW v \in Thread, g[u] # Null, g[u] = g[v]
        PROVE  u = v
    BY <1>4, <1>5, <1>6, <1>9
  <1>10. ASSUME NEW u \in Thread, g[u] # Null
         PROVE  /\ e[g[u]] = j[u].arg
                /\ j[u].op = "send" => new[g[u]] = Null /\ j[u].arg \in Plain
                /\ j[u].op = "urgent" => j[u].arg \in Express
    <2>1. CASE u = t
      BY <2>1, <1>5
    <2>2. CASE u # t
      <3>1. g[u] = hd[u] /\ hd[u] # Null /\ hd[u] # x /\ hd[u] \in MqSlot /\ j[u] = jb[u]
        BY <2>2, <1>5, <1>6, <1>10
      <3>2. e[hd[u]] = d[hd[u]] /\ new[hd[u]] = l[hd[u]]
        BY <3>1
      <3>. QED  BY <3>1, <3>2, <1>4
    <2>. QED  BY <2>1, <2>2
  <1>11. InHands(g) = InHands(hd) \cup {x}
    <2>1. \A u \in Thread : g[u] # Null => g[u] \in InHands(hd) \cup {x}
      BY <1>5 DEF InHands
    <2>2. \A u \in Thread : hd[u] # Null => g[u] # Null /\ g[u] = hd[u]
      BY <1>5, <1>7
    <2>3. g[t] # Null /\ g[t] = x
      BY <1>3, <1>5
    <2>. QED  BY <2>1, <2>2, <2>3 DEF InHands
  <1>. QED  BY <1>1, <1>5, <1>8, <1>9, <1>10, <1>11 DEF HandsOK

(***************************************************************************)
(* A thread gives its slot back.                                           *)
(***************************************************************************)
LEMMA HandGives ==
  ASSUME NEW at, DOMAIN at = Thread, NEW jb, NEW hd, NEW l, NEW d, HandsOK(at, jb, hd, l, d),
         NEW t \in Thread, at[t] = "copy", NEW p, p # "copy",
         NEW g, g = Moved(hd, t, Null),
         NEW j, \A u \in Thread \ {t} : j[u] = jb[u],
         NEW new, \A y \in MqSlot \cap InHands(hd) : y # hd[t] => new[y] = l[y],
         NEW e \in [MqSlot -> Mail \cup {Junk}], \A y \in MqSlot \ {hd[t]} : e[y] = d[y]
  PROVE  /\ HandsOK(Moved(at, t, p), j, g, new, e)
         /\ InHands(g) = InHands(hd) \ {hd[t]}
         /\ hd[t] \in MqSlot /\ hd[t] \in InHands(hd) /\ d[hd[t]] = jb[t].arg
         /\ jb[t].op = "send" => l[hd[t]] = Null /\ jb[t].arg \in Plain
         /\ jb[t].op = "urgent" => jb[t].arg \in Express
  <1>1. PICK to : to = Moved(at, t, p)
    OBVIOUS
  <1>2. \A u \in Thread : to[u] = IF u = t THEN p ELSE at[u]
    BY <1>1, SweepingMoved
  <1>4. /\ hd \in [Thread -> Link]
        /\ \A u \in Thread : hd[u] # Null <=> at[u] = "copy"
        /\ \A u \in Thread : \A v \in Thread : hd[u] # Null /\ hd[u] = hd[v] => u = v
        /\ \A u \in Thread : hd[u] # Null =>
             /\ d[hd[u]] = jb[u].arg
             /\ jb[u].op = "send" => l[hd[u]] = Null /\ jb[u].arg \in Plain
             /\ jb[u].op = "urgent" => jb[u].arg \in Express
    BY DEF HandsOK
  <1>5. g \in [Thread -> Link] /\ \A u \in Thread : g[u] = IF u = t THEN Null ELSE hd[u]
    BY <1>4 DEF Moved, Link
  <1>6. \A u \in Thread : hd[u] # Null => hd[u] \in MqSlot /\ hd[u] \in InHands(hd)
    BY <1>4 DEF InHands, Link
  <1>7. hd[t] # Null
    BY <1>4
  <1>8. ASSUME NEW u \in Thread
        PROVE  g[u] # Null <=> to[u] = "copy"
    <2>1. CASE u = t
      BY <2>1, <1>2, <1>5
    <2>2. CASE u # t
      BY <2>2, <1>2, <1>4, <1>5
    <2>. QED  BY <2>1, <2>2
  <1>9. ASSUME NEW u \in Thread, NEW v \in Thread, g[u] # Null, g[u] = g[v]
        PROVE  u = v
    BY <1>4, <1>5, <1>9
  <1>10. ASSUME NEW u \in Thread, g[u] # Null
         PROVE  /\ e[g[u]] = j[u].arg
                /\ j[u].op = "send" => new[g[u]] = Null /\ j[u].arg \in Plain
                /\ j[u].op = "urgent" => j[u].arg \in Express
    <2>1. u # t /\ g[u] = hd[u] /\ hd[u] # Null /\ j[u] = jb[u]
      BY <1>5, <1>10
    <2>2. hd[u] # hd[t] /\ hd[u] \in MqSlot /\ hd[u] \in InHands(hd)
      BY <2>1, <1>4, <1>6
    <2>3. e[hd[u]] = d[hd[u]] /\ new[hd[u]] = l[hd[u]]
      BY <2>2
    <2>. QED  BY <2>1, <2>3, <1>4
  <1>11. InHands(g) = InHands(hd) \ {hd[t]}
    <2>1. \A u \in Thread : g[u] # Null => u # t /\ g[u] = hd[u] /\ hd[u] # Null /\ hd[u] # hd[t]
      BY <1>4, <1>5
    <2>2. \A u \in Thread : hd[u] # Null /\ hd[u] # hd[t] => g[u] # Null /\ g[u] = hd[u]
      BY <1>5
    <2>. QED  BY <2>1, <2>2 DEF InHands
  <1>12. hd[t] \in MqSlot /\ hd[t] \in InHands(hd)
    BY <1>6, <1>7
  <1>13. /\ d[hd[t]] = jb[t].arg
         /\ jb[t].op = "send" => l[hd[t]] = Null /\ jb[t].arg \in Plain
         /\ jb[t].op = "urgent" => jb[t].arg \in Express
    BY <1>4, <1>7
  <1>. QED  BY <1>1, <1>5, <1>8, <1>9, <1>10, <1>11, <1>12, <1>13 DEF HandsOK

(***************************************************************************)
(* The same threads copy, and nobody touches their slots.                  *)
(***************************************************************************)
LEMMA HandKeeps ==
  ASSUME NEW at, NEW jb, NEW hd, NEW l, NEW d, HandsOK(at, jb, hd, l, d),
         NEW to, NEW j, SameCopies(at, jb, to, j),
         NEW new, \A y \in MqSlot \cap InHands(hd) : new[y] = l[y],
         NEW e \in [MqSlot -> Mail \cup {Junk}], \A y \in MqSlot \cap InHands(hd) : e[y] = d[y]
  PROVE  HandsOK(to, j, hd, new, e)
  <1>1. /\ hd \in [Thread -> Link]
        /\ \A u \in Thread : hd[u] # Null <=> at[u] = "copy"
        /\ \A u \in Thread : \A v \in Thread : hd[u] # Null /\ hd[u] = hd[v] => u = v
        /\ \A u \in Thread : hd[u] # Null =>
             /\ d[hd[u]] = jb[u].arg
             /\ jb[u].op = "send" => l[hd[u]] = Null /\ jb[u].arg \in Plain
             /\ jb[u].op = "urgent" => jb[u].arg \in Express
    BY DEF HandsOK
  <1>2. ASSUME NEW u \in Thread
        PROVE  hd[u] # Null <=> to[u] = "copy"
    BY <1>1 DEF SameCopies
  <1>3. ASSUME NEW u \in Thread, hd[u] # Null
        PROVE  /\ e[hd[u]] = j[u].arg
               /\ j[u].op = "send" => new[hd[u]] = Null /\ j[u].arg \in Plain
               /\ j[u].op = "urgent" => j[u].arg \in Express
    <2>1. j[u] = jb[u] /\ hd[u] \in MqSlot \cap InHands(hd)
      BY <1>1, <1>3 DEF SameCopies, InHands, Link
    <2>2. e[hd[u]] = d[hd[u]] /\ new[hd[u]] = l[hd[u]]
      BY <2>1
    <2>. QED  BY <2>1, <2>2, <1>1, <1>3
  <1>. QED  BY <1>1, <1>2, <1>3 DEF HandsOK

-----------------------------------------------------------------------------
(* The contents of a list of slots *)

Contents(d, q) == [i \in DOMAIN q |-> d[q[i]]]

(***************************************************************************)
(* As many contents as slots.                                              *)
(***************************************************************************)
LEMMA ContentsAre ==
  ASSUME NEW d \in [MqSlot -> Mail \cup {Junk}], NEW q \in Seq(MqSlot)
  PROVE  /\ Contents(d, q) \in Seq(Mail \cup {Junk}) /\ Len(Contents(d, q)) = Len(q)
         /\ \A i \in 1 .. Len(q) : Contents(d, q)[i] = d[q[i]]
  <1>1. DOMAIN q = 1 .. Len(q) /\ Len(q) \in Nat /\ \A i \in 1 .. Len(q) : q[i] \in MqSlot
    BY NthFacts
  <1>2. Contents(d, q) \in [1 .. Len(q) -> Mail \cup {Junk}]
    BY <1>1 DEF Contents
  <1>3. Contents(d, q) \in Seq(Mail \cup {Junk}) /\ Len(Contents(d, q)) = Len(q)
    BY <1>1, <1>2, SeqDef, LenProperties
  <1>. QED  BY <1>1, <1>3 DEF Contents

(***************************************************************************)
(* A slot more at the end.                                                 *)
(***************************************************************************)
LEMMA ContentsLast ==
  ASSUME NEW d \in [MqSlot -> Mail \cup {Junk}], NEW q \in Seq(MqSlot), NEW x \in MqSlot,
         NEW e \in [MqSlot -> Mail \cup {Junk}], \A y \in Range(q) : e[y] = d[y],
         Append(q, x) \in Seq(MqSlot), Len(Append(q, x)) = Len(q) + 1,
         \A i \in 1 .. Len(q) + 1 : Append(q, x)[i] = IF i = Len(q) + 1 THEN x ELSE q[i]
  PROVE  Contents(e, Append(q, x)) = Append(Contents(d, q), e[x])
  <1>1. PICK r \in Seq(MqSlot) : r = Append(q, x)
    OBVIOUS
  <1>2. PICK c : c = Contents(d, q)
    OBVIOUS
  <1>3. /\ c \in Seq(Mail \cup {Junk}) /\ Len(c) = Len(q) /\ Len(q) \in Nat
        /\ \A i \in 1 .. Len(q) : c[i] = d[q[i]] /\ q[i] \in Range(q)
    BY <1>2, ContentsAre, NthFacts
  <1>4. /\ Contents(e, r) \in Seq(Mail \cup {Junk}) /\ Len(Contents(e, r)) = Len(q) + 1
        /\ \A i \in 1 .. Len(q) + 1 : Contents(e, r)[i] = e[r[i]]
    <2>1. /\ Contents(e, r) \in Seq(Mail \cup {Junk}) /\ Len(Contents(e, r)) = Len(r)
          /\ \A i \in 1 .. Len(r) : Contents(e, r)[i] = e[r[i]]
      BY ContentsAre
    <2>2. Len(r) = Len(q) + 1
      BY <1>1
    <2>. QED  BY <2>1, <2>2
  <1>5. /\ Append(c, e[x]) \in Seq(Mail \cup {Junk}) /\ Len(Append(c, e[x])) = Len(q) + 1
        /\ \A i \in 1 .. Len(q) + 1 : Append(c, e[x])[i] = IF i = Len(q) + 1 THEN e[x] ELSE c[i]
    <2>1. e[x] \in Mail \cup {Junk}
      OBVIOUS
    <2>. QED  BY <2>1, <1>3, AppendProperties
  <1>6. ASSUME NEW i \in 1 .. Len(q) + 1
        PROVE  Contents(e, r)[i] = Append(c, e[x])[i]
    <2>1. CASE i = Len(q) + 1
      BY <2>1, <1>1, <1>4, <1>5
    <2>2. CASE i # Len(q) + 1
      <3>1. i \in 1 .. Len(q)
        BY <2>2, <1>3
      <3>2. r[i] = q[i] /\ Append(c, e[x])[i] = d[q[i]] /\ e[q[i]] = d[q[i]]
        BY <2>2, <3>1, <1>1, <1>3, <1>5
      <3>. QED  BY <3>2, <1>4
    <2>. QED  BY <2>1, <2>2
  <1>7. Contents(e, r) = Append(c, e[x])
    BY <1>4, <1>5, <1>6, SeqEqual
  <1>. QED  BY <1>1, <1>2, <1>7

(***************************************************************************)
(* A slot more in front.                                                   *)
(***************************************************************************)
LEMMA ContentsFirst ==
  ASSUME NEW d \in [MqSlot -> Mail \cup {Junk}], NEW q \in Seq(MqSlot), NEW x \in MqSlot,
         << x >> \o q \in Seq(MqSlot), Len(<< x >> \o q) = Len(q) + 1,
         \A i \in 1 .. Len(q) + 1 : (<< x >> \o q)[i] = IF i = 1 THEN x ELSE q[i - 1]
  PROVE  Contents(d, << x >> \o q) = << d[x] >> \o Contents(d, q)
  <1>1. PICK r \in Seq(MqSlot) : r = << x >> \o q
    OBVIOUS
  <1>2. PICK c : c = Contents(d, q)
    OBVIOUS
  <1>3. /\ c \in Seq(Mail \cup {Junk}) /\ Len(c) = Len(q) /\ Len(q) \in Nat
        /\ \A i \in 1 .. Len(q) : c[i] = d[q[i]]
    BY <1>2, ContentsAre, NthFacts
  <1>4. /\ Contents(d, r) \in Seq(Mail \cup {Junk}) /\ Len(Contents(d, r)) = Len(q) + 1
        /\ \A i \in 1 .. Len(q) + 1 : Contents(d, r)[i] = d[r[i]]
    <2>1. /\ Contents(d, r) \in Seq(Mail \cup {Junk}) /\ Len(Contents(d, r)) = Len(r)
          /\ \A i \in 1 .. Len(r) : Contents(d, r)[i] = d[r[i]]
      BY ContentsAre
    <2>2. Len(r) = Len(q) + 1
      BY <1>1
    <2>. QED  BY <2>1, <2>2
  <1>5. /\ << d[x] >> \o c \in Seq(Mail \cup {Junk}) /\ Len(<< d[x] >> \o c) = Len(q) + 1
        /\ \A i \in 1 .. Len(q) + 1 :
             (<< d[x] >> \o c)[i] = IF i <= 1 THEN << d[x] >>[i] ELSE c[i - 1]
    <2>1. << d[x] >> \in Seq(Mail \cup {Junk}) /\ Len(<< d[x] >>) = 1
      OBVIOUS
    <2>. QED  BY <2>1, <1>3, ConcatProperties
  <1>6. ASSUME NEW i \in 1 .. Len(q) + 1
        PROVE  Contents(d, r)[i] = (<< d[x] >> \o c)[i]
    <2>1. CASE i = 1
      <3>1. r[i] = x
        BY <2>1, <1>1
      <3>. QED  BY <2>1, <3>1, <1>4, <1>5
    <2>2. CASE i # 1
      <3>1. i - 1 \in 1 .. Len(q) /\ ~ (i <= 1)
        BY <2>2, <1>3
      <3>2. r[i] = q[i - 1] /\ c[i - 1] = d[q[i - 1]]
        BY <2>2, <3>1, <1>1, <1>3
      <3>. QED  BY <3>1, <3>2, <1>4, <1>5
    <2>. QED  BY <2>1, <2>2
  <1>7. Contents(d, r) = << d[x] >> \o c
    <2>1. PICK v : v = << d[x] >> \o c
      OBVIOUS
    <2>2. PICK w : w = Contents(d, r)
      OBVIOUS
    <2>3. /\ v \in Seq(Mail \cup {Junk}) /\ w \in Seq(Mail \cup {Junk}) /\ Len(v) = Len(w)
          /\ \A i \in 1 .. Len(w) : w[i] = v[i]
      BY <2>1, <2>2, <1>4, <1>5, <1>6
    <2>4. w = v
      BY ONLY <2>3, SeqEqual
    <2>. QED  BY <2>1, <2>2, <2>4
  <1>. QED  BY <1>1, <1>2, <1>7

(***************************************************************************)
(* The first slot taken away.                                              *)
(***************************************************************************)
LEMMA ContentsTail ==
  ASSUME NEW d \in [MqSlot -> Mail \cup {Junk}], NEW q \in Seq(MqSlot), q # << >>
  PROVE  Contents(d, q) # << >> /\ Contents(d, Tail(q)) = Tail(Contents(d, q))
  <1>1. PICK c : c = Contents(d, q)
    OBVIOUS
  <1>2. PICK r : r = Tail(q)
    OBVIOUS
  <1>3. /\ c \in Seq(Mail \cup {Junk}) /\ Len(c) = Len(q) /\ Len(q) \in Nat \ {0}
        /\ \A i \in 1 .. Len(q) : c[i] = d[q[i]]
    BY <1>1, ContentsAre, NthFacts
  <1>4. c # << >>
    BY <1>3, EmptySeq
  <1>5. /\ r \in Seq(MqSlot) /\ Len(r) = Len(q) - 1
        /\ \A i \in 1 .. Len(q) - 1 : r[i] = q[i + 1]
    BY <1>2, <1>3, HeadTailProperties
  <1>6. /\ Tail(c) \in Seq(Mail \cup {Junk}) /\ Len(Tail(c)) = Len(q) - 1
        /\ \A i \in 1 .. Len(q) - 1 : Tail(c)[i] = c[i + 1]
    BY <1>3, <1>4, HeadTailProperties
  <1>7. /\ Contents(d, r) \in Seq(Mail \cup {Junk}) /\ Len(Contents(d, r)) = Len(q) - 1
        /\ \A i \in 1 .. Len(q) - 1 : Contents(d, r)[i] = d[r[i]]
    BY <1>5, ContentsAre
  <1>8. ASSUME NEW i \in 1 .. Len(q) - 1
        PROVE  Contents(d, r)[i] = Tail(c)[i]
    <2>1. i + 1 \in 1 .. Len(q)
      BY <1>3
    <2>. QED  BY <2>1, <1>3, <1>5, <1>6, <1>7
  <1>9. Contents(d, r) = Tail(c)
    BY <1>6, <1>7, <1>8, SeqEqual
  <1>. QED  BY <1>1, <1>2, <1>4, <1>9

(***************************************************************************)
(* Other slots do not matter.                                              *)
(***************************************************************************)
LEMMA ContentsKept ==
  ASSUME NEW d, NEW q \in Seq(MqSlot), NEW e, \A y \in Range(q) : e[y] = d[y]
  PROVE  Contents(e, q) = Contents(d, q)
  <1>1. DOMAIN q = 1 .. Len(q) /\ \A i \in 1 .. Len(q) : q[i] \in Range(q)
    BY NthFacts
  <1>. QED  BY <1>1 DEF Contents

-----------------------------------------------------------------------------
(* The message queue: every step keeps its invariant and its promise *)

(***************************************************************************)
(* The inductive invariant.  The lists are what the pointers lead to; the  *)
(* slots in hand are the others; there are enough receivers on their way   *)
(* for the messages, and enough senders for the free slots.                *)
(***************************************************************************)
MqInv ==
  /\ flag \in Flags
  /\ ExchangeInv(k, pc, job, stage)
  /\ HandsOK(pc, job, hand, next, data)
  /\ SlotsOK(next, head, tail, free, entry, Chain(next, head), Chain(next, free), InHands(hand))
  /\ Served(k, pc, job, Receivers, entry)
  /\ Served(k, pc, job, Senders, Len(Chain(next, free)))

(* What the proofs start from: q is the queue and f the free list. *)
Lists(q, f) ==
  /\ q \in Seq(MqSlot) /\ f \in Seq(MqSlot)
  /\ q = Chain(next, head) /\ f = Chain(next, free)
  /\ SlotsOK(next, head, tail, free, entry, q, f, InHands(hand))
  /\ Served(k, pc, job, Receivers, entry) /\ Served(k, pc, job, Senders, Len(f))
  /\ entry = Len(q) /\ entry \in Int /\ Len(f) \in Int
  /\ free = Null <=> Len(f) = 0
  /\ SlotList(q) /\ SlotList(f) /\ Range(q) \cap InHands(hand) = {}
  /\ Queued = Contents(data, q)
  /\ hand \in [Thread -> Link] /\ data \in [MqSlot -> Mail \cup {Junk}]
  /\ next \in [MqSlot -> Link] /\ DOMAIN pc = Thread /\ DOMAIN job = Thread
  /\ free \in Link /\ head \in Link

(***************************************************************************)
(* There are such lists.                                                   *)
(***************************************************************************)
LEMMA MqFacts ==
  ASSUME MqInv
  PROVE  \E q : \E f : Lists(q, f)
  <1>1. PICK q : q = Chain(next, head)
    OBVIOUS
  <1>2. PICK f : f = Chain(next, free)
    OBVIOUS
  <1>3. /\ SlotsOK(next, head, tail, free, entry, q, f, InHands(hand))
        /\ Served(k, pc, job, Receivers, entry) /\ Served(k, pc, job, Senders, Len(f))
        /\ DOMAIN pc = Thread /\ DOMAIN job = Thread
        /\ hand \in [Thread -> Link] /\ data \in [MqSlot -> Mail \cup {Junk}]
    BY <1>1, <1>2, ExchangeFacts DEF MqInv, HandsOK
  <1>4. /\ SlotList(q) /\ SlotList(f) /\ Range(q) \cap InHands(hand) = {} /\ entry = Len(q)
        /\ next \in [MqSlot -> Link]
    BY <1>3 DEF SlotsOK
  <1>5. /\ Len(q) \in Nat /\ Len(f) \in Nat /\ q \in Seq(MqSlot) /\ f \in Seq(MqSlot)
        /\ (free = Null <=> Len(f) = 0) /\ free \in Link /\ head \in Link
    BY <1>3, SlotsAre
  <1>6. Queued = Contents(data, q)
    BY <1>1 DEF Queued, Contents
  <1>7. entry \in Int /\ Len(f) \in Int
    BY <1>4, <1>5
  <1>8. Lists(q, f)
    BY <1>1, <1>2, <1>3, <1>4, <1>5, <1>6, <1>7 DEF Lists
  <1>. QED  BY <1>8

(***************************************************************************)
(* The invariant after a step, from what the step leaves.                  *)
(***************************************************************************)
LEMMA MqInvFrom ==
  ASSUME flag' \in Flags, ExchangeInv(k', pc', job', stage'),
         HandsOK(pc', job', hand', next', data'), NEW q, NEW f, NEW held, held = InHands(hand'),
         SlotsOK(next', head', tail', free', entry', q, f, held),
         Served(k', pc', job', Receivers, entry'), Served(k', pc', job', Senders, Len(f))
  PROVE  MqInv' /\ Queued' = Contents(data', q)
  <1>1. Chain(next', head') = q /\ Chain(next', free') = f
    BY SlotsAre
  <1>2. Queued' = Contents(data', q)
    BY <1>1 DEF Queued, Contents
  <1>. QED  BY <1>1, <1>2 DEF MqInv

(***************************************************************************)
(* The steps that leave the content and those who copy alone.              *)
(***************************************************************************)
LEMMA MqSame ==
  ASSUME MqInv, UNCHANGED << qvars, flag >>, ExchangeInv(k', pc', job', stage'),
         SameCopies(pc, job, pc', job'),
         Served(k', pc', job', Receivers, entry),
         Served(k', pc', job', Senders, Len(Chain(next, free)))
  PROVE  MqInv' /\ UNCHANGED Queued
  <1>1. PICK j : j = job'
    OBVIOUS
  <1>2. PICK to : to = pc'
    OBVIOUS
  <1>3. /\ HandsOK(pc, job, hand, next, data) /\ data \in [MqSlot -> Mail \cup {Junk}]
        /\ SameCopies(pc, job, to, j)
    BY <1>1, <1>2 DEF MqInv, HandsOK
  <1>4. HandsOK(to, j, hand, next, data)
    BY <1>3, HandKeeps
  <1>5. UNCHANGED << free, head, tail, next, entry, data, hand, flag >>
    BY DEF qvars
  <1>6. UNCHANGED Queued
    BY <1>5 DEF Queued
  <1>. QED  BY <1>1, <1>2, <1>4, <1>5, <1>6 DEF MqInv

(***************************************************************************)
(* The waiters and the clock, and the start of a detach.                   *)
(***************************************************************************)
LEMMA MqStepQuiet ==
  ASSUME MqInv, UNCHANGED qvars,
         ClockStep \/ \E t \in Thread : WaiterStep(t) \/ StartDetach(t)
  PROVE  MqInv' /\ UNCHANGED Queued
  <1>1. ExchangeInv(k, pc, job, stage)
    BY DEF MqInv
  <1>2. /\ ExchangeInv(k', pc', job', stage') /\ Quiet(k, pc, job, k', pc', job')
        /\ SameCopies(pc, job, pc', job') /\ flag' = flag
    <2>1. CASE ClockStep
      <3>1. pc' = pc /\ job' = job /\ flag' = flag
        BY <2>1 DEF ClockStep, Tick, TickTimeout, exvars
      <3>2. SameCopies(pc, job, pc', job')
        BY <3>1 DEF SameCopies
      <3>. QED  BY <2>1, <3>1, <3>2, <1>1, ClockStepQuiet
    <2>2. ASSUME NEW t \in Thread, WaiterStep(t) \/ StartDetach(t)
          PROVE  /\ ExchangeInv(k', pc', job', stage') /\ Quiet(k, pc, job, k', pc', job')
                 /\ SameCopies(pc, job, pc', job') /\ flag' = flag
      <3>1. ExchangeInv(k', pc', job', stage') /\ Quiet(k, pc, job, k', pc', job')
        BY <2>2, <1>1, WaiterStepQuiet, StartDetachQuiet
      <3>2. SameCopies(pc, job, pc', job')
        BY <2>2, <1>1, WaiterCopies
      <3>3. flag' = flag
        BY <2>2 DEF WaiterStep, StartDetach, SweepNext, Sweep, FlushWaiter, exvars
      <3>. QED  BY <3>1, <3>2, <3>3
    <2>. QED  BY <2>1, <2>2
  <1>3. /\ Served(k', pc', job', Receivers, entry)
        /\ Served(k', pc', job', Senders, Len(Chain(next, free)))
    <2>1. /\ Served(k, pc, job, Receivers, entry)
          /\ Served(k, pc, job, Senders, Len(Chain(next, free)))
      BY DEF MqInv
    <2>. QED  BY <2>1, <1>2, QuietServes
  <1>. QED  BY <1>2, <1>3, MqSame

(***************************************************************************)
(* A sender takes a free slot and writes its message into it: the queue is *)
(* the same, there is one free slot less, and one sender less comes for    *)
(* one.                                                                    *)
(***************************************************************************)
LEMMA MqStepTakes ==
  ASSUME MqInv, NEW t \in Thread, NEW op \in {"send", "urgent"}, NEW m \in Mail,
         stage = "open", t # Idle, t \notin Sleepers(k), pc[t] \in {"run", "woken"},
         t \notin Coming(k, pc, job, "recv"),
         TakeSlot(t, op, m), data' = [data EXCEPT ![free] = m],
         NEW new, new = next', Cleared(next, free, new),
         op = "send" => new = Pointed(next, free, Null) /\ m \in Plain,
         op = "urgent" => m \in Express
  PROVE  MqInv' /\ UNCHANGED Queued
  <1>1. PICK q : \E f : Lists(q, f)
    BY MqFacts
  <1>2. PICK f : Lists(q, f)
    BY <1>1
  <1>3. PICK held : held = InHands(hand)
    OBVIOUS
  <1>4. /\ free # Null /\ hand' = Moved(hand, t, free) /\ free' = next[free]
        /\ Goto(t, "copy") /\ Begins(t, op, "none", m) /\ k' = k /\ stage' = stage
        /\ flag' = flag /\ head' = head /\ tail' = tail /\ entry' = entry
    BY DEF TakeSlot, Moved
  <1>5. /\ SlotsOK(new, head, tail, next[free], entry, q, Tail(f), held \cup {free})
        /\ Len(Tail(f)) = Len(f) - 1 /\ free \in MqSlot \ held /\ free \notin Range(q)
        /\ \A y \in MqSlot \ {free} : new[y] = next[y]
    <2>1. /\ SlotsOK(next, head, tail, free, entry, q, f, held) /\ free # Null
          /\ Cleared(next, free, new)
      BY <1>2, <1>3, <1>4 DEF Lists
    <2>2. SlotGone(next, head, tail, free, entry, q, f, held, new)
      BY ONLY <2>1, SlotTaken
    <2>. QED  BY <2>2 DEF SlotGone
  <1>6. /\ ExchangeInv(k', pc', job', stage')
        /\ Served(k', pc', job', Senders, Len(f) - 1) /\ Served(k', pc', job', Receivers, entry)
    <2>1. /\ ExchangeInv(k, pc, job, stage) /\ Served(k, pc, job, Senders, Len(f))
          /\ Served(k, pc, job, Other(Senders), entry) /\ Len(f) \in Int
          /\ Senders \in {Receivers, Senders} /\ Other(Senders) = Receivers
          /\ t \notin Coming(k, pc, job, OpOf(Other(Senders)))
          /\ op \in Ops /\ m \in Mail \cup {Junk}
      BY <1>2, Sides DEF MqInv, Lists, Ops
    <2>. QED  BY <2>1, <1>4, TakeServes
  <1>7. PICK j : j = job'
    OBVIOUS
  <1>8. j[t] = [op |-> op, wait |-> "none", arg |-> m] /\ \A u \in Thread \ {t} : j[u] = job[u]
    BY <1>2, <1>4, <1>7 DEF Begins, Lists
  <1>9. PICK e : e = data'
    OBVIOUS
  <1>10. /\ e \in [MqSlot -> Mail \cup {Junk}] /\ e[free] = m
         /\ \A y \in MqSlot \ {free} : e[y] = data[y]
    BY <1>2, <1>5, <1>9 DEF Lists
  <1>11. pc' = Moved(pc, t, "copy")
    BY <1>4 DEF Goto, Moved
  <1>12. PICK g : g = Moved(hand, t, free)
    OBVIOUS
  <1>13. HandsOK(Moved(pc, t, "copy"), j, g, new, e) /\ InHands(g) = InHands(hand) \cup {free}
    <2>1. /\ DOMAIN pc = Thread /\ HandsOK(pc, job, hand, next, data) /\ pc[t] # "copy"
          /\ free \in MqSlot /\ free \notin InHands(hand)
      BY <1>2, <1>3, <1>5 DEF Lists, MqInv
    <2>2. j[t].op = "send" => new[free] = Null /\ j[t].arg \in Plain
      BY <1>2, <1>5, <1>8 DEF Pointed, Lists
    <2>3. (j[t].op = "urgent" => j[t].arg \in Express) /\ e[free] = j[t].arg
      BY <1>8, <1>10
    <2>4. /\ \A u \in Thread \ {t} : j[u] = job[u]
          /\ \A y \in MqSlot \ {free} : new[y] = next[y]
          /\ \A y \in MqSlot \ {free} : e[y] = data[y]
          /\ e \in [MqSlot -> Mail \cup {Junk}]
      BY <1>5, <1>8, <1>10
    <2>. QED  BY ONLY <2>1, <2>2, <2>3, <2>4, <1>12, t \in Thread, HandTakes
  <1>14. MqInv' /\ Queued' = Contents(data', q)
    <2>1. /\ flag' \in Flags /\ ExchangeInv(k', pc', job', stage')
          /\ HandsOK(pc', job', hand', next', data')
      BY <1>4, <1>6, <1>7, <1>9, <1>11, <1>12, <1>13 DEF MqInv
    <2>2. SlotsOK(next', head', tail', free', entry', q, Tail(f), held \cup {free})
      BY <1>4, <1>5
    <2>3. held \cup {free} = InHands(hand')
      BY <1>3, <1>4, <1>12, <1>13
    <2>4. Served(k', pc', job', Receivers, entry') /\ Served(k', pc', job', Senders, Len(Tail(f)))
      BY <1>4, <1>5, <1>6
    <2>. QED  BY ONLY <2>1, <2>2, <2>3, <2>4, MqInvFrom
  <1>15. Contents(data', q) = Queued
    <2>1. /\ q \in Seq(MqSlot) /\ Queued = Contents(data, q)
          /\ \A y \in Range(q) : y \in MqSlot \ {free}
      BY <1>2, <1>5, NthFacts DEF Lists
    <2>2. \A y \in Range(q) : e[y] = data[y]
      BY <2>1, <1>10
    <2>3. Contents(e, q) = Contents(data, q)
      BY <2>1, <2>2, ContentsKept
    <2>. QED  BY <2>1, <2>3, <1>9
  <1>. QED  BY <1>14, <1>15

(***************************************************************************)
(* rt_mq_send_wait: the first section.                                     *)
(***************************************************************************)
LEMMA StepSendTakes ==
  ASSUME MqInv, NEW t \in Thread, NEW timeout, NEW m \in Plain, MqSendTakes(t, timeout, m)
  PROVE  MqInv' /\ UNCHANGED Queued
  <1>1. /\ stage = "open" /\ t # Idle /\ t \notin Sleepers(k) /\ pc[t] \in {"run", "woken"}
        /\ t \notin Coming(k, pc, job, "recv")
    BY RoundFacts DEF MqInv, MqSendTakes, Ops
  <1>2. PICK new : new = next'
    OBVIOUS
  <1>3. /\ TakeSlot(t, "send", m) /\ data' = [data EXCEPT ![free] = m]
        /\ new = Pointed(next, free, Null) /\ Cleared(next, free, new)
    BY <1>2 DEF MqSendTakes, Pointed, Cleared
  <1>4. m \in Mail /\ "send" \in {"send", "urgent"} /\ "send" # "urgent"
    BY DEF Mail
  <1>. QED  BY <1>1, <1>2, <1>3, <1>4, MqStepTakes

(***************************************************************************)
(* rt_mq_urgent: the first section.                                        *)
(***************************************************************************)
LEMMA StepUrgentTakes ==
  ASSUME MqInv, NEW t \in Thread, NEW m \in Express, MqUrgentTakes(t, m)
  PROVE  MqInv' /\ UNCHANGED Queued
  <1>1. /\ stage = "open" /\ t # Idle /\ t \notin Sleepers(k) /\ pc[t] \in {"run", "woken"}
        /\ t \notin Coming(k, pc, job, "recv")
    <2>1. /\ t # Idle /\ t \notin Sleepers(k) /\ pc[t] = "run" /\ job[t].op = "none"
          /\ stage = "open"
      BY CallerFacts DEF MqInv, MqUrgentTakes
    <2>. QED  BY <2>1 DEF Coming, Comes
  <1>2. PICK new : new = next'
    OBVIOUS
  <1>3. /\ TakeSlot(t, "urgent", m) /\ data' = [data EXCEPT ![free] = m]
        /\ Cleared(next, free, new)
    BY <1>2 DEF MqUrgentTakes, Cleared
  <1>4. m \in Mail /\ "urgent" \in {"send", "urgent"} /\ "urgent" # "send"
    BY DEF Mail
  <1>. QED  BY <1>1, <1>2, <1>3, <1>4, MqStepTakes

(***************************************************************************)
(* rt_mq_recv: the first section takes the first message out of the queue. *)
(***************************************************************************)
LEMMA StepRecvTakes ==
  ASSUME MqInv, NEW t \in Thread, NEW timeout, MqRecvTakes(t, timeout)
  PROVE  MqInv' /\ MqPromise!Get
  <1>1. PICK q : \E f : Lists(q, f)
    BY MqFacts
  <1>2. PICK f : Lists(q, f)
    BY <1>1
  <1>3. PICK held : held = InHands(hand)
    OBVIOUS
  <1>4. /\ stage = "open" /\ t # Idle /\ t \notin Sleepers(k) /\ pc[t] \in {"run", "woken"}
        /\ t \notin Coming(k, pc, job, "send")
    BY RoundFacts DEF MqInv, MqRecvTakes, Ops
  <1>5. /\ entry # 0 /\ hand' = Moved(hand, t, head) /\ head' = next[head]
        /\ tail' = (IF tail = head THEN Null ELSE tail) /\ next' = next /\ entry' = entry - 1
        /\ Goto(t, "copy") /\ Begins(t, "recv", "none", data[head]) /\ k' = k /\ stage' = stage
        /\ flag' = flag /\ free' = free /\ data' = data
    BY DEF MqRecvTakes, UnlinkFirst, Moved
  <1>6. /\ SlotsOK(next, next[head], IF tail = head THEN Null ELSE tail, free, entry - 1,
                   Tail(q), f, held \cup {head})
        /\ head \in MqSlot \ held /\ q # << >>
    <2>1. SlotsOK(next, head, tail, free, entry, q, f, held) /\ entry # 0
      BY <1>2, <1>3, <1>5 DEF Lists
    <2>. QED  BY <2>1, SlotUnlinked
  <1>7. /\ q \in Seq(MqSlot) /\ Queued = Contents(data, q) /\ DOMAIN pc = Thread
        /\ DOMAIN job = Thread /\ entry \in Int
        /\ data \in [MqSlot -> Mail \cup {Junk}] /\ data[head] \in Mail \cup {Junk}
    BY <1>2, <1>6 DEF Lists
  <1>8. /\ ExchangeInv(k', pc', job', stage')
        /\ Served(k', pc', job', Receivers, entry - 1) /\ Served(k', pc', job', Senders, Len(f))
    <2>1. /\ ExchangeInv(k, pc, job, stage) /\ Served(k, pc, job, Receivers, entry)
          /\ Served(k, pc, job, Other(Receivers), Len(f))
          /\ Receivers \in {Receivers, Senders} /\ Other(Receivers) = Senders
          /\ t \notin Coming(k, pc, job, OpOf(Other(Receivers)))
          /\ "recv" \in Ops
      BY <1>2, <1>4, Sides DEF MqInv, Lists, Ops
    <2>. QED  BY <2>1, <1>4, <1>5, <1>7, TakeServes
  <1>9. PICK j : j = job'
    OBVIOUS
  <1>10. /\ j[t] = [op |-> "recv", wait |-> "none", arg |-> data[head]]
         /\ \A u \in Thread \ {t} : j[u] = job[u]
    BY <1>5, <1>7, <1>9 DEF Begins
  <1>11. pc' = Moved(pc, t, "copy")
    BY <1>5 DEF Goto, Moved
  <1>12. PICK g : g = Moved(hand, t, head)
    OBVIOUS
  <1>13. HandsOK(Moved(pc, t, "copy"), j, g, next, data) /\ InHands(g) = InHands(hand) \cup {head}
    <2>1. /\ DOMAIN pc = Thread /\ HandsOK(pc, job, hand, next, data) /\ pc[t] # "copy"
          /\ head \in MqSlot /\ head \notin InHands(hand)
      BY <1>3, <1>4, <1>6, <1>7 DEF MqInv
    <2>2. j[t].op # "send" /\ j[t].op # "urgent" /\ data[head] = j[t].arg
      BY <1>10
    <2>3. /\ \A u \in Thread \ {t} : j[u] = job[u]
          /\ \A y \in MqSlot \ {head} : next[y] = next[y]
          /\ \A y \in MqSlot \ {head} : data[y] = data[y]
          /\ data \in [MqSlot -> Mail \cup {Junk}]
      BY <1>7, <1>10
    <2>. QED  BY ONLY <2>1, <2>2, <2>3, <1>12, t \in Thread, HandTakes
  <1>14. MqInv' /\ Queued' = Contents(data', Tail(q))
    <2>1. /\ flag' \in Flags /\ ExchangeInv(k', pc', job', stage')
          /\ HandsOK(pc', job', hand', next', data')
      BY <1>5, <1>8, <1>9, <1>11, <1>12, <1>13 DEF MqInv
    <2>2. SlotsOK(next', head', tail', free', entry', Tail(q), f, held \cup {head})
      BY <1>5, <1>6
    <2>3. held \cup {head} = InHands(hand')
      BY <1>3, <1>5, <1>12, <1>13
    <2>4. Served(k', pc', job', Receivers, entry') /\ Served(k', pc', job', Senders, Len(f))
      BY <1>5, <1>8
    <2>. QED  BY ONLY <2>1, <2>2, <2>3, <2>4, MqInvFrom
  <1>15. Queued # << >> /\ Queued' = Tail(Queued)
    <2>1. Contents(data, q) # << >> /\ Contents(data, Tail(q)) = Tail(Contents(data, q))
      BY <1>6, <1>7, ContentsTail
    <2>. QED  BY <2>1, <1>5, <1>7, <1>14
  <1>. QED  BY <1>14, <1>15 DEF MqPromise!Get

(* What the second section of a call of t does, where q is the list that   *)
(* it wakes, a and b the content and the room, new and e the next pointers *)
(* and the contents it leaves                                              *)
Ending(t, q, new, e, a, b) ==
  /\ t \in Thread /\ t = k.cur /\ pc[t] = "copy" /\ q \in {Receivers, Senders}
  /\ WakeAndReturn(t, q) /\ hand' = [hand EXCEPT ![t] = Null]
  /\ new = next' /\ e = data' /\ e \in [MqSlot -> Mail \cup {Junk}]
  /\ \A y \in MqSlot \cap InHands(hand) : y # hand[t] => new[y] = next[y]
  /\ \A y \in MqSlot \ {hand[t]} : e[y] = data[y]
  /\ a \in Int /\ b \in Int
  /\ Served(k, pc, job, q, a) /\ Served(k, pc, job, Other(q), b)

Ended(t, q, a, b) ==
  /\ flag' \in Flags /\ ExchangeInv(k', pc', job', stage')
  /\ HandsOK(pc', job', hand', next', data')
  /\ InHands(hand') = InHands(hand) \ {hand[t]}
  /\ Served(k', pc', job', q, a + 1) /\ Served(k', pc', job', Other(q), b)

(***************************************************************************)
(* The second section of a call ends it, and its thread has no slot in     *)
(* hand any more.                                                          *)
(***************************************************************************)
LEMMA MqStepEnds ==
  ASSUME MqInv, NEW t, NEW q, NEW new, NEW e, NEW a, NEW b, Ending(t, q, new, e, a, b)
  PROVE  Ended(t, q, a, b)
  <1>0. /\ t \in Thread /\ t = k.cur /\ pc[t] = "copy" /\ q \in {Receivers, Senders}
        /\ WakeAndReturn(t, q) /\ hand' = [hand EXCEPT ![t] = Null]
        /\ new = next' /\ e = data' /\ e \in [MqSlot -> Mail \cup {Junk}]
        /\ \A y \in MqSlot \cap InHands(hand) : y # hand[t] => new[y] = next[y]
        /\ \A y \in MqSlot \ {hand[t]} : e[y] = data[y]
        /\ a \in Int /\ b \in Int
        /\ Served(k, pc, job, q, a) /\ Served(k, pc, job, Other(q), b)
    BY DEF Ending
  <1>1. ExchangeInv(k, pc, job, stage) /\ HandsOK(pc, job, hand, next, data) /\ flag \in Flags
    BY DEF MqInv
  <1>2. DOMAIN pc = Thread /\ DOMAIN job = Thread
    BY <1>1, ExchangeFacts
  <1>3. stage = "open" /\ t # Idle /\ t \notin Sleepers(k)
    BY <1>0, <1>1, CopyFacts
  <1>4. /\ ExchangeInv(k', pc', job', stage')
        /\ Served(k', pc', job', q, a + 1) /\ Served(k', pc', job', Other(q), b)
    BY <1>0, <1>1, <1>3, WakeAndReturnAdds
  <1>5. PICK p : p = IF Wakes(q) THEN "sched" ELSE "run"
    OBVIOUS
  <1>6. p # "copy" /\ pc' = Moved(pc, t, p) /\ Done(t) /\ flag' = flag
    BY <1>0, <1>5 DEF WakeAndReturn, Goto, Moved
  <1>7. PICK j : j = job'
    OBVIOUS
  <1>8. \A u \in Thread \ {t} : j[u] = job[u]
    BY <1>2, <1>6, <1>7 DEF Done
  <1>9. PICK g : g = Moved(hand, t, Null)
    OBVIOUS
  <1>10. hand' = g
    BY <1>0, <1>9 DEF Moved
  <1>11. HandsOK(Moved(pc, t, p), j, g, new, e) /\ InHands(g) = InHands(hand) \ {hand[t]}
    <2>1. /\ DOMAIN pc = Thread /\ HandsOK(pc, job, hand, next, data) /\ pc[t] = "copy"
          /\ p # "copy" /\ \A u \in Thread \ {t} : j[u] = job[u]
      BY <1>0, <1>1, <1>2, <1>6, <1>8
    <2>2. /\ \A y \in MqSlot \cap InHands(hand) : y # hand[t] => new[y] = next[y]
          /\ \A y \in MqSlot \ {hand[t]} : e[y] = data[y]
          /\ e \in [MqSlot -> Mail \cup {Junk}]
      BY <1>0
    <2>3. t \in Thread
      BY <1>0
    <2>. QED  BY ONLY <2>1, <2>2, <2>3, <1>9, HandGives
  <1>. QED  BY <1>0, <1>1, <1>4, <1>6, <1>7, <1>10, <1>11 DEF Ended

(***************************************************************************)
(* What a thread that copies has in hand.                                  *)
(***************************************************************************)
LEMMA HandFacts ==
  ASSUME MqInv, NEW t \in Thread, pc[t] = "copy"
  PROVE  /\ hand[t] \in MqSlot /\ hand[t] \in InHands(hand) /\ data[hand[t]] = job[t].arg
         /\ job[t].op = "send" => next[hand[t]] = Null /\ job[t].arg \in Plain
         /\ job[t].op = "urgent" => job[t].arg \in Express
  <1>1. /\ hand \in [Thread -> Link] /\ hand[t] # Null
        /\ data[hand[t]] = job[t].arg
        /\ job[t].op = "send" => next[hand[t]] = Null /\ job[t].arg \in Plain
        /\ job[t].op = "urgent" => job[t].arg \in Express
    BY DEF MqInv, HandsOK
  <1>2. hand[t] \in MqSlot /\ hand[t] \in InHands(hand)
    BY <1>1 DEF Link, InHands
  <1>. QED  BY <1>1, <1>2

(***************************************************************************)
(* rt_mq_send_wait: the second section links the message.                  *)
(***************************************************************************)
LEMMA StepSendLinks ==
  ASSUME MqInv, NEW t \in Thread, MqSendLinks(t)
  PROVE  MqInv' /\ MqPromise!Next
  <1>1. PICK q : \E f : Lists(q, f)
    BY MqFacts
  <1>2. PICK f : Lists(q, f)
    BY <1>1
  <1>3. PICK held : held = InHands(hand)
    OBVIOUS
  <1>4. PICK x : x = hand[t]
    OBVIOUS
  <1>5. PICK new : new = next'
    OBVIOUS
  <1>6. /\ t = k.cur /\ pc[t] = "copy" /\ job[t].op = "send"
        /\ new = Followed(next, tail, x) /\ tail' = x
        /\ head' = (IF head = Null THEN x ELSE head) /\ entry' = entry + 1
        /\ hand' = [hand EXCEPT ![t] = Null] /\ WakeAndReturn(t, Receivers)
        /\ free' = free /\ data' = data
    BY <1>4, <1>5 DEF MqSendLinks, Copied, LinkLast, Followed
  <1>7. /\ x \in MqSlot /\ x \in held /\ data[x] = job[t].arg /\ next[x] = Null
        /\ job[t].arg \in Plain
    BY <1>3, <1>4, <1>6, HandFacts
  <1>8. /\ SlotsOK(new, IF head = Null THEN x ELSE head, x, free, entry + 1, Append(q, x), f,
                   held \ {x})
        /\ Len(q) < Size /\ q \in Seq(MqSlot)
        /\ Append(q, x) \in Seq(MqSlot) /\ Len(Append(q, x)) = Len(q) + 1
        /\ \A i \in 1 .. Len(q) + 1 : Append(q, x)[i] = IF i = Len(q) + 1 THEN x ELSE q[i]
        /\ \A y \in MqSlot \cap held : new[y] = next[y]
    <2>1. /\ Holding(next, head, tail, free, entry, q, f, held, x)
          /\ next[x] = Null /\ new = Followed(next, tail, x)
      BY <1>2, <1>3, <1>6, <1>7 DEF Lists, Holding
    <2>2. SlotLast(next, head, tail, free, entry, q, f, held, x, new)
      BY ONLY <2>1, SlotLinkedLast
    <2>. QED  BY <2>2 DEF SlotLast
  <1>9. /\ Queued = Contents(data, q) /\ data \in [MqSlot -> Mail \cup {Junk}]
        /\ entry \in Int /\ Len(f) \in Int /\ Other(Receivers) = Senders
        /\ Served(k, pc, job, Receivers, entry) /\ Served(k, pc, job, Senders, Len(f))
    BY <1>2, Sides DEF Lists
  <1>10. /\ flag' \in Flags /\ ExchangeInv(k', pc', job', stage')
         /\ HandsOK(pc', job', hand', next', data')
         /\ InHands(hand') = held \ {x}
         /\ Served(k', pc', job', Receivers, entry + 1) /\ Served(k', pc', job', Senders, Len(f))
    <2>1. \A y \in MqSlot \cap InHands(hand) : y # hand[t] => new[y] = next[y]
      BY <1>3, <1>8
    <2>2. Receivers \in {Receivers, Senders} /\ Served(k, pc, job, Other(Receivers), Len(f))
      BY <1>9
    <2>3. PICK e \in [MqSlot -> Mail \cup {Junk}] : e = data'
      BY <1>6, <1>9
    <2>4. \A y \in MqSlot \ {hand[t]} : e[y] = data[y]
      BY <2>3, <1>6
    <2>5. /\ t = k.cur /\ pc[t] = "copy" /\ WakeAndReturn(t, Receivers)
          /\ hand' = [hand EXCEPT ![t] = Null] /\ new = next' /\ entry \in Int /\ Len(f) \in Int
          /\ Served(k, pc, job, Receivers, entry) /\ MqInv
      BY <1>5, <1>6, <1>9
    <2>6. Ending(t, Receivers, new, e, entry, Len(f))
      BY <2>1, <2>2, <2>3, <2>4, <2>5 DEF Ending
    <2>7. Ended(t, Receivers, entry, Len(f))
      BY ONLY <2>6, MqInv, MqStepEnds
    <2>. QED  BY <2>7, <1>3, <1>4, <1>9 DEF Ended
  <1>11. MqInv' /\ Queued' = Contents(data', Append(q, x))
    <2>1. SlotsOK(next', head', tail', free', entry', Append(q, x), f, held \ {x})
      BY <1>5, <1>6, <1>8
    <2>2. Served(k', pc', job', Receivers, entry')
      BY <1>6, <1>10
    <2>. QED  BY ONLY <2>1, <2>2, <1>10, MqInvFrom
  <1>12. Queued' = Append(Queued, data[x]) /\ Len(Queued) < Size
    <2>1. \A y \in Range(q) : data[y] = data[y]
      OBVIOUS
    <2>2. Contents(data, Append(q, x)) = Append(Contents(data, q), data[x])
      BY <2>1, <1>7, <1>8, <1>9, ContentsLast
    <2>3. Len(Contents(data, q)) = Len(q)
      BY <1>8, <1>9, ContentsAre
    <2>. QED  BY <2>2, <2>3, <1>6, <1>8, <1>9, <1>11
  <1>13. MqPromise!Put(data[x])
    BY <1>12 DEF MqPromise!Put
  <1>. QED  BY <1>7, <1>11, <1>13 DEF MqPromise!Next

(***************************************************************************)
(* rt_mq_urgent: the second section links the message in front.            *)
(***************************************************************************)
LEMMA StepUrgentLinks ==
  ASSUME MqInv, NEW t \in Thread, MqUrgentLinks(t)
  PROVE  MqInv' /\ MqPromise!Next
  <1>1. PICK q : \E f : Lists(q, f)
    BY MqFacts
  <1>2. PICK f : Lists(q, f)
    BY <1>1
  <1>3. PICK held : held = InHands(hand)
    OBVIOUS
  <1>4. PICK x : x = hand[t]
    OBVIOUS
  <1>5. PICK new : new = next'
    OBVIOUS
  <1>6. /\ t = k.cur /\ pc[t] = "copy" /\ job[t].op = "urgent"
        /\ new = Pointed(next, x, head) /\ head' = x
        /\ tail' = (IF tail = Null THEN x ELSE tail) /\ entry' = entry + 1
        /\ hand' = [hand EXCEPT ![t] = Null] /\ WakeAndReturn(t, Receivers)
        /\ free' = free /\ data' = data
    BY <1>4, <1>5 DEF MqUrgentLinks, Copied, LinkFirst, Pointed
  <1>7. /\ x \in MqSlot /\ x \in held /\ data[x] = job[t].arg /\ job[t].arg \in Express
    BY <1>3, <1>4, <1>6, HandFacts
  <1>8. /\ SlotsOK(new, x, IF tail = Null THEN x ELSE tail, free, entry + 1, << x >> \o q, f,
                   held \ {x})
        /\ Len(q) < Size /\ q \in Seq(MqSlot)
        /\ << x >> \o q \in Seq(MqSlot) /\ Len(<< x >> \o q) = Len(q) + 1
        /\ \A i \in 1 .. Len(q) + 1 : (<< x >> \o q)[i] = IF i = 1 THEN x ELSE q[i - 1]
        /\ \A y \in MqSlot \ {x} : new[y] = next[y]
    <2>1. /\ Holding(next, head, tail, free, entry, q, f, held, x)
          /\ new = Pointed(next, x, head)
      BY <1>2, <1>3, <1>6, <1>7 DEF Lists, Holding
    <2>2. SlotFirst(next, head, tail, free, entry, q, f, held, x, new)
      BY ONLY <2>1, SlotLinkedFirst
    <2>. QED  BY <2>2 DEF SlotFirst
  <1>9. /\ Queued = Contents(data, q) /\ data \in [MqSlot -> Mail \cup {Junk}]
        /\ entry \in Int /\ Len(f) \in Int /\ Other(Receivers) = Senders
        /\ Served(k, pc, job, Receivers, entry) /\ Served(k, pc, job, Senders, Len(f))
    BY <1>2, Sides DEF Lists
  <1>10. /\ flag' \in Flags /\ ExchangeInv(k', pc', job', stage')
         /\ HandsOK(pc', job', hand', next', data')
         /\ InHands(hand') = held \ {x}
         /\ Served(k', pc', job', Receivers, entry + 1) /\ Served(k', pc', job', Senders, Len(f))
    <2>1. \A y \in MqSlot \cap InHands(hand) : y # hand[t] => new[y] = next[y]
      BY <1>4, <1>8
    <2>2. Receivers \in {Receivers, Senders} /\ Served(k, pc, job, Other(Receivers), Len(f))
      BY <1>9
    <2>3. PICK e \in [MqSlot -> Mail \cup {Junk}] : e = data'
      BY <1>6, <1>9
    <2>4. \A y \in MqSlot \ {hand[t]} : e[y] = data[y]
      BY <2>3, <1>6
    <2>5. /\ t = k.cur /\ pc[t] = "copy" /\ WakeAndReturn(t, Receivers)
          /\ hand' = [hand EXCEPT ![t] = Null] /\ new = next' /\ entry \in Int /\ Len(f) \in Int
          /\ Served(k, pc, job, Receivers, entry) /\ MqInv
      BY <1>5, <1>6, <1>9
    <2>6. Ending(t, Receivers, new, e, entry, Len(f))
      BY <2>1, <2>2, <2>3, <2>4, <2>5 DEF Ending
    <2>7. Ended(t, Receivers, entry, Len(f))
      BY ONLY <2>6, MqInv, MqStepEnds
    <2>. QED  BY <2>7, <1>3, <1>4, <1>9 DEF Ended
  <1>11. MqInv' /\ Queued' = Contents(data', << x >> \o q)
    <2>1. SlotsOK(next', head', tail', free', entry', << x >> \o q, f, held \ {x})
      BY <1>5, <1>6, <1>8
    <2>2. Served(k', pc', job', Receivers, entry')
      BY <1>6, <1>10
    <2>. QED  BY ONLY <2>1, <2>2, <1>10, MqInvFrom
  <1>12. Queued' = << data[x] >> \o Queued /\ Len(Queued) < Size
    <2>1. Contents(data, << x >> \o q) = << data[x] >> \o Contents(data, q)
      BY <1>7, <1>8, <1>9, ContentsFirst
    <2>2. Len(Contents(data, q)) = Len(q)
      BY <1>8, <1>9, ContentsAre
    <2>. QED  BY <2>1, <2>2, <1>6, <1>8, <1>9, <1>11
  <1>13. MqPromise!PutUrgent(data[x])
    BY <1>12 DEF MqPromise!PutUrgent
  <1>. QED  BY <1>7, <1>11, <1>13 DEF MqPromise!Next

(***************************************************************************)
(* rt_mq_recv: the second section frees the slot.                          *)
(***************************************************************************)
LEMMA StepRecvFrees ==
  ASSUME MqInv, NEW t \in Thread, MqRecvFrees(t)
  PROVE  MqInv' /\ UNCHANGED Queued
  <1>1. PICK q : \E f : Lists(q, f)
    BY MqFacts
  <1>2. PICK f : Lists(q, f)
    BY <1>1
  <1>3. PICK held : held = InHands(hand)
    OBVIOUS
  <1>4. PICK x : x = hand[t]
    OBVIOUS
  <1>5. PICK new : new = next'
    OBVIOUS
  <1>6. PICK e : e = data'
    OBVIOUS
  <1>7. /\ t = k.cur /\ pc[t] = "copy" /\ new = Pointed(next, x, free) /\ free' = x
        /\ e = [data EXCEPT ![x] = Junk]
        /\ hand' = [hand EXCEPT ![t] = Null] /\ WakeAndReturn(t, Senders)
        /\ head' = head /\ tail' = tail /\ entry' = entry
    BY <1>4, <1>5, <1>6 DEF MqRecvFrees, Copied, Pointed
  <1>8. x \in MqSlot /\ x \in held
    BY <1>3, <1>4, <1>7, HandFacts
  <1>9. /\ SlotsOK(new, head, tail, x, entry, q, << x >> \o f, held \ {x})
        /\ Len(<< x >> \o f) = Len(f) + 1
        /\ \A y \in MqSlot \ {x} : new[y] = next[y]
    <2>1. /\ Holding(next, head, tail, free, entry, q, f, held, x)
          /\ new = Pointed(next, x, free)
      BY <1>2, <1>3, <1>7, <1>8 DEF Lists, Holding
    <2>2. SlotBack(next, head, tail, free, entry, q, f, held, x, new)
      BY ONLY <2>1, SlotFreed
    <2>. QED  BY <2>2 DEF SlotBack
  <1>10. /\ Queued = Contents(data, q) /\ data \in [MqSlot -> Mail \cup {Junk}]
         /\ q \in Seq(MqSlot) /\ Range(q) \cap held = {}
         /\ entry \in Int /\ Len(f) \in Int /\ Other(Senders) = Receivers
         /\ Served(k, pc, job, Receivers, entry) /\ Served(k, pc, job, Senders, Len(f))
    BY <1>2, <1>3, Sides DEF Lists
  <1>11. e \in [MqSlot -> Mail \cup {Junk}] /\ \A y \in MqSlot \ {x} : e[y] = data[y]
    BY <1>7, <1>10
  <1>12. /\ flag' \in Flags /\ ExchangeInv(k', pc', job', stage')
         /\ HandsOK(pc', job', hand', next', data')
         /\ InHands(hand') = held \ {x}
         /\ Served(k', pc', job', Senders, Len(f) + 1) /\ Served(k', pc', job', Receivers, entry)
    <2>1. /\ \A y \in MqSlot \cap InHands(hand) : y # hand[t] => new[y] = next[y]
          /\ \A y \in MqSlot \ {hand[t]} : e[y] = data[y]
      BY <1>4, <1>9, <1>11
    <2>2. Senders \in {Receivers, Senders} /\ Served(k, pc, job, Other(Senders), entry)
      BY <1>10
    <2>3. /\ t = k.cur /\ pc[t] = "copy" /\ WakeAndReturn(t, Senders)
          /\ hand' = [hand EXCEPT ![t] = Null] /\ new = next' /\ entry \in Int /\ Len(f) \in Int
          /\ Served(k, pc, job, Senders, Len(f)) /\ MqInv
          /\ e = data' /\ e \in [MqSlot -> Mail \cup {Junk}]
      BY <1>5, <1>6, <1>7, <1>10, <1>11
    <2>4. Ending(t, Senders, new, e, Len(f), entry)
      BY <2>1, <2>2, <2>3 DEF Ending
    <2>5. Ended(t, Senders, Len(f), entry)
      BY ONLY <2>4, MqInv, MqStepEnds
    <2>. QED  BY <2>5, <1>3, <1>4, <1>10 DEF Ended
  <1>13. MqInv' /\ Queued' = Contents(data', q)
    <2>1. SlotsOK(next', head', tail', free', entry', q, << x >> \o f, held \ {x})
      BY <1>5, <1>7, <1>9
    <2>2. /\ Served(k', pc', job', Receivers, entry')
          /\ Served(k', pc', job', Senders, Len(<< x >> \o f))
      BY <1>7, <1>9, <1>12
    <2>. QED  BY ONLY <2>1, <2>2, <1>12, MqInvFrom
  <1>14. Contents(e, q) = Contents(data, q)
    <2>1. \A y \in Range(q) : y \in MqSlot \ {x}
      BY <1>8, <1>10, NthFacts
    <2>2. \A y \in Range(q) : e[y] = data[y]
      BY <2>1, <1>11
    <2>. QED  BY <2>2, <1>10, ContentsKept
  <1>. QED  BY <1>6, <1>10, <1>13, <1>14

(***************************************************************************)
(* A round of a call that finds no slot or no message, and fails or waits. *)
(***************************************************************************)
LEMMA MqStepAside ==
  ASSUME MqInv, NEW t \in Thread, pc[t] # "copy", NEW p, p # "copy", Goto(t, p),
         UNCHANGED << qvars, flag >>, \A x \in Thread \ {t} : job'[x] = job[x],
         ExchangeInv(k', pc', job', stage'), NEW f, f = Chain(next, free),
         Served(k', pc', job', Receivers, entry), Served(k', pc', job', Senders, Len(f))
  PROVE  MqInv' /\ UNCHANGED Queued
  <1>1. DOMAIN pc = Thread
    BY ExchangeFacts DEF MqInv
  <1>2. PICK j : j = job'
    OBVIOUS
  <1>3. \A x \in Thread \ {t} : j[x] = job[x]
    BY <1>2
  <1>4. pc' = Moved(pc, t, p)
    BY DEF Goto, Moved
  <1>5. SameCopies(pc, job, Moved(pc, t, p), j)
    BY <1>1, <1>3, AsideCopies
  <1>6. SameCopies(pc, job, pc', job')
    BY <1>2, <1>4, <1>5
  <1>. QED  BY <1>6, MqSame

(***************************************************************************)
(* rt_mq_send_wait without a free slot: the call fails or the thread waits *)
(* for one.                                                                *)
(***************************************************************************)
LEMMA StepSendAside ==
  ASSUME MqInv, NEW t \in Thread, NEW m \in Plain,
         MqSendFails(t, m) \/ \E timeout : MqSendWaits(t, timeout, m)
  PROVE  MqInv' /\ UNCHANGED Queued
  <1>1. PICK q : \E f : Lists(q, f)
    BY MqFacts
  <1>2. PICK f : Lists(q, f)
    BY <1>1
  <1>3. /\ OpOf(Senders) = "send" /\ Senders \in {Receivers, Senders} /\ Other(Senders) = Receivers
        /\ m \in Mail \cup {Junk} /\ "send" \in Ops
    BY Sides DEF Ops, Mail
  <1>4. free = Null
    BY DEF MqSendFails, MqSendWaits
  <1>5. /\ ExchangeInv(k, pc, job, stage) /\ Served(k, pc, job, Senders, 0)
        /\ Served(k, pc, job, Other(Senders), entry)
        /\ f = Chain(next, free) /\ Len(f) = 0 /\ DOMAIN job = Thread
    BY <1>2, <1>3, <1>4 DEF MqInv, Lists
  <1>6. CASE MqSendFails(t, m)
    <2>1. /\ Round(t, OpOf(Senders), "none", m) /\ Goto(t, "run") /\ Done(t)
          /\ k' = k /\ UNCHANGED stage /\ UNCHANGED << qvars, flag >>
      BY <1>3, <1>6 DEF MqSendFails
    <2>2. /\ ExchangeInv(k', pc', job', stage')
          /\ Served(k', pc', job', Senders, 0) /\ Served(k', pc', job', Other(Senders), entry)
      BY <1>3, <1>5, <2>1, FailServes
    <2>3. pc[t] # "copy" /\ "run" # "copy"
      BY <1>3, <1>5, <2>1, RoundFacts
    <2>4. \A x \in Thread \ {t} : job'[x] = job[x]
      BY <1>5, <2>1 DEF Done
    <2>. QED  BY <1>3, <1>5, <2>1, <2>2, <2>3, <2>4, MqStepAside
  <1>7. ASSUME NEW timeout, MqSendWaits(t, timeout, m)
        PROVE  MqInv' /\ UNCHANGED Queued
    <2>1. /\ Round(t, OpOf(Senders), timeout, m)
          /\ BlockOn(t, Senders, flag, OpOf(Senders), timeout, m)
          /\ UNCHANGED stage /\ UNCHANGED << qvars, flag >>
      BY <1>3, <1>7 DEF MqSendWaits
    <2>2. /\ ExchangeInv(k', pc', job', stage')
          /\ Served(k', pc', job', Senders, 0) /\ Served(k', pc', job', Other(Senders), entry)
      BY <1>3, <1>5, <2>1, BlockServes
    <2>3. pc[t] # "copy" /\ "block" # "copy"
      BY <1>3, <1>5, <2>1, RoundFacts
    <2>4. Goto(t, "block") /\ \A x \in Thread \ {t} : job'[x] = job[x]
      BY <1>5, <2>1 DEF BlockOn, Begins
    <2>. QED  BY <1>3, <1>5, <2>1, <2>2, <2>3, <2>4, MqStepAside
  <1>. QED  BY <1>6, <1>7

(***************************************************************************)
(* rt_mq_recv without a message: the same.                                 *)
(***************************************************************************)
LEMMA StepRecvAside ==
  ASSUME MqInv, NEW t \in Thread,
         MqRecvFails(t) \/ \E timeout : MqRecvWaits(t, timeout)
  PROVE  MqInv' /\ UNCHANGED Queued
  <1>1. PICK q : \E f : Lists(q, f)
    BY MqFacts
  <1>2. PICK f : Lists(q, f)
    BY <1>1
  <1>3. /\ OpOf(Receivers) = "recv" /\ Receivers \in {Receivers, Senders}
        /\ Other(Receivers) = Senders /\ Junk \in Mail \cup {Junk} /\ "recv" \in Ops
    BY Sides DEF Ops
  <1>4. entry = 0
    BY DEF MqRecvFails, MqRecvWaits
  <1>5. /\ ExchangeInv(k, pc, job, stage) /\ Served(k, pc, job, Receivers, 0)
        /\ Served(k, pc, job, Other(Receivers), Len(f))
        /\ f = Chain(next, free) /\ DOMAIN job = Thread
    BY <1>2, <1>3, <1>4 DEF MqInv, Lists
  <1>6. CASE MqRecvFails(t)
    <2>1. /\ Round(t, OpOf(Receivers), "none", Junk) /\ Goto(t, "run") /\ Done(t)
          /\ k' = k \/ k' = ErrSet(k, t, "timeout")
          /\ UNCHANGED stage /\ UNCHANGED << qvars, flag >>
      BY <1>3, <1>6 DEF MqRecvFails, ErrSet
    <2>2. /\ ExchangeInv(k', pc', job', stage') /\ Served(k', pc', job', Receivers, 0)
          /\ Served(k', pc', job', Other(Receivers), Len(f))
      BY <1>3, <1>5, <2>1, FailServes
    <2>3. pc[t] # "copy" /\ "run" # "copy"
      BY <1>3, <1>5, <2>1, RoundFacts
    <2>4. \A x \in Thread \ {t} : job'[x] = job[x]
      BY <1>5, <2>1 DEF Done
    <2>. QED  BY <1>3, <1>4, <1>5, <2>1, <2>2, <2>3, <2>4, MqStepAside
  <1>7. ASSUME NEW timeout, MqRecvWaits(t, timeout)
        PROVE  MqInv' /\ UNCHANGED Queued
    <2>1. /\ Round(t, OpOf(Receivers), timeout, Junk)
          /\ BlockOn(t, Receivers, flag, OpOf(Receivers), timeout, Junk)
          /\ UNCHANGED stage /\ UNCHANGED << qvars, flag >>
      BY <1>3, <1>7 DEF MqRecvWaits
    <2>2. /\ ExchangeInv(k', pc', job', stage') /\ Served(k', pc', job', Receivers, 0)
          /\ Served(k', pc', job', Other(Receivers), Len(f))
      BY <1>3, <1>5, <2>1, BlockServes
    <2>3. pc[t] # "copy" /\ "block" # "copy"
      BY <1>3, <1>5, <2>1, RoundFacts
    <2>4. Goto(t, "block") /\ \A x \in Thread \ {t} : job'[x] = job[x]
      BY <1>5, <2>1 DEF BlockOn, Begins
    <2>. QED  BY <1>3, <1>4, <1>5, <2>1, <2>2, <2>3, <2>4, MqStepAside
  <1>. QED  BY <1>6, <1>7

(***************************************************************************)
(* A step that empties the queue: who copies goes on, and the slots in     *)
(* hand are the same.                                                      *)
(***************************************************************************)
LEMMA MqEmptied ==
  ASSUME MqInv, ExchangeInv(k', pc', job', stage'), SameCopies(pc, job, pc', job'),
         \A x : Served(k', pc', job', Receivers, x) /\ Served(k', pc', job', Senders, x),
         flag' = flag, hand' = hand,
         NEW new, new = next', \A y \in MqSlot \cap InHands(hand) : new[y] = next[y],
         NEW e \in [MqSlot -> Mail \cup {Junk}], e = data',
         \A y \in MqSlot \cap InHands(hand) : e[y] = data[y],
         NEW f, SlotsOK(next', head', tail', free', entry', << >>, f, InHands(hand))
  PROVE  MqInv' /\ Queued' = << >>
  <1>1. PICK j : j = job'
    OBVIOUS
  <1>2. PICK to : to = pc'
    OBVIOUS
  <1>3. HandsOK(to, j, hand, new, e)
    <2>1. /\ HandsOK(pc, job, hand, next, data) /\ SameCopies(pc, job, to, j)
          /\ \A y \in MqSlot \cap InHands(hand) : new[y] = next[y]
          /\ \A y \in MqSlot \cap InHands(hand) : e[y] = data[y]
          /\ e \in [MqSlot -> Mail \cup {Junk}]
      BY <1>1, <1>2 DEF MqInv
    <2>. QED  BY ONLY <2>1, HandKeeps
  <1>4. MqInv' /\ Queued' = Contents(data', << >>)
    <2>1. PICK none : none = << >>
      OBVIOUS
    <2>2. PICK held : held = InHands(hand')
      OBVIOUS
    <2>3. /\ flag' \in Flags /\ ExchangeInv(k', pc', job', stage')
          /\ HandsOK(pc', job', hand', next', data')
          /\ SlotsOK(next', head', tail', free', entry', none, f, held) /\ held = InHands(hand')
          /\ Served(k', pc', job', Receivers, entry') /\ Served(k', pc', job', Senders, Len(f))
      BY <1>1, <1>2, <1>3, <2>1, <2>2 DEF MqInv
    <2>4. MqInv' /\ Queued' = Contents(data', none)
      BY ONLY <2>3, MqInvFrom
    <2>. QED  BY <2>1, <2>4
  <1>5. Contents(data', << >>) = << >>
    BY DEF Contents
  <1>. QED  BY <1>4, <1>5

(***************************************************************************)
(* rt_mq_control(RT_IPC_CMD_RESET).                                        *)
(***************************************************************************)
LEMMA StepMqReset ==
  ASSUME MqInv, NEW t \in Thread, MqReset(t)
  PROVE  MqInv' /\ MqPromise!Clear
  <1>1. PICK q : \E f : Lists(q, f)
    BY MqFacts
  <1>2. PICK f : Lists(q, f)
    BY <1>1
  <1>3. PICK held : held = InHands(hand)
    OBVIOUS
  <1>4. PICK new : new = next'
    OBVIOUS
  <1>5. PICK e : e = data'
    OBVIOUS
  <1>6. FailWaiters(t) /\ q = Chain(next, head)
    BY <1>2 DEF MqReset, Lists
  <1>7. /\ new = DrainedLinks(next, q, free) /\ free' = DrainedStart(q, free)
        /\ e = [i \in MqSlot |-> IF i \in Range(q) THEN Junk ELSE data[i]]
        /\ head' = Null /\ tail' = (IF tail \in Range(q) THEN Null ELSE tail) /\ entry' = 0
        /\ hand' = hand /\ flag' = flag
    BY <1>4, <1>5, <1>6 DEF MqReset, Drained, DrainedLinks, DrainedStart, FailWaiters, exvars
  <1>8. /\ SlotsOK(new, Null, IF tail \in Range(q) THEN Null ELSE tail, DrainedStart(q, free), 0,
                   << >>, Backwards(q, f), held)
        /\ \A y \in MqSlot \cap held : new[y] = next[y]
    <2>1. SlotsOK(next, head, tail, free, entry, q, f, held)
      BY <1>2, <1>3 DEF Lists
    <2>. QED  BY <2>1, <1>7, SlotsDrained
  <1>9. e \in [MqSlot -> Mail \cup {Junk}] /\ \A y \in MqSlot \cap held : e[y] = data[y]
    <2>1. data \in [MqSlot -> Mail \cup {Junk}] /\ Range(q) \cap held = {}
      BY <1>2, <1>3 DEF Lists
    <2>. QED  BY <2>1, <1>7
  <1>10. /\ ExchangeInv(k', pc', job', stage')
         /\ \A x : Served(k', pc', job', Receivers, x) /\ Served(k', pc', job', Senders, x)
    BY <1>6, ResetServes DEF MqInv
  <1>11. SameCopies(pc, job, pc', job')
    BY <1>6, WaiterCopies DEF MqInv
  <1>12. MqInv' /\ Queued' = << >>
    <2>1. PICK b : b = Backwards(q, f)
      OBVIOUS
    <2>2. SlotsOK(next', head', tail', free', entry', << >>, b, InHands(hand))
      BY <2>1, <1>3, <1>4, <1>7, <1>8
    <2>. QED  BY <2>2, <1>3, <1>4, <1>5, <1>7, <1>8, <1>9, <1>10, <1>11, MqEmptied
  <1>. QED  BY <1>12 DEF MqPromise!Clear

(***************************************************************************)
(* rt_mq_init: nobody uses the object, so no slot is in hand.              *)
(***************************************************************************)
LEMMA StepMqInitialise ==
  ASSUME MqInv, NEW t \in Thread, MqInitialise(t)
  PROVE  MqInv' /\ MqPromise!Clear
  <1>1. /\ Reopen(t) /\ stage = "gone" /\ free' = Size /\ head' = Null /\ tail' = Null
        /\ next' = FreshLinks /\ entry' = 0 /\ hand' = hand /\ flag' = flag
        /\ data' = [i \in MqSlot |-> Junk]
    BY DEF MqInitialise, Reopen
  <1>2. InHands(hand) = {}
    <2>1. \A u \in Thread : pc[u] # "copy"
      BY <1>1 DEF MqInv, ExchangeInv, PointsOK
    <2>2. \A u \in Thread : hand[u] = Null
      BY <2>1 DEF MqInv, HandsOK
    <2>. QED  BY <2>2 DEF InHands
  <1>3. PICK new : new = next'
    OBVIOUS
  <1>4. PICK e \in [MqSlot -> Mail \cup {Junk}] : e = data'
    BY <1>1
  <1>5. PICK f : f = [i \in MqSlot |-> Size + 1 - i]
    OBVIOUS
  <1>6. SlotsOK(next', head', tail', free', entry', << >>, f, InHands(hand))
    BY <1>1, <1>2, <1>5, SlotsFresh
  <1>7. /\ ExchangeInv(k', pc', job', stage')
        /\ \A x : Served(k', pc', job', Receivers, x) /\ Served(k', pc', job', Senders, x)
    BY <1>1, ReopenServes DEF MqInv
  <1>8. SameCopies(pc, job, pc', job')
    BY <1>1, WaiterCopies DEF MqInv
  <1>9. /\ \A y \in MqSlot \cap InHands(hand) : new[y] = next[y]
        /\ \A y \in MqSlot \cap InHands(hand) : e[y] = data[y]
    BY <1>2
  <1>10. MqInv' /\ Queued' = << >>
    BY <1>1, <1>3, <1>4, <1>6, <1>7, <1>8, <1>9, MqEmptied
  <1>. QED  BY <1>10 DEF MqPromise!Clear

(***************************************************************************)
(* rt_mq_send in an interrupt handler: a slot is taken, written and linked *)
(* in one step.                                                            *)
(***************************************************************************)
LEMMA StepMqIrqSend ==
  ASSUME MqInv, NEW m \in Plain, MqIrqSend(m)
  PROVE  MqInv' /\ MqPromise!Put(m)
  <1>1. PICK q : \E f : Lists(q, f)
    BY MqFacts
  <1>2. PICK f : Lists(q, f)
    BY <1>1
  <1>3. PICK held : held = InHands(hand)
    OBVIOUS
  <1>4. PICK mid : mid = Pointed(next, free, Null)
    OBVIOUS
  <1>5. PICK new : new = next'
    OBVIOUS
  <1>6. PICK e : e = data'
    OBVIOUS
  <1>7. /\ stage = "open" /\ free # Null /\ free' = next[free]
        /\ new = Followed(mid, tail, free) /\ tail' = free
        /\ head' = (IF head = Null THEN free ELSE head) /\ entry' = entry + 1
        /\ e = [data EXCEPT ![free] = m] /\ hand' = hand /\ WakeFromIrq(Receivers)
        /\ pc' = pc /\ job' = job /\ flag' = flag
    BY <1>4, <1>5, <1>6 DEF MqIrqSend, LinkLast, Followed, Pointed, WakeFromIrq, exvars
  <1>8. PICK g : g = Tail(f)
    OBVIOUS
  <1>9. PICK rest : rest = next[free]
    OBVIOUS
  <1>10. PICK more : more = held \cup {free}
    OBVIOUS
  <1>11. SlotGone(next, head, tail, free, entry, q, f, held, mid)
    <2>1. /\ SlotsOK(next, head, tail, free, entry, q, f, held) /\ free # Null
          /\ Cleared(next, free, mid)
      BY <1>2, <1>3, <1>4, <1>7 DEF Lists, Cleared
    <2>. QED  BY ONLY <2>1, SlotTaken
  <1>12. /\ SlotsOK(mid, head, tail, rest, entry, q, g, more) /\ Len(g) = Len(f) - 1
         /\ free \in MqSlot \ held /\ free \notin Range(q)
         /\ \A y \in MqSlot \ {free} : mid[y] = next[y]
    BY <1>8, <1>9, <1>10, <1>11 DEF SlotGone
  <1>13. mid[free] = Null
    <2>1. next \in [MqSlot -> Link]
      BY <1>2 DEF Lists
    <2>. QED  BY <2>1, <1>4, <1>12 DEF Pointed
  <1>14. SlotLast(mid, head, tail, rest, entry, q, g, more, free, new)
    <2>1. /\ Holding(mid, head, tail, rest, entry, q, g, more, free)
          /\ mid[free] = Null /\ new = Followed(mid, tail, free)
      BY <1>7, <1>10, <1>12, <1>13 DEF Holding
    <2>. QED  BY ONLY <2>1, SlotLinkedLast
  <1>15. more \ {free} = held
    BY <1>10, <1>12
  <1>16. /\ SlotsOK(new, IF head = Null THEN free ELSE head, free, rest, entry + 1,
                    Append(q, free), g, held)
         /\ Len(q) < Size /\ q \in Seq(MqSlot)
         /\ Append(q, free) \in Seq(MqSlot) /\ Len(Append(q, free)) = Len(q) + 1
         /\ \A i \in 1 .. Len(q) + 1 :
              Append(q, free)[i] = IF i = Len(q) + 1 THEN free ELSE q[i]
         /\ \A y \in MqSlot \cap more : new[y] = mid[y]
    BY <1>14, <1>15 DEF SlotLast
  <1>17. /\ Queued = Contents(data, q) /\ data \in [MqSlot -> Mail \cup {Junk}]
         /\ entry \in Int /\ Len(f) \in Int /\ Other(Receivers) = Senders
         /\ Receivers \in {Receivers, Senders}
         /\ Served(k, pc, job, Receivers, entry) /\ Served(k, pc, job, Senders, Len(f))
         /\ \A y \in Range(q) : y \in MqSlot
    BY <1>2, Sides, NthFacts DEF Lists, SlotList
  <1>18. m \in Mail \cup {Junk}
    BY DEF Mail
  <1>19. /\ e \in [MqSlot -> Mail \cup {Junk}] /\ e[free] = m
         /\ \A y \in MqSlot \ {free} : e[y] = data[y]
    BY <1>7, <1>12, <1>17, <1>18
  <1>20. /\ ExchangeInv(k', pc', job', stage') /\ Served(k', pc', job', Receivers, entry + 1)
         /\ Served(k', pc', job', Senders, Len(f) - 1)
    BY <1>7, <1>17, WakeFromIrqServes DEF MqInv
  <1>21. HandsOK(pc, job, hand, new, e)
    <2>1. \A y \in MqSlot \cap InHands(hand) : new[y] = next[y]
      BY <1>3, <1>10, <1>12, <1>16
    <2>2. \A y \in MqSlot \cap InHands(hand) : e[y] = data[y]
      BY <1>3, <1>12, <1>19
    <2>3. HandsOK(pc, job, hand, next, data) /\ SameCopies(pc, job, pc, job)
      BY DEF MqInv, SameCopies
    <2>4. e \in [MqSlot -> Mail \cup {Junk}]
      BY <1>19
    <2>. QED  BY ONLY <2>1, <2>2, <2>3, <2>4, HandKeeps
  <1>22. MqInv' /\ Queued' = Contents(data', Append(q, free))
    <2>1. PICK r : r = Append(q, free)
      OBVIOUS
    <2>2. SlotsOK(next', head', tail', free', entry', r, g, held)
      BY <2>1, <1>5, <1>7, <1>9, <1>16
    <2>3. /\ flag' \in Flags /\ ExchangeInv(k', pc', job', stage')
          /\ HandsOK(pc', job', hand', next', data') /\ held = InHands(hand')
          /\ Served(k', pc', job', Receivers, entry') /\ Served(k', pc', job', Senders, Len(g))
      BY <1>3, <1>5, <1>6, <1>7, <1>12, <1>20, <1>21 DEF MqInv
    <2>4. MqInv' /\ Queued' = Contents(data', r)
      BY ONLY <2>2, <2>3, MqInvFrom
    <2>. QED  BY <2>1, <2>4
  <1>23. Queued' = Append(Queued, m) /\ Len(Queued) < Size
    <2>1. \A y \in Range(q) : e[y] = data[y]
      BY <1>12, <1>17, <1>19
    <2>2. free \in MqSlot
      BY <1>12
    <2>3. Contents(e, Append(q, free)) = Append(Contents(data, q), e[free])
      BY <2>1, <2>2, <1>16, <1>17, <1>19, ContentsLast
    <2>4. Len(Contents(data, q)) = Len(q)
      BY <1>16, <1>17, ContentsAre
    <2>. QED  BY <2>3, <2>4, <1>6, <1>16, <1>17, <1>19, <1>22
  <1>. QED  BY <1>22, <1>23 DEF MqPromise!Put

-----------------------------------------------------------------------------
(* The message queue: its theorems *)

(***************************************************************************)
(* The invariant holds at the start, and the queue is empty.               *)
(***************************************************************************)
LEMMA MqInitInv == MqInit => MqInv /\ Queued = << >>
  <1> SUFFICES ASSUME MqInit PROVE MqInv /\ Queued = << >>
    OBVIOUS
  <1>1. /\ ExchangeInv(k, pc, job, stage) /\ flag \in Flags
        /\ \A t \in Thread : pc[t] = "run"
        /\ \A x : Served(k, pc, job, Receivers, x) /\ Served(k, pc, job, Senders, x)
    BY ExchangeStarts DEF MqInit
  <1>2. /\ free = Size /\ head = Null /\ tail = Null /\ next = FreshLinks /\ entry = 0
        /\ data = [i \in MqSlot |-> Junk] /\ hand = [t \in Thread |-> Null]
    BY DEF MqInit
  <1>3. HandsOK(pc, job, hand, next, data)
    BY <1>1, <1>2 DEF HandsOK, Link
  <1>4. InHands(hand) = {}
    BY <1>2 DEF InHands
  <1>5. PICK f : f = [i \in MqSlot |-> Size + 1 - i]
    OBVIOUS
  <1>6. PICK none : none = << >>
    OBVIOUS
  <1>7. SlotsOK(next, head, tail, free, entry, none, f, InHands(hand))
    BY <1>2, <1>4, <1>5, <1>6, SlotsFresh
  <1>8. Chain(next, head) = none /\ Chain(next, free) = f
    BY <1>7, SlotsAre
  <1>9. Queued = << >>
    BY <1>6, <1>8 DEF Queued
  <1>. QED  BY <1>1, <1>3, <1>7, <1>8, <1>9 DEF MqInv

(***************************************************************************)
(* Every step keeps the invariant, and what it does to the queue is a step *)
(* of MailboxSpec or nothing.                                              *)
(***************************************************************************)
LEMMA MqNextInv == MqInv /\ [MqNext]_mqvars => MqInv' /\ [MqPromise!Next]_Queued
  <1> SUFFICES ASSUME MqInv, [MqNext]_mqvars
               PROVE  MqInv' /\ (MqPromise!Next \/ UNCHANGED Queued)
    OBVIOUS
  <1>1. ASSUME NEW t \in Thread, MqThreadStep(t)
        PROVE  MqInv' /\ (MqPromise!Next \/ UNCHANGED Queued)
    <2>1. CASE MqSendLinks(t) \/ MqUrgentLinks(t) \/ MqRecvFrees(t)
      BY <2>1, StepSendLinks, StepUrgentLinks, StepRecvFrees
    <2>2. CASE MqReset(t) \/ MqInitialise(t)
      BY <2>2, StepMqReset, StepMqInitialise DEF MqPromise!Next
    <2>3. CASE MqDetach(t)
      BY <2>3, MqStepQuiet DEF MqDetach
    <2>4. CASE MqRecvFails(t) \/ \E timeout \in Timeouts : MqRecvWaits(t, timeout)
      BY <2>4, StepRecvAside
    <2>5. CASE \E timeout \in Timeouts : MqRecvTakes(t, timeout)
      BY <2>5, StepRecvTakes DEF MqPromise!Next
    <2>6. CASE \E m \in Express : MqUrgentTakes(t, m)
      BY <2>6, StepUrgentTakes
    <2>7. ASSUME NEW m \in Plain,
                 \/ MqSendFails(t, m)
                 \/ \E timeout \in Timeouts :
                      MqSendWaits(t, timeout, m) \/ MqSendTakes(t, timeout, m)
          PROVE  MqInv' /\ UNCHANGED Queued
      BY <2>7, StepSendAside, StepSendTakes
    <2>8. CASE WaiterStep(t) /\ UNCHANGED qvars
      BY <2>8, MqStepQuiet
    <2>. QED  BY <1>1, <2>1, <2>2, <2>3, <2>4, <2>5, <2>6, <2>7, <2>8 DEF MqThreadStep
  <1>2. ASSUME NEW m \in Plain, MqIrqSend(m)
        PROVE  MqInv' /\ MqPromise!Next
    BY <1>2, StepMqIrqSend DEF MqPromise!Next
  <1>3. CASE ClockStep /\ UNCHANGED qvars
    BY <1>3, MqStepQuiet
  <1>4. CASE UNCHANGED mqvars
    <2>1. /\ ExchangeInv(k', pc', job', stage') /\ UNCHANGED << qvars, flag >>
          /\ SameCopies(pc, job, pc', job')
          /\ Served(k', pc', job', Receivers, entry)
          /\ Served(k', pc', job', Senders, Len(Chain(next, free)))
      BY <1>4 DEF MqInv, mqvars, qvars, SameCopies
    <2>. QED  BY <2>1, MqSame
  <1>. QED  BY <1>1, <1>2, <1>3, <1>4 DEF MqNext

(***************************************************************************)
(* The inductive invariant always holds.                                   *)
(***************************************************************************)
THEOREM MqSpecIInv == MqSpec => []MqInv
  <1>. QED  BY MqInitInv, MqNextInv, PTL DEF MqSpec

(***************************************************************************)
(* The state always has its type: the pointers lead to slots or nowhere    *)
(* and the count stays within the size, in every order of the calls.       *)
(***************************************************************************)
THEOREM MqTypeCorrect == MqSpec => []MqTypeOK
  <1>1. MqInv => MqTypeOK
    <2> SUFFICES ASSUME MqInv PROVE MqTypeOK
      OBVIOUS
    <2>1. /\ ExchangeType /\ pc \in [Thread -> IpcPC \cup {"copy"}]
          /\ hand \in [Thread -> Link] /\ data \in [MqSlot -> Mail \cup {Junk}]
      BY ExchangeSays DEF MqInv, ExchangeInv, PointsOK, HandsOK
    <2>2. /\ SlotsOK(next, head, tail, free, entry, Chain(next, head), Chain(next, free),
                     InHands(hand))
          /\ next \in [MqSlot -> Link]
      BY DEF MqInv, SlotsOK
    <2>3. head \in Link /\ tail \in Link /\ free \in Link /\ entry \in 0 .. Size
      BY <2>2, SlotsAre
    <2>. QED  BY <2>1, <2>2, <2>3 DEF MqTypeOK
  <1>. QED  BY <1>1, MqSpecIInv, PTL

(***************************************************************************)
(* A thread suspended in rt_mq_send_wait or rt_mq_recv is always in the    *)
(* list of its side, and its timer runs when its wait is limited.          *)
(***************************************************************************)
THEOREM MqWaitersAlwaysListed == MqSpec => []WaitersListed
  <1>1. MqInv => WaitersListed
    BY ExchangeSays DEF MqInv
  <1>. QED  BY <1>1, MqSpecIInv, PTL

(***************************************************************************)
(* Two lists of slots that have none in common.                            *)
(***************************************************************************)
LEMMA JoinedLists ==
  ASSUME NEW q, NEW f, SlotList(q), SlotList(f), Range(q) \cap Range(f) = {}
  PROVE  IsInjective(q \o f) /\ Range(q \o f) = Range(q) \cup Range(f)
  <1>1. q \in Seq(MqSlot) /\ f \in Seq(MqSlot) /\ IsInjective(q) /\ IsInjective(f)
    BY DEF SlotList
  <1>2. /\ DOMAIN q = 1 .. Len(q) /\ DOMAIN f = 1 .. Len(f)
        /\ Len(q) \in Nat /\ Len(f) \in Nat
    BY <1>1, LenProperties
  <1>3. PICK r : r = q \o f
    OBVIOUS
  <1>4. /\ DOMAIN r = 1 .. Len(q) + Len(f)
        /\ \A i \in 1 .. Len(q) + Len(f) : r[i] = IF i <= Len(q) THEN q[i] ELSE f[i - Len(q)]
    <2>1. /\ r \in Seq(MqSlot) /\ Len(r) = Len(q) + Len(f)
          /\ \A i \in 1 .. Len(q) + Len(f) : r[i] = IF i <= Len(q) THEN q[i] ELSE f[i - Len(q)]
      BY <1>1, <1>3, ConcatProperties
    <2>. QED  BY <2>1, LenProperties
  <1>5. ASSUME NEW i \in 1 .. Len(q) + Len(f)
        PROVE  \/ i \in 1 .. Len(q) /\ r[i] = q[i]
               \/ i > Len(q) /\ i - Len(q) \in 1 .. Len(f) /\ r[i] = f[i - Len(q)]
    <2>1. CASE i <= Len(q)
      BY <2>1, <1>2, <1>4
    <2>2. CASE ~ (i <= Len(q))
      <3>1. i > Len(q) /\ i - Len(q) \in 1 .. Len(f)
        BY <2>2, <1>2
      <3>. QED  BY <2>2, <3>1, <1>4
    <2>. QED  BY <2>1, <2>2
  <1>6. /\ \A i \in 1 .. Len(q) : q[i] \in Range(q)
        /\ \A i \in 1 .. Len(f) : f[i] \in Range(f)
    BY <1>2 DEF Range
  <1>7. ASSUME NEW a \in 1 .. Len(q) + Len(f), NEW b \in 1 .. Len(q) + Len(f), r[a] = r[b]
        PROVE  a = b
    <2>1. CASE a \in 1 .. Len(q) /\ r[a] = q[a]
      <3>1. b \in 1 .. Len(q) /\ r[b] = q[b]
        <4>1. ASSUME b - Len(q) \in 1 .. Len(f), r[b] = f[b - Len(q)]
              PROVE  FALSE
          BY <4>1, <2>1, <1>6, <1>7
        <4>. QED  BY <4>1, <1>5
      <3>. QED  BY <2>1, <3>1, <1>1, <1>2, <1>7 DEF IsInjective
    <2>2. CASE a > Len(q) /\ a - Len(q) \in 1 .. Len(f) /\ r[a] = f[a - Len(q)]
      <3>1. b - Len(q) \in 1 .. Len(f) /\ r[b] = f[b - Len(q)]
        <4>1. ASSUME b \in 1 .. Len(q), r[b] = q[b]
              PROVE  FALSE
          BY <4>1, <2>2, <1>6, <1>7
        <4>. QED  BY <4>1, <1>5
      <3>2. a - Len(q) = b - Len(q)
        BY <2>2, <3>1, <1>1, <1>2, <1>7 DEF IsInjective
      <3>. QED  BY <3>2, <1>2
    <2>. QED  BY <2>1, <2>2, <1>5
  <1>8. IsInjective(r)
    BY <1>4, <1>7 DEF IsInjective
  <1>9. Range(r) = Range(q) \cup Range(f)
    <2>1. Range(r) \subseteq Range(q) \cup Range(f)
      BY <1>4, <1>5, <1>6 DEF Range
    <2>2. ASSUME NEW i \in 1 .. Len(q)
          PROVE  q[i] \in Range(r)
      <3>1. i \in 1 .. Len(q) + Len(f) /\ i <= Len(q)
        BY <1>2
      <3>2. r[i] = q[i]
        BY <3>1, <1>4
      <3>. QED  BY <3>1, <3>2, <1>4 DEF Range
    <2>3. ASSUME NEW i \in 1 .. Len(f)
          PROVE  f[i] \in Range(r)
      <3>1. PICK n : n = i + Len(q)
        OBVIOUS
      <3>2. n \in 1 .. Len(q) + Len(f) /\ ~ (n <= Len(q)) /\ n - Len(q) = i
        BY <3>1, <1>2
      <3>3. r[n] = f[i]
        BY <3>2, <1>4
      <3>. QED  BY <3>2, <3>3, <1>4 DEF Range
    <2>4. Range(q) \subseteq Range(r)
      BY <2>2, <1>2 DEF Range
    <2>5. Range(f) \subseteq Range(r)
      BY <2>3, <1>2 DEF Range
    <2>. QED  BY <2>1, <2>4, <2>5
  <1>. QED  BY <1>3, <1>8, <1>9

(***************************************************************************)
(* No slot leaks and none is used twice: each is once in the free list, in *)
(* the queue or in one thread's hand; entry and tail are those of the      *)
(* queue.                                                                  *)
(***************************************************************************)
THEOREM SlotsAlwaysConserved == MqSpec => []SlotsConserved
  <1>1. MqInv => SlotsConserved
    <2> SUFFICES ASSUME MqInv PROVE SlotsConserved
      OBVIOUS
    <2>1. PICK q : \E f : Lists(q, f)
      BY MqFacts
    <2>2. PICK f : Lists(q, f)
      BY <2>1
    <2>3. /\ q = Chain(next, head) /\ f = Chain(next, free) /\ q \in Seq(MqSlot)
          /\ SlotList(q) /\ SlotList(f) /\ entry = Len(q)
          /\ SlotsOK(next, head, tail, free, entry, q, f, InHands(hand))
      BY <2>2 DEF Lists
    <2>4. /\ Range(q) \cap Range(f) = {} /\ Range(q) \cup Range(f) = MqSlot \ InHands(hand)
          /\ tail = Nth(q, Len(q))
      BY <2>3 DEF SlotsOK
    <2>5. IsInjective(q \o f) /\ Range(q \o f) = MqSlot \ InHands(hand)
      BY <2>3, <2>4, JoinedLists
    <2>6. \A t, u \in InHand : hand[t] = hand[u] => t = u
      BY DEF MqInv, HandsOK, InHand
    <2>7. InHands(hand) = {hand[t] : t \in InHand}
      BY DEF InHands, InHand
    <2>8. tail = IF q = << >> THEN Null ELSE Last(q)
      <3>1. /\ Len(q) \in Nat /\ (q = << >> <=> Len(q) = 0)
            /\ \A i \in 1 .. Len(q) : Nth(q, i) = q[i]
            /\ \A i : i \notin 1 .. Len(q) => Nth(q, i) = Null
        BY <2>3, NthFacts
      <3>2. CASE q = << >>
        <4>1. Len(q) \notin 1 .. Len(q)
          BY <3>1, <3>2
        <4>. QED  BY <4>1, <3>1, <3>2, <2>4
      <3>3. CASE q # << >>
        <4>1. Len(q) \in 1 .. Len(q)
          BY <3>1, <3>3
        <4>. QED  BY <4>1, <3>1, <3>3, <2>4 DEF Last
      <3>. QED  BY <3>2, <3>3
    <2>. QED  BY <2>3, <2>5, <2>6, <2>7, <2>8 DEF SlotsConserved
  <1>. QED  BY <1>1, MqSpecIInv, PTL

(***************************************************************************)
(* No message is overwritten while it is copied in or out.                 *)
(***************************************************************************)
THEOREM CopyAlwaysIntact == MqSpec => []CopyIntact
  <1>1. MqInv => CopyIntact
    BY DEF MqInv, HandsOK, CopyIntact, InHand
  <1>. QED  BY <1>1, MqSpecIInv, PTL

(***************************************************************************)
(* While a receiver waits there are no more messages than receivers that   *)
(* were woken and have not come back; the same for senders and free slots. *)
(***************************************************************************)
THEOREM NobodyEverForgotten == MqSpec => []NobodyForgotten
  <1>1. MqInv => NobodyForgotten
    <2> SUFFICES ASSUME MqInv PROVE NobodyForgotten
      OBVIOUS
    <2>1. PICK f : f = Chain(next, free)
      OBVIOUS
    <2>2. /\ Served(k, pc, job, Receivers, entry) /\ Served(k, pc, job, Senders, Len(f))
      BY <2>1 DEF MqInv
    <2>3. OpOf(Receivers) = "recv" /\ OpOf(Senders) = "send"
      BY Sides
    <2>4. Waiting(Receivers) # {} => entry <= Cardinality(Returning("recv"))
      BY <2>2, <2>3, ServedSays
    <2>5. Waiting(Senders) # {} => Len(f) <= Cardinality(Returning("send"))
      BY <2>2, <2>3, ServedSays
    <2>. QED  BY <2>1, <2>4, <2>5 DEF NobodyForgotten
  <1>. QED  BY <1>1, MqSpecIInv, PTL

(***************************************************************************)
(* The message queue implements MailboxSpec: messages are received in the  *)
(* order in which they were linked, urgent ones first, none is lost,       *)
(* doubled or invented, whoever copies, resets or interrupts meanwhile.    *)
(***************************************************************************)
THEOREM MqOrderKept == MqSpec => MqKeepsOrder
  <1>1. MqInit => MqPromise!Init
    BY MqInitInv DEF MqPromise!Init
  <1>2. MqInv /\ [MqNext]_mqvars => [MqPromise!Next]_Queued
    BY MqNextInv
  <1>. QED  BY <1>1, <1>2, MqSpecIInv, PTL DEF MqSpec, MqKeepsOrder, MqPromise!Spec
=============================================================================
