-------------------------- MODULE SchedulerProofs --------------------------
(***************************************************************************)
(* The invariants of module Scheduler, proved for any threads, priorities, *)
(* time slices and suspend lists, when no thread ends while it is in use   *)
(* (EndInUse = FALSE; the run delete_window shows what happens otherwise). *)
(***************************************************************************)
EXTENDS Scheduler, KernelProofs

(***************************************************************************)
(* Neither KernelConsistent nor ControlConsistent is inductive alone: the  *)
(* kernel functions are called in the right state because the positions    *)
(* are as Control says, and Control relies on the lists being exact.       *)
(***************************************************************************)
IInv == TypeOK /\ KernelConsistent /\ ControlConsistent

-----------------------------------------------------------------------------
(* Control, from one kernel state to the next *)

(* The facts that a proof about Control starts from. *)
ControlFacts(s, at, tgt) ==
  /\ s \in KernelType /\ ListsInv(s, RemovedBy(at, tgt)) /\ OneRunning(s)
  /\ s.stat \in [Thread -> Stat] /\ s.cur \in Thread /\ Idle \in Thread
  /\ s.lock \in Nat /\ s.armed \in SUBSET Thread
  /\ s.cur \notin RemovedBy(at, tgt) /\ Idle \notin RemovedBy(at, tgt)

(* They follow from the two parts of the invariant. *)
LEMMA ControlBase ==
  ASSUME NEW s, NEW at, NEW tgt, KernelInv(s, RemovedBy(at, tgt)), Control(s, at, tgt)
  PROVE  ControlFacts(s, at, tgt)
  <1>1. /\ ListsInv(s, RemovedBy(at, tgt)) /\ OneRunning(s) /\ s \in KernelType
    BY InvSplit DEF ListsInv
  <1>2. s.cur \notin RemovedBy(at, tgt)
    BY DEF Control, DeletionsDisjoint
  <1>3. Idle \notin RemovedBy(at, tgt)
    BY DEF Control, CallsUnbroken, RemovedBy, TargetsOf, InDelete
  <1>. QED  BY <1>1, <1>2, <1>3, TypeFields, KernelAssumption DEF ControlFacts

(***************************************************************************)
(* rt_schedule always takes the processor from a thread that is not        *)
(* RUNNING: the scheduler is unlocked then and the idle thread is ready.   *)
(***************************************************************************)
LEMMA LeavesProcessor ==
  ASSUME NEW s, NEW at, NEW tgt, KernelInv(s, RemovedBy(at, tgt)), Control(s, at, tgt),
         s.stat[s.cur] # "running",
         NEW n, Scheduled(s, RemovedBy(at, tgt), n)
  PROVE  /\ n.cur # s.cur
         /\ s.stat[n.cur] = "ready"
         /\ n.stat = Switched(s, n)
  <1>1. ControlFacts(s, at, tgt)
    BY ControlBase
  <1>2. s.lock = 0
    BY DEF Control, CurrentGoesOn
  <1>3. s.stat[Idle] = "ready" /\ Idle \notin RemovedBy(at, tgt)
    BY <1>1 DEF Control, IdleAvailable, OneRunning, ControlFacts
  <1>4. s.prio[Idle] \in Prio
    BY <1>1, TypeFields DEF ControlFacts
  <1>5. Idle \in Range(s.ready[s.prio[Idle]])
    BY <1>1, <1>3, <1>4, Members DEF ControlFacts
  <1>6. s.group # {}
    BY <1>1, <1>4, <1>5, Members DEF ControlFacts
  <1>. QED  BY <1>2, <1>6 DEF Scheduled

(***************************************************************************)
(* A change of the kernel state that stops, closes and creates no thread:  *)
(* it may only wake some, take their timers away, and pass the processor   *)
(* on.                                                                     *)
(***************************************************************************)
OnlyWakes(s, n) ==
  /\ n.armed \subseteq s.armed /\ Range(s.defunct) \subseteq Range(n.defunct)
  /\ \A t \in Thread :
       \/ n.stat[t] = s.stat[t]
       \/ s.stat[t] \in {"ready", "suspend", "running"} /\ n.stat[t] \in {"ready", "running"}
  /\ \A t \in s.armed : n.stat[t] = "suspend" => t \in n.armed

(* Such a change keeps Control when the processor is in good hands. *)
LEMMA WakesControl ==
  ASSUME NEW s, NEW at, NEW tgt \in [Thread -> Thread], Control(s, at, tgt),
         NEW n, OnlyWakes(s, n), CurrentGoesOn(n, at),
         n.cur \notin RemovedBy(at, tgt)
  PROVE  Control(n, at, tgt)
  <1>1. IdleAvailable(n, at)
    BY KernelAssumption DEF Control, IdleAvailable, OnlyWakes
  <1>2. StartedHasPlace(n, at)
    BY DEF Control, StartedHasPlace, OnlyWakes
  <1>3. CallsUnbroken(n, at, tgt)
    <2>1. ASSUME NEW t \in Thread, at[t] \in InStart \cup InDelete
          PROVE  /\ n.stat[t] \in {"ready", "running"} /\ tgt[t] \notin {t, Idle}
                 /\ n.stat[tgt[t]] # "close"
                 /\ at[t] # "close" => n.stat[tgt[t]] # "init"
      <3>1. /\ s.stat[t] \in {"ready", "running"} /\ tgt[t] \notin {t, Idle}
            /\ s.stat[tgt[t]] # "close"
            /\ at[t] # "close" => s.stat[tgt[t]] # "init"
        BY <2>1 DEF Control, CallsUnbroken
      <3>2. tgt[t] \in Thread
        OBVIOUS
      <3>. QED  BY <3>1, <3>2 DEF OnlyWakes
    <2>. QED  BY <2>1 DEF CallsUnbroken
  <1>4. DeletionsDisjoint(n, at, tgt)
    BY DEF Control, DeletionsDisjoint, OnlyWakes
  <1>5. ReapsDefunct(n, at, tgt)
    BY DEF Control, ReapsDefunct, OnlyWakes
  <1>6. SleepersArmed(n, at)
    BY DEF Control, SleepersArmed, OnlyWakes
  <1>. QED  BY <1>1, <1>2, <1>3, <1>4, <1>5, <1>6 DEF Control

(* rt_schedule, called from anywhere, keeps Control. *)
LEMMA ScheduledControl ==
  ASSUME NEW s, NEW at, NEW tgt \in [Thread -> Thread],
         KernelInv(s, RemovedBy(at, tgt)), Control(s, at, tgt),
         NEW n, Scheduled(s, RemovedBy(at, tgt), n)
  PROVE  Control(n, at, tgt)
  <1>1. ControlFacts(s, at, tgt)
    BY ControlBase
  <1>2. n.lock = s.lock /\ n.armed = s.armed /\ n.defunct = s.defunct
    BY DEF Scheduled
  <1>3. CASE n = s
    BY <1>3
  <1>4. CASE n.cur = s.cur /\ n.stat = s.stat
    <2>1. OnlyWakes(s, n)
      BY <1>2, <1>4 DEF OnlyWakes
    <2>2. CurrentGoesOn(n, at)
      BY <1>2, <1>4 DEF Control, CurrentGoesOn
    <2>3. n.cur \notin RemovedBy(at, tgt)
      BY <1>1, <1>4 DEF ControlFacts
    <2>. QED  BY <2>1, <2>2, <2>3, WakesControl
  <1>5. CASE /\ n.cur # s.cur /\ s.stat[n.cur] = "ready"
             /\ n.cur \notin RemovedBy(at, tgt) /\ n.stat = Switched(s, n)
    <2>1. \A t \in Thread : n.stat[t] =
             IF t = n.cur THEN "running"
             ELSE IF t = s.cur /\ s.stat[t] = "running" THEN "ready" ELSE s.stat[t]
      BY <1>5 DEF Switched
    <2>2. n.cur \in Thread
      BY TypeFields DEF Scheduled, KernelInv
    <2>3. CurrentGoesOn(n, at)
      BY <1>2, <1>5, <2>1, <2>2 DEF Control, StartedHasPlace, CurrentGoesOn
    <2>4. OnlyWakes(s, n)
      BY <1>1, <1>2, <1>5, <2>1 DEF OnlyWakes, ControlFacts
    <2>. QED  BY <1>5, <2>3, <2>4, WakesControl
  <1>. QED  BY <1>3, <1>4, <1>5 DEF Scheduled

(* Waking a suspended thread keeps Control. *)
LEMMA WokenControl ==
  ASSUME NEW s, NEW at, NEW tgt \in [Thread -> Thread],
         KernelInv(s, RemovedBy(at, tgt)), Control(s, at, tgt),
         NEW t \in Thread, s.stat[t] = "suspend", NEW n, Woken(s, t, n)
  PROVE  Control(n, at, tgt)
  <1>1. ControlFacts(s, at, tgt)
    BY ControlBase
  <1>2. /\ n.lock = s.lock /\ n.armed = s.armed \ {t} /\ n.cur = s.cur
        /\ n.defunct = s.defunct
        /\ \A x \in Thread : n.stat[x] =
             IF x = t THEN (IF t = s.cur THEN "running" ELSE "ready") ELSE s.stat[x]
    BY <1>1 DEF Woken, ControlFacts
  <1>3. CurrentGoesOn(n, at)
    BY <1>1, <1>2 DEF Control, CurrentGoesOn, ControlFacts
  <1>4. OnlyWakes(s, n)
    BY <1>2 DEF OnlyWakes
  <1>5. n.cur \notin RemovedBy(at, tgt)
    BY <1>1, <1>2 DEF ControlFacts
  <1>. QED  BY <1>3, <1>4, <1>5, WakesControl

(***************************************************************************)
(* Control reads the status, the current thread, the lock, the timers and  *)
(* who is defunct.                                                         *)
(***************************************************************************)
LEMMA SameControl ==
  ASSUME NEW s, NEW at, NEW tgt, Control(s, at, tgt),
         NEW n, n.stat = s.stat, n.cur = s.cur, n.armed = s.armed, n.lock = s.lock,
         n.defunct = s.defunct
  PROVE  Control(n, at, tgt)
  BY DEF Control, CurrentGoesOn, IdleAvailable, StartedHasPlace, CallsUnbroken,
     DeletionsDisjoint, ReapsDefunct, SleepersArmed

-----------------------------------------------------------------------------
(* Control, from one point to the next *)

(* The threads that deletions other than t's have removed. *)
OthersRemove(at, tgt, t) == {tgt[u] : u \in {v \in Thread \ {t} : at[v] = "close"}}

(***************************************************************************)
(* The points that a thread t may go to, with x as the thread that its     *)
(* call works on.                                                          *)
(***************************************************************************)
MayPass(s, t, q) ==
  /\ q \in PC \ {"reap"} /\ t # Idle
  /\ q = "dead" => t # s.cur /\ s.stat[t] \in {"init", "close"}
  /\ t = s.cur /\ s.stat[t] # "running" => q \in {"sched", "block"}
  /\ q \in {"block", "wake"} /\ s.stat[t] = "suspend" => t \in s.armed

MayWorkOn(s, at, tgt, t, q, x) ==
  /\ s.stat[t] \in {"ready", "running"}
  /\ x \notin {t, Idle} /\ s.stat[x] # "close"
  /\ q # "close" => s.stat[x] # "init"
  /\ \A u \in Thread \ {t} : at[u] \in InDelete => tgt[u] # x

MayDelete(s, at, tgt, t, q, x) ==
  /\ x \notin s.armed /\ at[x] \notin InDelete
  /\ \A u \in Thread \ {t} :
       /\ at[u] \in InDelete => tgt[u] # t
       /\ at[u] \in InStart \cup InDelete => tgt[u] # x
  /\ q = "close" => x # s.cur

MayGo(s, at, tgt, t, q, x) ==
  /\ MayPass(s, t, q)
  /\ q \in InStart \cup InDelete => MayWorkOn(s, at, tgt, t, q, x)
  /\ q \in InDelete => MayDelete(s, at, tgt, t, q, x)

MovedTo(s, at, tgt, t, q, x, to, tg) ==
  /\ to \in [Thread -> PC] /\ tg \in [Thread -> Thread]
  /\ Control(s, to, tg)
  /\ RemovedBy(to, tg) = OthersRemove(at, tgt, t) \cup (IF q = "close" THEN {x} ELSE {})

(* Going there keeps Control. *)
LEMMA MovedControl ==
  ASSUME NEW s, NEW at \in [Thread -> PC], NEW tgt \in [Thread -> Thread],
         Control(s, at, tgt), NEW t \in Thread, NEW q, NEW x \in Thread,
         MayGo(s, at, tgt, t, q, x),
         NEW to, to = [at EXCEPT ![t] = q], NEW tg, tg = [tgt EXCEPT ![t] = x]
  PROVE  MovedTo(s, at, tgt, t, q, x, to, tg)
  <1>1. /\ to \in [Thread -> PC] /\ tg \in [Thread -> Thread]
        /\ \A u \in Thread : to[u] = IF u = t THEN q ELSE at[u]
        /\ \A u \in Thread : tg[u] = IF u = t THEN x ELSE tgt[u]
    BY DEF MayGo, MayPass
  <1>2. RemovedBy(to, tg) = OthersRemove(at, tgt, t) \cup (IF q = "close" THEN {x} ELSE {})
    <2>1. ASSUME NEW u \in Thread, to[u] = "close"
          PROVE  tg[u] \in OthersRemove(at, tgt, t) \cup (IF q = "close" THEN {x} ELSE {})
      <3>1. CASE u = t
        BY <3>1, <2>1, <1>1
      <3>2. CASE u # t
        <4>1. at[u] = "close" /\ tg[u] = tgt[u] /\ u \in Thread \ {t}
          BY <3>2, <2>1, <1>1
        <4>. QED  BY <4>1 DEF OthersRemove
      <3>. QED  BY <3>1, <3>2
    <2>2. ASSUME NEW u \in Thread \ {t}, at[u] = "close" PROVE tgt[u] \in RemovedBy(to, tg)
      <3>1. to[u] = "close" /\ tg[u] = tgt[u] /\ u \in Thread
        BY <2>2, <1>1
      <3>. QED  BY <3>1 DEF RemovedBy, TargetsOf
    <2>3. q = "close" => x \in RemovedBy(to, tg)
      <3>1. to[t] = q /\ tg[t] = x
        BY <1>1
      <3>. QED  BY <3>1 DEF RemovedBy, TargetsOf
    <2>. QED  BY <2>1, <2>2, <2>3 DEF RemovedBy, TargetsOf, OthersRemove
  <1>3. CurrentGoesOn(s, to)
    BY <1>1 DEF Control, CurrentGoesOn, MayGo, MayPass
  <1>4. IdleAvailable(s, to)
    BY <1>1, KernelAssumption DEF Control, IdleAvailable, MayGo, MayPass
  <1>5. StartedHasPlace(s, to)
    BY <1>1 DEF Control, StartedHasPlace, MayGo, MayPass
  <1>6. CallsUnbroken(s, to, tg)
    BY <1>1 DEF Control, CallsUnbroken, MayGo, MayWorkOn
  <1>7. DeletionsDisjoint(s, to, tg)
    <2>1. s.cur \notin RemovedBy(to, tg)
      <3>1. s.cur \notin OthersRemove(at, tgt, t)
        BY DEF Control, DeletionsDisjoint, RemovedBy, TargetsOf, OthersRemove
      <3>2. q = "close" => s.cur # x
        BY DEF MayGo, MayDelete, InDelete
      <3>. QED  BY <3>1, <3>2, <1>2
    <2>2. s.armed \cap DoomedBy(to, tg) = {}
      <3>1. ASSUME NEW u \in Thread, to[u] \in InDelete PROVE tg[u] \notin s.armed
        <4>1. CASE u = t
          BY <4>1, <3>1, <1>1 DEF MayGo, MayDelete
        <4>2. CASE u # t
          <5>1. at[u] \in InDelete /\ tg[u] = tgt[u]
            BY <4>2, <3>1, <1>1
          <5>2. tgt[u] \in DoomedBy(at, tgt)
            BY <5>1 DEF DoomedBy, TargetsOf
          <5>. QED  BY <5>1, <5>2 DEF Control, DeletionsDisjoint
        <4>. QED  BY <4>1, <4>2
      <3>. QED  BY <3>1 DEF DoomedBy, TargetsOf
    <2>3. ASSUME NEW u \in Thread, NEW v \in Thread,
                 to[u] \in InDelete, to[v] \in InStart \cup InDelete
          PROVE  to[tg[u]] \notin InDelete /\ (tg[v] = tg[u] => v = u)
      <3>1. CASE u = t
        <4>1. /\ tg[u] = x /\ q \in InDelete /\ x # t
              /\ MayDelete(s, at, tgt, t, q, x)
          BY <3>1, <2>3, <1>1 DEF MayGo, MayWorkOn
        <4>2. to[x] \notin InDelete
          BY <4>1, <1>1 DEF MayDelete
        <4>3. v # t => tg[v] # x
          BY <4>1, <2>3, <1>1 DEF MayDelete
        <4>. QED  BY <3>1, <4>1, <4>2, <4>3
      <3>2. CASE u # t
        <4>1. at[u] \in InDelete /\ tg[u] = tgt[u] /\ u \in Thread \ {t}
          BY <3>2, <2>3, <1>1
        <4>2. at[tgt[u]] \notin InDelete /\ tgt[u] \in Thread
          BY <4>1 DEF Control, DeletionsDisjoint
        <4>3. to[tgt[u]] \notin InDelete
          <5>1. q \in InDelete => tgt[u] # t
            BY <4>1 DEF MayGo, MayDelete
          <5>. QED  BY <5>1, <4>2, <1>1
        <4>4. CASE v = t
          <5>1. tg[v] = x /\ tgt[u] # x
            BY <4>1, <4>4, <2>3, <1>1 DEF MayGo, MayWorkOn
          <5>. QED  BY <5>1, <4>1, <4>3
        <4>5. CASE v # t
          <5>1. at[v] \in InStart \cup InDelete /\ tg[v] = tgt[v]
            BY <4>5, <2>3, <1>1
          <5>2. tgt[v] = tgt[u] => v = u
            BY <5>1, <4>1 DEF Control, DeletionsDisjoint
          <5>. QED  BY <5>1, <5>2, <4>1, <4>3
        <4>. QED  BY <4>4, <4>5
      <3>. QED  BY <3>1, <3>2
    <2>. QED  BY <2>1, <2>2, <2>3 DEF DeletionsDisjoint
  <1>8. ReapsDefunct(s, to, tg)
    BY <1>1 DEF Control, ReapsDefunct, MayGo, MayPass
  <1>9. SleepersArmed(s, to)
    BY <1>1 DEF Control, SleepersArmed, MayGo, MayPass
  <1>. QED
    BY <1>1, <1>2, <1>3, <1>4, <1>5, <1>6, <1>7, <1>8, <1>9 DEF Control, MovedTo

(* The removed threads, when t's call is not about to close one. *)
LEMMA OthersRemoveAll ==
  ASSUME NEW at, NEW tgt, NEW t, at[t] # "close"
  PROVE  OthersRemove(at, tgt, t) = RemovedBy(at, tgt)
  BY DEF OthersRemove, RemovedBy, TargetsOf

(***************************************************************************)
(* A thread x suspends itself, or is closed by itself or by its deleter:   *)
(* Control holds with x at a point where that is expected.                 *)
(***************************************************************************)
MayStop(s, at, tgt, x, v, q, n) ==
  /\ v \in {"suspend", "close"} /\ q \in {"sched", "block", "dead"}
  /\ x # Idle /\ at[x] \notin InDelete
  /\ n.stat = [s.stat EXCEPT ![x] = v] /\ n.cur = s.cur /\ n.lock = s.lock
  /\ s.armed \subseteq n.armed /\ n.armed \subseteq s.armed \cup {x}
  /\ x \in n.armed => x \notin DoomedBy(at, tgt)
  /\ Range(s.defunct) \subseteq Range(n.defunct)
  /\ v = "close" => x \notin TargetsOf(at, tgt, InDelete \cup InStart)
  /\ q = "dead" => x # s.cur /\ v = "close"
  /\ q = "block" /\ v = "suspend" => x \in n.armed
  /\ x = s.cur => s.lock = 0

StoppedAt(at, tgt, n, to, tg) ==
  /\ to \in [Thread -> PC] /\ tg \in [Thread -> Thread]
  /\ RemovedBy(to, tg) = RemovedBy(at, tgt)
  /\ Control(n, to, tg)

(* Stopping keeps Control. *)
LEMMA StopsControl ==
  ASSUME NEW s, NEW at \in [Thread -> PC], NEW tgt \in [Thread -> Thread],
         Control(s, at, tgt), s.stat \in [Thread -> Stat],
         NEW x \in Thread, NEW v, NEW q, NEW n, MayStop(s, at, tgt, x, v, q, n),
         NEW y \in Thread,
         NEW to, to = [at EXCEPT ![x] = q], NEW tg, tg = [tgt EXCEPT ![x] = y]
  PROVE  StoppedAt(at, tgt, n, to, tg)
  <1>1. /\ to \in [Thread -> PC] /\ tg \in [Thread -> Thread]
        /\ \A u \in Thread : to[u] = IF u = x THEN q ELSE at[u]
        /\ \A u \in Thread : tg[u] = IF u = x THEN y ELSE tgt[u]
        /\ \A u \in Thread : n.stat[u] = IF u = x THEN v ELSE s.stat[u]
        /\ q \notin InStart \cup InDelete \cup {"reap"}
    BY DEF MayStop, PC, InStart, InDelete
  <1>2. ASSUME NEW u \in Thread, to[u] \in InStart \cup InDelete
        PROVE  at[u] = to[u] /\ tg[u] = tgt[u] /\ u # x
    BY <1>1, <1>2
  <1>3. ASSUME NEW u \in Thread, at[u] \in InDelete
        PROVE  at[u] = to[u] /\ tg[u] = tgt[u] /\ u # x
    BY <1>1, <1>3 DEF MayStop
  <1>4. ASSUME NEW points, points \subseteq InDelete
        PROVE  TargetsOf(to, tg, points) = TargetsOf(at, tgt, points)
    BY <1>2, <1>3, <1>4 DEF TargetsOf
  <1>5. /\ RemovedBy(to, tg) = RemovedBy(at, tgt)
        /\ DoomedBy(to, tg) = DoomedBy(at, tgt)
    <2>1. {"close"} \subseteq InDelete /\ InDelete \subseteq InDelete
      BY DEF InDelete
    <2>. QED  BY <2>1, <1>4 DEF RemovedBy, DoomedBy
  <1>6. CurrentGoesOn(n, to)
    BY <1>1 DEF Control, CurrentGoesOn, MayStop
  <1>7. IdleAvailable(n, to) /\ StartedHasPlace(n, to)
    BY <1>1, KernelAssumption DEF Control, IdleAvailable, StartedHasPlace, MayStop
  <1>8. CallsUnbroken(n, to, tg)
    <2>1. ASSUME NEW u \in Thread, to[u] \in InStart \cup InDelete
          PROVE  /\ n.stat[u] \in {"ready", "running"} /\ tg[u] \notin {u, Idle}
                 /\ n.stat[tg[u]] # "close"
                 /\ to[u] # "close" => n.stat[tg[u]] # "init"
      <3>1. at[u] = to[u] /\ tg[u] = tgt[u] /\ u # x /\ tgt[u] \in Thread
        BY <2>1, <1>2
      <3>2. /\ s.stat[u] \in {"ready", "running"} /\ tgt[u] \notin {u, Idle}
            /\ s.stat[tgt[u]] # "close"
            /\ at[u] # "close" => s.stat[tgt[u]] # "init"
        BY <2>1, <3>1 DEF Control, CallsUnbroken
      <3>3. v = "close" => tgt[u] # x
        BY <2>1, <3>1 DEF MayStop, TargetsOf
      <3>4. v \in {"suspend", "close"}
        BY DEF MayStop
      <3>. QED  BY <3>1, <3>2, <3>3, <3>4, <1>1
    <2>. QED  BY <2>1 DEF CallsUnbroken
  <1>9. DeletionsDisjoint(n, to, tg)
    <2>1. n.cur \notin RemovedBy(to, tg) /\ n.armed \cap DoomedBy(to, tg) = {}
      <3>1. s.cur \notin RemovedBy(at, tgt) /\ s.armed \cap DoomedBy(at, tgt) = {}
        BY DEF Control, DeletionsDisjoint
      <3>2. /\ n.cur = s.cur /\ n.armed \subseteq s.armed \cup {x}
            /\ x \in n.armed => x \notin DoomedBy(at, tgt)
        BY DEF MayStop
      <3>. QED  BY <3>1, <3>2, <1>5
    <2>2. ASSUME NEW t \in Thread, NEW u \in Thread,
                 to[t] \in InDelete, to[u] \in InStart \cup InDelete
          PROVE  to[tg[t]] \notin InDelete /\ (tg[u] = tg[t] => u = t)
      <3>1. /\ at[t] = to[t] /\ tg[t] = tgt[t] /\ at[u] = to[u] /\ tg[u] = tgt[u]
            /\ tgt[t] \in Thread
        BY <2>2, <1>2
      <3>2. at[tgt[t]] \notin InDelete /\ (tgt[u] = tgt[t] => u = t)
        BY <2>2, <3>1 DEF Control, DeletionsDisjoint
      <3>. QED  BY <3>1, <3>2, <1>1
    <2>. QED  BY <2>1, <2>2 DEF DeletionsDisjoint
  <1>10. ReapsDefunct(n, to, tg)
    BY <1>1 DEF Control, ReapsDefunct, MayStop
  <1>11. SleepersArmed(n, to)
    BY <1>1 DEF Control, SleepersArmed, MayStop
  <1>. QED
    BY <1>1, <1>5, <1>6, <1>7, <1>8, <1>9, <1>10, <1>11 DEF Control, StoppedAt

-----------------------------------------------------------------------------
(* One step *)

Types ==
  /\ pc \in [Thread -> PC] /\ target \in [Thread -> Thread]
  /\ slice \in [Thread -> Nat \ {0}]

(***************************************************************************)
(* What every step but IdleReaps does: it keeps the invariant and frees no *)
(* defunct thread.  Quiet is said of one that does not call rt_schedule.   *)
(***************************************************************************)
DefunctKept == Range(k.defunct) \subseteq Range(k'.defunct)

Safe  == IInv' /\ DefunctKept
Quiet == Safe /\ k'.cur = k.cur

(* The parts of the invariant, as the proofs of the steps use them. *)
LEMMA Opened ==
  ASSUME IInv
  PROVE  /\ Types /\ pc \in [Thread -> PC] /\ target \in [Thread -> Thread]
         /\ KernelInv(k, RemovedBy(pc, target)) /\ Control(k, pc, target)
         /\ ControlFacts(k, pc, target)
         /\ k \in KernelType /\ k.cur \in Thread /\ k.stat \in [Thread -> Stat]
         /\ k.lock \in Nat
         /\ k.cur \notin RemovedBy(pc, target)
         /\ pc[k.cur] \notin {"sched", "block"} => k.stat[k.cur] = "running"
  <1>1. KernelInv(k, RemovedBy(pc, target)) /\ Control(k, pc, target)
    BY DEF IInv, KernelConsistent, ControlConsistent, Removed
  <1>2. ControlFacts(k, pc, target)
    BY <1>1, ControlBase
  <1>3. pc[k.cur] \notin {"sched", "block"} => k.stat[k.cur] = "running"
    BY <1>1 DEF Control, CurrentGoesOn
  <1>. QED  BY <1>1, <1>2, <1>3 DEF IInv, TypeOK, Types, ControlFacts

(* And put together again. *)
LEMMA Closed ==
  ASSUME Types', KernelInv(k', RemovedBy(pc', target')), Control(k', pc', target'),
         DefunctKept
  PROVE  Safe
  BY DEF Safe, IInv, TypeOK, Types, KernelConsistent, ControlConsistent, Removed,
     KernelInv

(* The successor state of a step that calls rt_schedule and moves nothing. *)
LEMMA SchedulesTo ==
  ASSUME Types, KernelInv(k, RemovedBy(pc, target)),
         NEW j, KernelInv(j, RemovedBy(pc, target)), Control(j, pc, target),
         j.defunct = k.defunct,
         k' = Schedule(j), UNCHANGED << pc, target >>, slice' \in [Thread -> Nat \ {0}]
  PROVE  Safe
  <1>1. j.cur \notin RemovedBy(pc, target)
    BY DEF Control, DeletionsDisjoint
  <1>2. Scheduled(j, RemovedBy(pc, target), k')
    BY <1>1, ScheduleInv
  <1>3. Control(k', pc, target)
    BY <1>2, ScheduledControl DEF Types
  <1>4. KernelInv(k', RemovedBy(pc, target)) /\ k'.defunct = k.defunct
    BY <1>2 DEF Scheduled
  <1>. QED  BY <1>3, <1>4, Closed DEF Types, DefunctKept

(***************************************************************************)
(* KernelInv does not read the yield bits, the errors and the lock.        *)
(***************************************************************************)
LEMMA Restated ==
  ASSUME NEW out, NEW s, KernelInv(s, out), NEW j \in KernelType,
         j.stat = s.stat, j.prio = s.prio, j.ready = s.ready, j.group = s.group,
         j.cur = s.cur, j.wait = s.wait, j.armed = s.armed, j.defunct = s.defunct
  PROVE  KernelInv(j, out)
  <1>1. ListsInv(s, out) /\ OneRunning(s)
    BY InvSplit
  <1>2. ListsInv(j, out)
    BY <1>1, OtherFields
  <1>3. OneRunning(j)
    BY <1>1 DEF OneRunning
  <1>. QED  BY <1>2, <1>3, InvSplit

(***************************************************************************)
(* The thread t moves on: its call and its point change, after the kernel  *)
(* state has been brought up to date.                                      *)
(***************************************************************************)
LEMMA MovesOn ==
  ASSUME Types, Control(k', pc, target), DefunctKept,
         NEW t \in Thread, NEW q, NEW x \in Thread, MayGo(k', pc, target, t, q, x),
         KernelInv(k', OthersRemove(pc, target, t) \cup (IF q = "close" THEN {x} ELSE {})),
         pc' = [pc EXCEPT ![t] = q], target' = [target EXCEPT ![t] = x],
         slice' = slice
  PROVE  Safe
  <1>1. pc \in [Thread -> PC] /\ target \in [Thread -> Thread]
    BY DEF Types
  <1>2. MovedTo(k', pc, target, t, q, x, pc', target')
    BY <1>1, MovedControl
  <1>3. /\ pc' \in [Thread -> PC] /\ target' \in [Thread -> Thread]
        /\ Control(k', pc', target')
        /\ KernelInv(k', RemovedBy(pc', target'))
    BY <1>2 DEF MovedTo
  <1>. QED  BY <1>3, Closed DEF Types

(* The same between points that are not about to close a thread. *)
LEMMA MovesPlainly ==
  ASSUME Types, Control(k', pc, target), DefunctKept,
         KernelInv(k', RemovedBy(pc, target)),
         NEW t \in Thread, pc[t] # "close", NEW q, q # "close",
         NEW x \in Thread, MayGo(k', pc, target, t, q, x),
         pc' = [pc EXCEPT ![t] = q], target' = [target EXCEPT ![t] = x],
         slice' = slice
  PROVE  Safe
  <1>1. OthersRemove(pc, target, t) = RemovedBy(pc, target)
    BY OthersRemoveAll
  <1>2. OthersRemove(pc, target, t) \cup (IF q = "close" THEN {x} ELSE {})
          = RemovedBy(pc, target)
    BY <1>1
  <1>3. KernelInv(k', OthersRemove(pc, target, t) \cup (IF q = "close" THEN {x} ELSE {}))
    BY <1>2
  <1>. QED  BY <1>3, MovesOn

(* The same inside a call that works on no other thread. *)
LEMMA MovesAlone ==
  ASSUME Types, Control(k', pc, target), DefunctKept,
         KernelInv(k', RemovedBy(pc, target)),
         NEW t \in Thread, pc[t] # "close",
         NEW q, q \notin InStart \cup InDelete, MayPass(k', t, q),
         pc' = [pc EXCEPT ![t] = q], UNCHANGED << target, slice >>
  PROVE  Safe
  <1>1. target' = [target EXCEPT ![t] = target[t]] /\ target[t] \in Thread
    BY DEF Types
  <1>2. MayGo(k', pc, target, t, q, target[t]) /\ q # "close"
    BY DEF MayGo, InDelete
  <1>. QED  BY <1>1, <1>2, MovesPlainly

(* Nothing but the kernel state changes. *)
LEMMA StaysThere ==
  ASSUME Types, Control(k', pc, target), DefunctKept,
         KernelInv(k', RemovedBy(pc, target)), UNCHANGED << pc, target, slice >>
  PROVE  Safe
  BY Closed DEF Types

-----------------------------------------------------------------------------
(* Thread context *)

(* rt_schedule *)
LEMMA StepDoSchedule ==
  ASSUME IInv, NEW t \in Thread, DoSchedule(t)
  PROVE  Safe
  <1>1. /\ Types /\ KernelInv(k, RemovedBy(pc, target)) /\ Control(k, pc, target)
        /\ ControlFacts(k, pc, target) /\ k \in KernelType
        /\ k.cur \in Thread /\ k.stat \in [Thread -> Stat]
        /\ k.cur \notin RemovedBy(pc, target)
    BY Opened
  <1>2. /\ t = k.cur /\ pc[t] \in {"sched", "block"} /\ k' = Schedule(k)
        /\ UNCHANGED << target, slice >>
    BY DEF DoSchedule
  <1>3. PICK q : q = IF pc[t] = "block" THEN "wake"
                     ELSE IF k.stat[t] = "close" THEN "dead" ELSE "run"
    OBVIOUS
  <1>4. pc' = [pc EXCEPT ![t] = q]
    BY <1>3 DEF DoSchedule
  <1>5. Scheduled(k, RemovedBy(pc, target), k')
    BY <1>1, <1>2, ScheduleInv
  <1>6. Control(k', pc, target)
    BY <1>1, <1>5, ScheduledControl DEF Types
  <1>7. /\ KernelInv(k', RemovedBy(pc, target)) /\ k'.cur \in Thread
        /\ k'.armed = k.armed /\ DefunctKept
    BY <1>5, TypeFields DEF Scheduled, KernelInv, DefunctKept
  <1>8. t # Idle
    BY <1>1, <1>2 DEF Control, IdleAvailable
  <1>9. MayPass(k', t, q)
    <2>1. CASE k.stat[t] = "running"
      <3>1. k'.stat[t] \in {"running", "ready"} /\ (t = k'.cur => k'.stat[t] = "running")
        BY <2>1, <1>1, <1>2, <1>5 DEF Scheduled, Switched
      <3>2. q \in {"wake", "run"}
        BY <2>1, <1>3
      <3>. QED  BY <3>1, <3>2, <1>8 DEF MayPass, PC
    <2>2. CASE k.stat[t] # "running"
      <3>1. /\ k'.cur # t
            /\ k'.stat = Switched(k, k')
        BY <2>2, <1>1, <1>2, <1>5, LeavesProcessor
      <3>2. k'.stat[t] = k.stat[t]
        BY <2>2, <3>1, <1>1 DEF Switched
      <3>3. k.stat[t] = "suspend" /\ q = "wake" => t \in k.armed
        BY <1>1, <1>2, <1>3 DEF Control, SleepersArmed
      <3>4. q \in PC \ {"reap", "block"} /\ (q = "dead" => k.stat[t] = "close")
        BY <1>3 DEF PC
      <3>. QED  BY <3>1, <3>2, <3>3, <3>4, <1>7, <1>8 DEF MayPass
    <2>. QED  BY <2>1, <2>2
  <1>10. q \notin InStart \cup InDelete /\ pc[t] # "close"
    BY <1>2, <1>3 DEF InStart, InDelete
  <1>. QED  BY <1>1, <1>2, <1>4, <1>6, <1>7, <1>9, <1>10, MovesAlone

(* The application calls rt_schedule. *)
LEMMA StepCallSchedule ==
  ASSUME IInv, NEW t \in Thread, CallSchedule(t)
  PROVE  Quiet
  <1>1. /\ Types /\ KernelInv(k, RemovedBy(pc, target)) /\ Control(k, pc, target)
    BY Opened
  <1>2. /\ t # Idle /\ pc[t] = "run" /\ pc' = [pc EXCEPT ![t] = "sched"]
        /\ UNCHANGED << k, target, slice >>
    BY DEF CallSchedule, InCall, Goto
  <1>3. MayPass(k', t, "sched") /\ "sched" \notin InStart \cup InDelete /\ DefunctKept
    BY <1>2 DEF MayPass, PC, InStart, InDelete, DefunctKept
  <1>4. Safe
    BY <1>1, <1>2, <1>3, MovesAlone
  <1>. QED  BY <1>2, <1>4 DEF Quiet

(* rt_thread_yield *)
LEMMA StepCallYield ==
  ASSUME IInv, NEW t \in Thread, CallYield(t)
  PROVE  Safe
  <1>1. /\ Types /\ KernelInv(k, RemovedBy(pc, target)) /\ Control(k, pc, target)
        /\ k \in KernelType
    BY Opened
  <1>2. PICK j : j = [k EXCEPT !.yield = @ \cup {t}]
    OBVIOUS
  <1>3. k' = Schedule(j) /\ UNCHANGED << pc, target >>
        /\ slice' = [slice EXCEPT ![t] = InitTick[t]]
    BY <1>2 DEF CallYield, YieldStep
  <1>4. slice' \in [Thread -> Nat \ {0}]
    BY <1>1, <1>3, SchedulerAssumption DEF Types
  <1>5. /\ j \in KernelType
        /\ j.stat = k.stat /\ j.prio = k.prio /\ j.ready = k.ready /\ j.group = k.group
        /\ j.cur = k.cur /\ j.wait = k.wait /\ j.armed = k.armed /\ j.defunct = k.defunct
        /\ j.lock = k.lock
    BY <1>1, <1>2 DEF KernelType
  <1>6. KernelInv(j, RemovedBy(pc, target))
    BY <1>1, <1>5, Restated
  <1>7. Control(j, pc, target)
    BY <1>1, <1>5, SameControl
  <1>. QED  BY <1>1, <1>3, <1>4, <1>5, <1>6, <1>7, SchedulesTo

(***************************************************************************)
(* rt_thread_startup: the thread gets a place and the status SUSPEND, and  *)
(* is not in any list yet; the caller goes on to the test.                 *)
(***************************************************************************)
LEMMA StepCallStartup ==
  ASSUME IInv, NEW t \in Thread, NEW x \in Thread, CallStartup(t, x)
  PROVE  Quiet
  <1>1. /\ Types /\ KernelInv(k, RemovedBy(pc, target)) /\ Control(k, pc, target)
        /\ ControlFacts(k, pc, target)
        /\ k \in KernelType /\ k.stat \in [Thread -> Stat] /\ k.cur \in Thread
        /\ k.cur \notin RemovedBy(pc, target)
        /\ pc \in [Thread -> PC] /\ target \in [Thread -> Thread]
    BY Opened
  <1>2. /\ t = k.cur /\ t # Idle /\ pc[t] = "run" /\ k.stat[x] = "init"
        /\ x \notin DoomedBy(pc, target)
        /\ k' = Startup(k, x)
        /\ pc' = [pc EXCEPT ![t] = "started", ![x] = "run"]
        /\ target' = [target EXCEPT ![t] = x] /\ slice' = slice
    BY DEF CallStartup, InCall, Doomed
  <1>3. k.stat[t] = "running" /\ x # t /\ x # Idle
    BY <1>1, <1>2, Opened DEF Control, IdleAvailable
  <1>4. ASSUME NEW u \in Thread, pc[u] \in InDelete PROVE target[u] # x
    BY <1>2, <1>4 DEF DoomedBy, TargetsOf
  <1>5. x \notin RemovedBy(pc, target)
    BY <1>4 DEF RemovedBy, TargetsOf, InDelete
  <1>6. /\ KernelInv(k', RemovedBy(pc, target))
        /\ k'.stat = [k.stat EXCEPT ![x] = "suspend"] /\ k'.cur = k.cur
        /\ k'.lock = k.lock /\ k'.armed = k.armed /\ k'.defunct = k.defunct
    BY <1>1, <1>2, <1>5, StartupInv
  <1>7. PICK at : at = [pc EXCEPT ![x] = "run"]
    OBVIOUS
  <1>8. pc[x] \notin InStart \cup InDelete
    BY <1>1, <1>2 DEF Control, CallsUnbroken
  <1>9. MayGo(k, pc, target, x, "run", target[x])
    BY <1>2, <1>3 DEF MayGo, MayPass, PC, InStart, InDelete
  <1>10. /\ at \in [Thread -> PC] /\ RemovedBy(at, target) = RemovedBy(pc, target)
         /\ Control(k, at, target)
    <2>1. target[x] \in Thread /\ target = [target EXCEPT ![x] = target[x]]
      BY <1>1
    <2>2. MovedTo(k, pc, target, x, "run", target[x], at, target)
      BY <2>1, <1>1, <1>7, <1>9, MovedControl
    <2>3. OthersRemove(pc, target, x) = RemovedBy(pc, target)
      BY <1>8, OthersRemoveAll DEF InDelete
    <2>. QED  BY <2>2, <2>3 DEF MovedTo
  <1>11. /\ at[x] = "run" /\ at[t] = "run" /\ pc' = [at EXCEPT ![t] = "started"]
         /\ \A u \in Thread : at[u] = IF u = x THEN "run" ELSE pc[u]
    BY <1>1, <1>2, <1>3, <1>7
  <1>12. Control(k', at, target)
    <2>1. \A u \in Thread : k'.stat[u] = IF u = x THEN "suspend" ELSE k.stat[u]
      BY <1>1, <1>6
    <2>2. CurrentGoesOn(k', at)
      BY <2>1, <1>1, <1>2, <1>3, <1>6, <1>10 DEF Control, CurrentGoesOn
    <2>3. IdleAvailable(k', at)
      BY <2>1, <1>3, <1>10, KernelAssumption DEF Control, IdleAvailable
    <2>4. StartedHasPlace(k', at)
      BY <2>1, <1>10, <1>11 DEF Control, StartedHasPlace
    <2>5. CallsUnbroken(k', at, target)
      <3>1. ASSUME NEW u \in Thread, at[u] \in InStart \cup InDelete
            PROVE  /\ k'.stat[u] \in {"ready", "running"} /\ target[u] \notin {u, Idle}
                   /\ k'.stat[target[u]] # "close"
                   /\ at[u] # "close" => k'.stat[target[u]] # "init"
        <4>1. u # x
          BY <3>1, <1>11 DEF InStart, InDelete
        <4>2. /\ k.stat[u] \in {"ready", "running"} /\ target[u] \notin {u, Idle}
              /\ k.stat[target[u]] # "close"
              /\ at[u] # "close" => k.stat[target[u]] # "init"
          BY <3>1, <1>10 DEF Control, CallsUnbroken
        <4>3. target[u] \in Thread
          BY <1>1
        <4>. QED  BY <4>1, <4>2, <4>3, <2>1
      <3>. QED  BY <3>1 DEF CallsUnbroken
    <2>6. DeletionsDisjoint(k', at, target)
      BY <1>6, <1>10 DEF Control, DeletionsDisjoint
    <2>7. ReapsDefunct(k', at, target)
      BY <1>6, <1>10 DEF Control, ReapsDefunct
    <2>8. SleepersArmed(k', at)
      BY <2>1, <1>6, <1>10, <1>11 DEF Control, SleepersArmed
    <2>. QED  BY <2>2, <2>3, <2>4, <2>5, <2>6, <2>7, <2>8 DEF Control
  <1>13. MayGo(k', at, target, t, "started", x)
    <2>1. k'.stat[t] = "running" /\ k'.stat[x] = "suspend"
      BY <1>1, <1>3, <1>6
    <2>2. \A u \in Thread \ {t} : at[u] \in InDelete => target[u] # x
      BY <1>4, <1>11 DEF InDelete
    <2>. QED
      BY <2>1, <2>2, <1>2, <1>3 DEF MayGo, MayPass, MayWorkOn, PC, InStart, InDelete
  <1>14. /\ pc' \in [Thread -> PC] /\ target' \in [Thread -> Thread]
         /\ RemovedBy(pc', target') = RemovedBy(pc, target)
         /\ Control(k', pc', target')
    <2>1. MovedTo(k', at, target, t, "started", x, pc', target')
      BY <1>1, <1>2, <1>10, <1>11, <1>12, <1>13, MovedControl
    <2>2. OthersRemove(at, target, t) = RemovedBy(at, target)
      BY <1>11, OthersRemoveAll
    <2>. QED  BY <2>1, <2>2, <1>10 DEF MovedTo
  <1>15. Safe
    BY <1>1, <1>2, <1>6, <1>14, Closed DEF Types, DefunctKept
  <1>. QED  BY <1>6, <1>15 DEF Quiet

(***************************************************************************)
(* The test of rt_thread_resume in rt_thread_startup.                      *)
(***************************************************************************)
LEMMA StepStartupTests ==
  ASSUME IInv, NEW t \in Thread, StartupTests(t)
  PROVE  Quiet
  <1>1. /\ Types /\ KernelInv(k, RemovedBy(pc, target)) /\ Control(k, pc, target)
        /\ pc \in [Thread -> PC] /\ target \in [Thread -> Thread]
    BY Opened
  <1>2. t = k.cur /\ pc[t] = "started" /\ UNCHANGED << k, slice >> /\ DefunctKept
    BY DEF StartupTests, DefunctKept
  <1>3. k.stat[t] = "running" /\ t # Idle
    BY <1>1, <1>2, Opened DEF Control, IdleAvailable
  <1>4. CASE k.stat[target[t]] = "suspend"
    <2>1. pc' = [pc EXCEPT ![t] = "start"] /\ target' = [target EXCEPT ![t] = target[t]]
      BY <1>1, <1>2, <1>4 DEF StartupTests, Goto
    <2>2. MayWorkOn(k', pc, target, t, "start", target[t])
      <3>1. /\ pc[t] \in InStart /\ target[t] \notin {t, Idle}
            /\ k.stat[target[t]] \notin {"close", "init"}
        BY <1>1, <1>2 DEF Control, CallsUnbroken, InStart
      <3>2. \A u \in Thread \ {t} : pc[u] \in InDelete => target[u] # target[t]
        BY <3>1, <1>1 DEF Control, DeletionsDisjoint
      <3>. QED  BY <3>1, <3>2, <1>2, <1>3 DEF MayWorkOn
    <2>3. MayGo(k', pc, target, t, "start", target[t])
      BY <2>2, <1>2, <1>3 DEF MayGo, MayPass, PC, InDelete
    <2>4. target[t] \in Thread
      BY <1>1
    <2>5. Safe
      BY <2>1, <2>3, <2>4, <1>1, <1>2, MovesPlainly
    <2>. QED  BY <2>5, <1>2 DEF Quiet
  <1>5. CASE k.stat[target[t]] # "suspend"
    <2>1. pc' = [pc EXCEPT ![t] = "sched"] /\ target' = [target EXCEPT ![t] = t]
      BY <1>5 DEF StartupTests, End, Begin, Goto
    <2>2. MayGo(k', pc, target, t, "sched", t)
      BY <1>2, <1>3 DEF MayGo, MayPass, PC, InStart, InDelete
    <2>3. Safe
      BY <2>1, <2>2, <1>1, <1>2, MovesPlainly
    <2>. QED  BY <2>3, <1>2 DEF Quiet
  <1>. QED  BY <1>4, <1>5

(* rt_thread_resume: the test *)
LEMMA StepCallResume ==
  ASSUME IInv, NEW t \in Thread, NEW x \in Thread, CallResume(t, x)
  PROVE  Quiet
  <1>1. /\ Types /\ KernelInv(k, RemovedBy(pc, target)) /\ Control(k, pc, target)
        /\ ControlFacts(k, pc, target)
    BY Opened
  <1>2. /\ t = k.cur /\ t # Idle /\ pc[t] = "run" /\ k.stat[x] = "suspend"
        /\ x \notin DoomedBy(pc, target)
        /\ pc' = [pc EXCEPT ![t] = "resume"] /\ target' = [target EXCEPT ![t] = x]
        /\ UNCHANGED << k, slice >> /\ DefunctKept
    BY DEF CallResume, InCall, Doomed, Begin, Goto, DefunctKept
  <1>3. k.stat[t] = "running" /\ x # t /\ x # Idle
    BY <1>1, <1>2, Opened DEF Control, IdleAvailable
  <1>4. ASSUME NEW u \in Thread, pc[u] \in InDelete PROVE target[u] # x
    BY <1>2, <1>4 DEF DoomedBy, TargetsOf
  <1>5. MayGo(k', pc, target, t, "resume", x)
    BY <1>2, <1>3, <1>4 DEF MayGo, MayPass, MayWorkOn, PC, InStart, InDelete
  <1>6. Safe
    BY <1>1, <1>2, <1>5, MovesPlainly
  <1>. QED  BY <1>2, <1>6 DEF Quiet

(***************************************************************************)
(* The section, with a thread that may have woken since the test, but      *)
(* neither has ended nor is being deleted.                                 *)
(***************************************************************************)
LEMMA StepResumes ==
  ASSUME IInv, NEW t \in Thread, Resumes(t)
  PROVE  Quiet
  <1>1. /\ Types /\ KernelInv(k, RemovedBy(pc, target)) /\ Control(k, pc, target)
        /\ ControlFacts(k, pc, target) /\ k.stat \in [Thread -> Stat]
        /\ pc \in [Thread -> PC] /\ target \in [Thread -> Thread]
    BY Opened
  <1>2. PICK x : x = target[t]
    OBVIOUS
  <1>3. PICK q : q = IF pc[t] = "start" THEN "sched" ELSE "run"
    OBVIOUS
  <1>4. /\ t = k.cur /\ pc[t] \in {"start", "resume"} /\ k' = ResumeSection(k, x)
        /\ pc' = [pc EXCEPT ![t] = q] /\ target' = [target EXCEPT ![t] = t]
        /\ slice' = slice
    BY <1>2, <1>3 DEF Resumes, End, Begin, Goto
  <1>5. k.stat[t] = "running" /\ t # Idle
    BY <1>1, <1>4, Opened DEF Control, IdleAvailable
  <1>6. /\ x \in Thread /\ x # t /\ k.stat[x] \in {"ready", "suspend"}
        /\ x \notin RemovedBy(pc, target)
    <2>1. /\ x \in Thread /\ pc[t] \in InStart /\ x # t
          /\ k.stat[x] \notin {"close", "init"}
      BY <1>1, <1>2, <1>4 DEF Control, CallsUnbroken, InStart
    <2>2. k.stat[x] # "running"
      BY <2>1, <1>1, <1>4 DEF ControlFacts, OneRunning
    <2>3. k.stat[x] \in {"ready", "suspend"}
      BY <2>1, <2>2, <1>1 DEF Stat
    <2>4. ASSUME NEW u \in Thread, pc[u] = "close" PROVE target[u] # x
      BY <2>1, <2>4, <1>1, <1>2, <1>4 DEF Control, DeletionsDisjoint, InDelete, InStart
    <2>5. x \notin RemovedBy(pc, target)
      BY <2>4 DEF RemovedBy, TargetsOf
    <2>. QED  BY <2>1, <2>3, <2>5
  <1>7. /\ KernelInv(k', RemovedBy(pc, target)) /\ Control(k', pc, target)
        /\ k'.cur = k.cur /\ k'.defunct = k.defunct /\ k'.stat[t] = "running"
    <2>1. CASE k.stat[x] = "suspend"
      <3>1. KernelInv(k', RemovedBy(pc, target)) /\ Woken(k, x, k')
        BY <2>1, <1>1, <1>4, <1>6, ResumeSectionInv
      <3>2. Control(k', pc, target)
        BY <2>1, <3>1, <1>1, <1>6, WokenControl
      <3>. QED  BY <3>1, <3>2, <1>1, <1>5, <1>6 DEF Woken
    <2>2. CASE k.stat[x] = "ready"
      <3>1. /\ KernelInv(k', RemovedBy(pc, target))
            /\ k'.stat = k.stat /\ k'.cur = k.cur /\ k'.lock = k.lock
            /\ k'.armed = k.armed /\ k'.defunct = k.defunct
        BY <2>2, <1>1, <1>4, <1>6, ResumeReadyInv
      <3>2. Control(k', pc, target)
        BY <3>1, <1>1, SameControl
      <3>. QED  BY <3>1, <3>2, <1>5
    <2>. QED  BY <2>1, <2>2, <1>6
  <1>8. MayGo(k', pc, target, t, q, t)
    BY <1>3, <1>5, <1>7 DEF MayGo, MayPass, PC, InStart, InDelete
  <1>9. DefunctKept /\ pc[t] # "close" /\ q # "close"
    BY <1>3, <1>4, <1>7 DEF DefunctKept
  <1>10. Safe
    BY <1>1, <1>4, <1>7, <1>8, <1>9, MovesPlainly
  <1>. QED  BY <1>7, <1>10 DEF Quiet

(* The running thread suspends itself. *)
LEMMA SuspendsItself ==
  ASSUME IInv, KernelInv(k', RemovedBy(pc, target)),
         k.lock = 0, pc[k.cur] = "run", k.cur # Idle,
         k'.stat = [k.stat EXCEPT ![k.cur] = "suspend"],
         k'.cur = k.cur, k'.lock = k.lock, k'.defunct = k.defunct,
         NEW q \in {"sched", "block"},
         k'.armed = IF q = "block" THEN k.armed \cup {k.cur} ELSE k.armed,
         k.cur \in k'.armed => k.cur \notin DoomedBy(pc, target),
         pc' = [pc EXCEPT ![k.cur] = q], UNCHANGED << target, slice >>
  PROVE  Quiet
  <1>1. /\ Types /\ Control(k, pc, target)
        /\ k.stat \in [Thread -> Stat] /\ k.cur \in Thread
        /\ pc \in [Thread -> PC] /\ target \in [Thread -> Thread]
    BY Opened
  <1>2. MayStop(k, pc, target, k.cur, "suspend", q, k')
    BY DEF MayStop, InDelete
  <1>3. target' = [target EXCEPT ![k.cur] = target[k.cur]] /\ target[k.cur] \in Thread
    BY <1>1
  <1>4. StoppedAt(pc, target, k', pc', target')
    <2>1. /\ pc \in [Thread -> PC] /\ target \in [Thread -> Thread]
          /\ Control(k, pc, target) /\ k.stat \in [Thread -> Stat] /\ k.cur \in Thread
          /\ MayStop(k, pc, target, k.cur, "suspend", q, k') /\ target[k.cur] \in Thread
          /\ pc' = [pc EXCEPT ![k.cur] = q]
          /\ target' = [target EXCEPT ![k.cur] = target[k.cur]]
      BY <1>1, <1>2, <1>3
    <2>. QED  BY ONLY <2>1, StopsControl
  <1>5. Safe
    BY <1>1, <1>4, Closed DEF StoppedAt, Types, DefunctKept
  <1>. QED  BY <1>5 DEF Quiet

(* rt_thread_suspend *)
LEMMA StepCallSuspend ==
  ASSUME IInv, NEW t \in Thread, CallSuspend(t)
  PROVE  Quiet
  <1>1. /\ KernelInv(k, RemovedBy(pc, target))
        /\ ControlFacts(k, pc, target) /\ k.cur \notin RemovedBy(pc, target)
    BY Opened
  <1>2. /\ t = k.cur /\ t # Idle /\ pc[t] = "run" /\ k.lock = 0
        /\ k' = Suspend(k, t) /\ pc' = [pc EXCEPT ![t] = "sched"]
        /\ UNCHANGED << target, slice >>
    BY DEF CallSuspend, InCall, MayBlock, Goto
  <1>3. k.stat[k.cur] = "running"
    BY <1>2, Opened
  <1>4. /\ KernelInv(k', RemovedBy(pc, target))
        /\ k'.stat = [k.stat EXCEPT ![k.cur] = "suspend"] /\ k'.cur = k.cur
        /\ k'.lock = k.lock /\ k'.armed = k.armed /\ k'.defunct = k.defunct
    BY <1>1, <1>2, <1>3, SuspendInv
  <1>5. k.cur \notin k'.armed
    BY <1>1, <1>3, <1>4, Members DEF ControlFacts
  <1>. QED  BY <1>2, <1>4, <1>5, SuspendsItself

(* rt_thread_sleep up to its rt_schedule *)
LEMMA StepCallSleep ==
  ASSUME EndInUse = FALSE, IInv, NEW t \in Thread, CallSleep(t)
  PROVE  Quiet
  <1>1. /\ KernelInv(k, RemovedBy(pc, target))
        /\ ControlFacts(k, pc, target) /\ k.cur \notin RemovedBy(pc, target)
        /\ k \in KernelType /\ k.cur \in Thread
    BY Opened
  <1>2. PICK e : e = [k EXCEPT !.err[t] = "ok"]
    OBVIOUS
  <1>3. PICK z : z = Suspend(e, t)
    OBVIOUS
  <1>4. /\ t = k.cur /\ t # Idle /\ pc[t] = "run" /\ k.lock = 0
        /\ t \notin DoomedBy(pc, target)
        /\ k' = StartTimer(z, t) /\ pc' = [pc EXCEPT ![t] = "block"]
        /\ UNCHANGED << target, slice >>
    BY <1>2, <1>3 DEF CallSleep, SleepStep, InCall, MayBlock, Goto, Doomed
  <1>5. k.stat[k.cur] = "running"
    BY <1>4, Opened
  <1>6. /\ e \in KernelType
        /\ e.stat = k.stat /\ e.prio = k.prio /\ e.ready = k.ready /\ e.group = k.group
        /\ e.cur = k.cur /\ e.wait = k.wait /\ e.armed = k.armed /\ e.defunct = k.defunct
        /\ e.lock = k.lock
    <2>1. [k.err EXCEPT ![t] = "ok"] \in [Thread -> Err]
      BY <1>1, TypeFields DEF Err
    <2>. QED  BY <2>1, <1>1, <1>2 DEF KernelType
  <1>7. KernelInv(e, RemovedBy(pc, target))
    BY <1>1, <1>6, Restated
  <1>8. z = Suspend(e, e.cur) /\ e.cur \notin RemovedBy(pc, target)
        /\ e.stat[e.cur] = "running"
    BY <1>1, <1>3, <1>4, <1>5, <1>6
  <1>9. /\ KernelInv(z, RemovedBy(pc, target))
        /\ z.stat = [e.stat EXCEPT ![e.cur] = "suspend"] /\ z.cur = e.cur
        /\ z.lock = e.lock /\ z.armed = e.armed /\ z.defunct = e.defunct
    BY <1>7, <1>8, SuspendInv
  <1>10. z.stat[t] = "suspend" /\ t \notin RemovedBy(pc, target)
    BY <1>1, <1>4, <1>6, <1>9 DEF ControlFacts
  <1>11. KernelInv(k', RemovedBy(pc, target))
    BY <1>1, <1>4, <1>9, <1>10, StartTimerInv
  <1>12. /\ k'.stat = z.stat /\ k'.cur = z.cur /\ k'.lock = z.lock
         /\ k'.armed = z.armed \cup {t} /\ k'.defunct = z.defunct
    <2>1. z \in KernelType
      BY <1>9 DEF KernelInv
    <2>. QED  BY <2>1, <1>4 DEF StartTimer, KernelType
  <1>13. /\ k'.stat = [k.stat EXCEPT ![k.cur] = "suspend"]
         /\ k'.cur = k.cur /\ k'.lock = k.lock /\ k'.defunct = k.defunct
         /\ k'.armed = k.armed \cup {k.cur}
    BY <1>4, <1>6, <1>9, <1>12
  <1>14. /\ k.lock = 0 /\ pc[k.cur] = "run" /\ k.cur # Idle
         /\ k'.armed = IF "block" = "block" THEN k.armed \cup {k.cur} ELSE k.armed
         /\ k.cur \in k'.armed => k.cur \notin DoomedBy(pc, target)
         /\ pc' = [pc EXCEPT ![k.cur] = "block"] /\ UNCHANGED << target, slice >>
    BY <1>4, <1>13
  <1>. QED  BY <1>11, <1>13, <1>14, SuspendsItself

(* The end of rt_thread_sleep. *)
LEMMA StepSleepReturns ==
  ASSUME IInv, NEW t \in Thread, SleepReturns(t)
  PROVE  Quiet
  <1>1. /\ Types /\ KernelInv(k, RemovedBy(pc, target)) /\ Control(k, pc, target)
        /\ k \in KernelType
    BY Opened
  <1>2. /\ t = k.cur /\ pc[t] = "wake" /\ pc' = [pc EXCEPT ![t] = "run"]
        /\ k' = [k EXCEPT !.err[t] = IF @ = "timeout" THEN "ok" ELSE @]
        /\ UNCHANGED << target, slice >>
    BY DEF SleepReturns, Goto
  <1>3. /\ k' \in KernelType
        /\ k'.stat = k.stat /\ k'.prio = k.prio /\ k'.ready = k.ready
        /\ k'.group = k.group /\ k'.cur = k.cur /\ k'.wait = k.wait
        /\ k'.armed = k.armed /\ k'.defunct = k.defunct /\ k'.lock = k.lock
    <2>1. [k.err EXCEPT ![t] = IF @ = "timeout" THEN "ok" ELSE @] \in [Thread -> Err]
      BY <1>1, TypeFields DEF Err
    <2>. QED  BY <2>1, <1>1, <1>2 DEF KernelType
  <1>4. KernelInv(k', RemovedBy(pc, target))
    BY <1>1, <1>3, Restated
  <1>5. Control(k', pc, target)
    BY <1>1, <1>3, SameControl
  <1>6. MayPass(k', t, "run")
    <2>1. t # Idle
      BY <1>1, <1>2 DEF Control, IdleAvailable
    <2>2. k'.stat[t] = "running"
      BY <1>2, <1>3, Opened
    <2>. QED  BY <2>1, <2>2 DEF MayPass, PC
  <1>7. "run" \notin InStart \cup InDelete /\ DefunctKept
    BY <1>3 DEF InStart, InDelete, DefunctKept
  <1>8. Safe
    BY <1>1, <1>2, <1>4, <1>5, <1>6, <1>7, MovesAlone
  <1>. QED  BY <1>3, <1>8 DEF Quiet

(* RT_THREAD_CTRL_CHANGE_PRIORITY *)
LEMMA StepCallChangePriority ==
  ASSUME IInv, NEW t \in Thread, NEW x \in Thread, NEW p \in NewPrio,
         CallChangePriority(t, x, p)
  PROVE  Quiet
  <1>1. /\ Types /\ KernelInv(k, RemovedBy(pc, target)) /\ Control(k, pc, target)
    BY Opened
  <1>2. /\ x \notin DoomedBy(pc, target) /\ p \in Prio
        /\ k' = ChangePriority(k, x, p) /\ UNCHANGED << pc, target, slice >>
    BY SchedulerAssumption DEF CallChangePriority, Doomed
  <1>3. x \notin RemovedBy(pc, target)
    BY <1>2 DEF DoomedBy, RemovedBy, TargetsOf, InDelete
  <1>4. /\ KernelInv(k', RemovedBy(pc, target))
        /\ k'.stat = k.stat /\ k'.cur = k.cur /\ k'.lock = k.lock
        /\ k'.armed = k.armed /\ k'.defunct = k.defunct
    BY <1>1, <1>2, <1>3, ChangePriorityInv
  <1>5. Control(k', pc, target)
    BY <1>1, <1>4, SameControl
  <1>6. Safe
    BY <1>1, <1>2, <1>4, <1>5, StaysThere DEF DefunctKept
  <1>. QED  BY <1>4, <1>6 DEF Quiet

(* A running thread may change the nesting of the scheduler lock. *)
LEMMA LockChange ==
  ASSUME IInv, k.stat[k.cur] = "running", NEW l \in Nat, k' = [k EXCEPT !.lock = l]
  PROVE  KernelInv(k', RemovedBy(pc, target)) /\ Control(k', pc, target)
         /\ k'.stat = k.stat /\ k'.cur = k.cur /\ DefunctKept
  <1>1. /\ KernelInv(k, RemovedBy(pc, target)) /\ Control(k, pc, target)
        /\ k \in KernelType /\ k.cur \notin RemovedBy(pc, target)
        /\ target \in [Thread -> Thread]
    BY Opened
  <1>2. /\ k' \in KernelType
        /\ k'.stat = k.stat /\ k'.prio = k.prio /\ k'.ready = k.ready
        /\ k'.group = k.group /\ k'.cur = k.cur /\ k'.wait = k.wait
        /\ k'.armed = k.armed /\ k'.defunct = k.defunct
    BY <1>1 DEF KernelType
  <1>3. KernelInv(k', RemovedBy(pc, target))
    BY <1>1, <1>2, Restated
  <1>4. OnlyWakes(k, k') /\ CurrentGoesOn(k', pc)
    BY <1>1, <1>2 DEF OnlyWakes, CurrentGoesOn, Control
  <1>5. Control(k', pc, target)
    BY <1>1, <1>2, <1>4, WakesControl
  <1>. QED  BY <1>2, <1>3, <1>5 DEF DefunctKept

(* rt_enter_critical *)
LEMMA StepCallEnterCritical ==
  ASSUME IInv, NEW t \in Thread, CallEnterCritical(t)
  PROVE  Quiet
  <1>1. Types /\ k.lock \in Nat
    BY Opened
  <1>2. /\ t = k.cur /\ pc[t] = "run" /\ k' = [k EXCEPT !.lock = @ + 1]
        /\ UNCHANGED << pc, target, slice >>
    BY DEF CallEnterCritical, InCall
  <1>3. k.stat[k.cur] = "running"
    BY <1>2, Opened
  <1>4. KernelInv(k', RemovedBy(pc, target)) /\ Control(k', pc, target)
        /\ k'.cur = k.cur /\ DefunctKept
    BY <1>1, <1>2, <1>3, LockChange
  <1>5. Safe
    BY <1>1, <1>2, <1>4, StaysThere
  <1>. QED  BY <1>4, <1>5 DEF Quiet

(* rt_exit_critical *)
LEMMA StepCallExitCritical ==
  ASSUME IInv, NEW t \in Thread, CallExitCritical(t)
  PROVE  Quiet
  <1>1. Types /\ k.lock \in Nat
    BY Opened
  <1>2. PICK l : l = IF k.lock - 1 <= 0 THEN 0 ELSE k.lock - 1
    OBVIOUS
  <1>3. /\ t = k.cur /\ t # Idle /\ pc[t] = "run" /\ k' = [k EXCEPT !.lock = l]
        /\ pc' = [pc EXCEPT ![t] = ExitPoint]
        /\ UNCHANGED << target, slice >>
    BY <1>2 DEF CallExitCritical, InCall, Goto
  <1>4. k.stat[k.cur] = "running" /\ l \in Nat
    BY <1>1, <1>2, <1>3, Opened
  <1>5. KernelInv(k', RemovedBy(pc, target)) /\ Control(k', pc, target)
        /\ k'.stat = k.stat /\ k'.cur = k.cur /\ DefunctKept
    BY <1>3, <1>4, LockChange
  <1>6. MayPass(k', t, ExitPoint) /\ ExitPoint \notin InStart \cup InDelete
    BY <1>3, <1>4, <1>5 DEF MayPass, PC, ExitPoint, InStart, InDelete
  <1>7. Safe
    BY <1>1, <1>3, <1>5, <1>6, MovesAlone
  <1>. QED  BY <1>5, <1>7 DEF Quiet

(***************************************************************************)
(* rt_thread_delete: the tests.  The thread is nobody's target, and none   *)
(* of those being deleted or deleting.                                     *)
(***************************************************************************)
LEMMA StepCallDelete ==
  ASSUME EndInUse = FALSE, IInv, NEW t \in Thread, NEW x \in Thread, CallDelete(t, x)
  PROVE  Quiet
  <1>1. /\ Types /\ KernelInv(k, RemovedBy(pc, target)) /\ Control(k, pc, target)
        /\ ControlFacts(k, pc, target)
    BY Opened
  <1>2. PICK q : q = IF k.stat[x] = "init" THEN "close" ELSE "remove"
    OBVIOUS
  <1>3. /\ t = k.cur /\ t # Idle /\ pc[t] = "run"
        /\ x # t /\ x # Idle /\ pc[x] \notin InDelete /\ t \notin DoomedBy(pc, target)
        /\ k.stat[x] # "close" /\ x \notin k.armed
        /\ x \notin TargetsOf(pc, target, InDelete \cup InStart)
        /\ pc' = [pc EXCEPT ![t] = q] /\ target' = [target EXCEPT ![t] = x]
        /\ UNCHANGED << k, slice >> /\ DefunctKept
    BY <1>2 DEF CallDelete, Deletable, InCall, Doomed, InUse, Begin, Goto, DefunctKept
  <1>4. k.stat[t] = "running"
    BY <1>3, Opened
  <1>5. MayWorkOn(k', pc, target, t, q, x)
    <2>1. \A u \in Thread : pc[u] \in InDelete => target[u] # x
      BY <1>3 DEF TargetsOf
    <2>. QED  BY <2>1, <1>2, <1>3, <1>4 DEF MayWorkOn
  <1>6. MayDelete(k', pc, target, t, q, x)
    <2>1. \A u \in Thread : pc[u] \in InDelete => target[u] # t
      BY <1>3 DEF DoomedBy, TargetsOf
    <2>2. \A u \in Thread : pc[u] \in InStart \cup InDelete => target[u] # x
      BY <1>3 DEF TargetsOf
    <2>. QED  BY <2>1, <2>2, <1>3 DEF MayDelete
  <1>7. MayGo(k', pc, target, t, q, x)
    BY <1>2, <1>3, <1>4, <1>5, <1>6 DEF MayGo, MayPass, PC
  <1>8. KernelInv(k', OthersRemove(pc, target, t) \cup (IF q = "close" THEN {x} ELSE {}))
    <2>1. OthersRemove(pc, target, t) = RemovedBy(pc, target)
      BY <1>3, OthersRemoveAll
    <2>2. CASE q = "close"
      <3>1. k.stat[x] = "init"
        BY <2>2, <1>2
      <3>2. ListsInv(k, RemovedBy(pc, target) \cup {x})
        BY <3>1, <1>1, AddOut DEF ControlFacts
      <3>3. KernelInv(k, RemovedBy(pc, target) \cup {x})
        BY <3>2, <1>1, InvSplit DEF ControlFacts
      <3>. QED  BY <3>3, <2>1, <2>2, <1>3
    <2>3. CASE q # "close"
      <3>1. OthersRemove(pc, target, t) \cup (IF q = "close" THEN {x} ELSE {})
              = RemovedBy(pc, target)
        BY <2>1, <2>3
      <3>. QED  BY <3>1, <1>1, <1>3
    <2>. QED  BY <2>2, <2>3
  <1>9. Safe
    BY <1>1, <1>3, <1>7, <1>8, MovesOn
  <1>. QED  BY <1>3, <1>9 DEF Quiet

(* rt_schedule_remove_thread in rt_thread_delete *)
LEMMA StepDeleteRemoves ==
  ASSUME IInv, NEW t \in Thread, DeleteRemoves(t)
  PROVE  Quiet
  <1>1. /\ Types /\ KernelInv(k, RemovedBy(pc, target)) /\ Control(k, pc, target)
        /\ pc \in [Thread -> PC] /\ target \in [Thread -> Thread]
    BY Opened
  <1>2. PICK x : x = target[t]
    OBVIOUS
  <1>3. /\ t = k.cur /\ pc[t] = "remove" /\ pc[t] \in InDelete
        /\ k' = RemoveThread(k, x)
        /\ pc' = [pc EXCEPT ![t] = "close"] /\ UNCHANGED << target, slice >>
    BY <1>2 DEF DeleteRemoves, Goto, InDelete
  <1>4. k.stat[t] = "running" /\ t # Idle
    BY <1>1, <1>3, Opened DEF Control, IdleAvailable
  <1>5. x \in Thread /\ x \notin {t, Idle} /\ k.stat[x] # "close" /\ x \notin k.armed
    <2>1. x \in DoomedBy(pc, target)
      BY <1>2, <1>3 DEF DoomedBy, TargetsOf
    <2>2. x \notin k.armed
      BY <2>1, <1>1 DEF Control, DeletionsDisjoint
    <2>. QED  BY <2>2, <1>1, <1>2, <1>3 DEF Control, CallsUnbroken
  <1>6. /\ KernelInv(k', RemovedBy(pc, target) \cup {x})
        /\ k'.stat = k.stat /\ k'.cur = k.cur /\ k'.lock = k.lock
        /\ k'.armed = k.armed /\ k'.defunct = k.defunct
    BY <1>1, <1>3, <1>5, DeleteInv
  <1>7. Control(k', pc, target)
    BY <1>1, <1>6, SameControl
  <1>8. \A u \in Thread \ {t} :
          /\ pc[u] \in InDelete => target[u] # t
          /\ pc[u] \in InStart \cup InDelete => target[u] # x
    BY <1>1, <1>2, <1>3 DEF Control, DeletionsDisjoint
  <1>9. pc[x] \notin InDelete
    BY <1>1, <1>2, <1>3 DEF Control, DeletionsDisjoint
  <1>10. MayGo(k', pc, target, t, "close", x)
    BY <1>3, <1>4, <1>5, <1>6, <1>8, <1>9
       DEF MayGo, MayPass, MayWorkOn, MayDelete, PC
  <1>11. KernelInv(k', OthersRemove(pc, target, t)
                         \cup (IF "close" = "close" THEN {x} ELSE {}))
    <2>1. OthersRemove(pc, target, t) = RemovedBy(pc, target)
      BY <1>3, OthersRemoveAll
    <2>. QED  BY <2>1, <1>6
  <1>12. target' = [target EXCEPT ![t] = x]
    BY <1>1, <1>2, <1>3
  <1>13. Safe
    BY <1>1, <1>3, <1>5, <1>6, <1>7, <1>10, <1>11, <1>12, MovesOn DEF DefunctKept
  <1>. QED  BY <1>6, <1>13 DEF Quiet

(***************************************************************************)
(* The closing section of rt_thread_delete: the deleter goes on, and then  *)
(* the victim, which no call works on any more, is closed.                 *)
(***************************************************************************)
LEMMA StepDeleteCloses ==
  ASSUME IInv, NEW t \in Thread, DeleteCloses(t)
  PROVE  Quiet
  <1>1. /\ Types /\ KernelInv(k, RemovedBy(pc, target)) /\ Control(k, pc, target)
        /\ ControlFacts(k, pc, target) /\ k.cur \in Thread /\ k.stat \in [Thread -> Stat]
        /\ pc \in [Thread -> PC] /\ target \in [Thread -> Thread]
    BY Opened
  <1>2. PICK x : x = target[t]
    OBVIOUS
  <1>3. PICK next \in {"run", "sched"} :
          /\ t = k.cur /\ pc[t] = "close" /\ k' = Close(k, x)
          /\ pc' = [pc EXCEPT ![t] = next, ![x] = "dead"]
          /\ target' = [target EXCEPT ![t] = t, ![x] = x]
          /\ slice' = slice
    BY <1>2 DEF DeleteCloses
  <1>4. k.stat[t] = "running" /\ t # Idle /\ pc[t] \in InDelete
    BY <1>1, <1>3, Opened DEF Control, IdleAvailable, InDelete
  <1>5. /\ x \in Thread /\ x \in RemovedBy(pc, target) /\ x \notin {t, Idle}
        /\ k.stat[x] # "close" /\ x \notin k.armed
    <2>1. x \in RemovedBy(pc, target) /\ x \in DoomedBy(pc, target)
      BY <1>2, <1>3, <1>4 DEF RemovedBy, DoomedBy, TargetsOf
    <2>2. x \notin k.armed
      BY <2>1, <1>1 DEF Control, DeletionsDisjoint
    <2>. QED  BY <2>1, <2>2, <1>1, <1>2, <1>4 DEF Control, CallsUnbroken
  <1>6. /\ pc[x] \notin InDelete
        /\ \A u \in Thread \ {t} : pc[u] \in InStart \cup InDelete => target[u] # x
    BY <1>1, <1>2, <1>4 DEF Control, DeletionsDisjoint
  <1>7. /\ KernelInv(k', RemovedBy(pc, target) \ {x})
        /\ k'.stat = [k.stat EXCEPT ![x] = "close"] /\ k'.cur = k.cur
        /\ k'.lock = k.lock /\ k'.armed = k.armed
        /\ Range(k'.defunct) = Range(k.defunct) \cup {x}
    <2>1. /\ KernelInv(k, RemovedBy(pc, target)) /\ x \in Thread
          /\ x \in RemovedBy(pc, target) /\ k.stat[x] # "close" /\ k' = Close(k, x)
      BY <1>1, <1>3, <1>5
    <2>. QED  BY ONLY <2>1, CloseInv
  <1>8. PICK at : at = [pc EXCEPT ![t] = next]
    OBVIOUS
  <1>9. PICK tg : tg = [target EXCEPT ![t] = t]
    OBVIOUS
  <1>10. /\ at \in [Thread -> PC] /\ tg \in [Thread -> Thread]
         /\ Control(k, at, tg) /\ RemovedBy(at, tg) = OthersRemove(pc, target, t)
    <2>1. MayGo(k, pc, target, t, next, t)
      BY <1>4 DEF MayGo, MayPass, PC, InStart, InDelete
    <2>2. MovedTo(k, pc, target, t, next, t, at, tg)
      BY <2>1, <1>1, <1>8, <1>9, MovedControl
    <2>. QED  BY <2>2 DEF MovedTo
  <1>11. OthersRemove(pc, target, t) = RemovedBy(pc, target) \ {x}
    <2>1. ASSUME NEW u \in Thread \ {t}, pc[u] = "close"
          PROVE  target[u] \in RemovedBy(pc, target) \ {x}
      <3>1. target[u] # x
        BY <2>1, <1>6 DEF InDelete
      <3>. QED  BY <3>1, <2>1 DEF RemovedBy, TargetsOf
    <2>2. ASSUME NEW u \in Thread, pc[u] = "close", target[u] # x
          PROVE  target[u] \in OthersRemove(pc, target, t)
      <3>1. u \in Thread \ {t}
        BY <2>2, <1>2
      <3>. QED  BY <3>1, <2>2 DEF OthersRemove
    <2>. QED  BY <2>1, <2>2 DEF OthersRemove, RemovedBy, TargetsOf
  <1>12. /\ \A u \in Thread : at[u] = IF u = t THEN next ELSE pc[u]
         /\ \A u \in Thread : tg[u] = IF u = t THEN t ELSE target[u]
         /\ pc' = [at EXCEPT ![x] = "dead"] /\ target' = [tg EXCEPT ![x] = x]
    BY <1>1, <1>3, <1>5, <1>8, <1>9
  <1>13. MayStop(k, at, tg, x, "close", "dead", k')
    <2>1. at[x] \notin InDelete
      BY <1>5, <1>6, <1>12
    <2>2. ASSUME NEW u \in Thread, at[u] \in InDelete \cup InStart PROVE tg[u] # x
      <3>1. u # t
        BY <2>2, <1>12 DEF InStart, InDelete
      <3>. QED  BY <3>1, <2>2, <1>6, <1>12
    <2>3. x \notin TargetsOf(at, tg, InDelete \cup InStart)
      BY <2>2 DEF TargetsOf
    <2>. QED  BY <2>1, <2>3, <1>3, <1>5, <1>7 DEF MayStop
  <1>14. StoppedAt(at, tg, k', pc', target')
    <2>1. /\ at \in [Thread -> PC] /\ tg \in [Thread -> Thread]
          /\ Control(k, at, tg) /\ k.stat \in [Thread -> Stat] /\ x \in Thread
          /\ MayStop(k, at, tg, x, "close", "dead", k')
          /\ pc' = [at EXCEPT ![x] = "dead"] /\ target' = [tg EXCEPT ![x] = x]
      BY <1>1, <1>5, <1>10, <1>12, <1>13
    <2>. QED  BY ONLY <2>1, StopsControl
  <1>15. /\ pc' \in [Thread -> PC] /\ target' \in [Thread -> Thread]
         /\ KernelInv(k', RemovedBy(pc', target')) /\ Control(k', pc', target')
    BY <1>7, <1>10, <1>11, <1>14 DEF StoppedAt
  <1>16. Safe
    BY <1>1, <1>3, <1>7, <1>15, Closed DEF Types, DefunctKept
  <1>. QED  BY <1>7, <1>16 DEF Quiet

(* _thread_exit *)
LEMMA StepCallExit ==
  ASSUME EndInUse = FALSE, IInv, NEW t \in Thread, CallExit(t)
  PROVE  Quiet
  <1>1. /\ Types /\ KernelInv(k, RemovedBy(pc, target)) /\ Control(k, pc, target)
        /\ ControlFacts(k, pc, target) /\ k.cur \notin RemovedBy(pc, target)
        /\ k.cur \in Thread /\ k.stat \in [Thread -> Stat]
        /\ pc \in [Thread -> PC] /\ target \in [Thread -> Thread]
    BY Opened
  <1>2. PICK j : j = RemoveThread(k, t)
    OBVIOUS
  <1>3. /\ t = k.cur /\ t # Idle /\ pc[t] = "run" /\ k.lock = 0
        /\ t \notin TargetsOf(pc, target, InDelete \cup InStart)
        /\ k' = Close(j, t) /\ pc' = [pc EXCEPT ![t] = "sched"]
        /\ UNCHANGED << target, slice >>
    BY <1>2 DEF CallExit, InCall, InUse, MayBlock, Goto
  <1>4. k.stat[t] = "running" /\ t \notin k.armed
    <2>1. k.stat[t] = "running"
      BY <1>3, Opened
    <2>. QED  BY <2>1, <1>1, Members DEF ControlFacts
  <1>5. /\ KernelInv(j, RemovedBy(pc, target) \cup {t})
        /\ j.stat = k.stat /\ j.cur = k.cur /\ j.lock = k.lock
        /\ j.armed = k.armed /\ j.defunct = k.defunct
    <2>1. k.stat[t] # "close"
      BY <1>4
    <2>. QED  BY <2>1, <1>1, <1>2, <1>4, DeleteInv
  <1>6. /\ KernelInv(k', (RemovedBy(pc, target) \cup {t}) \ {t})
        /\ k'.stat = [j.stat EXCEPT ![t] = "close"]
        /\ k'.cur = j.cur /\ k'.lock = j.lock /\ k'.armed = j.armed
        /\ Range(k'.defunct) = Range(j.defunct) \cup {t}
    <2>1. j.stat[t] # "close" /\ t \in RemovedBy(pc, target) \cup {t}
      BY <1>4, <1>5
    <2>. QED  BY <2>1, <1>3, <1>5, CloseInv
  <1>7. (RemovedBy(pc, target) \cup {t}) \ {t} = RemovedBy(pc, target)
    BY <1>1, <1>3
  <1>8. MayStop(k, pc, target, t, "close", "sched", k')
    BY <1>3, <1>4, <1>5, <1>6 DEF MayStop, InDelete
  <1>9. StoppedAt(pc, target, k', pc', target')
    <2>1. /\ pc \in [Thread -> PC] /\ target \in [Thread -> Thread]
          /\ Control(k, pc, target) /\ k.stat \in [Thread -> Stat] /\ t \in Thread
          /\ MayStop(k, pc, target, t, "close", "sched", k') /\ target[t] \in Thread
          /\ pc' = [pc EXCEPT ![t] = "sched"]
          /\ target' = [target EXCEPT ![t] = target[t]]
      BY <1>1, <1>3, <1>8
    <2>. QED  BY ONLY <2>1, StopsControl
  <1>10. /\ pc' \in [Thread -> PC] /\ target' \in [Thread -> Thread]
         /\ KernelInv(k', RemovedBy(pc', target')) /\ Control(k', pc', target')
    BY <1>6, <1>7, <1>9 DEF StoppedAt
  <1>11. Safe
    BY <1>1, <1>3, <1>5, <1>6, <1>10, Closed DEF Types, DefunctKept
  <1>. QED  BY <1>5, <1>6, <1>11 DEF Quiet

(***************************************************************************)
(* The idle thread changes its point only.                                 *)
(***************************************************************************)
LEMMA IdleMoves ==
  ASSUME NEW s, NEW at \in [Thread -> PC], NEW tgt \in [Thread -> Thread],
         Control(s, at, tgt),
         s.cur = Idle => s.stat[s.cur] = "running",
         NEW q \in {"run", "reap"}, NEW x \in Thread,
         q = "reap" => x \in Range(s.defunct),
         NEW to, to = [at EXCEPT ![Idle] = q], NEW tg, tg = [tgt EXCEPT ![Idle] = x]
  PROVE  StoppedAt(at, tgt, s, to, tg)
  <1>1. /\ Idle \in Thread /\ at[Idle] \in {"run", "reap"}
        /\ to \in [Thread -> PC] /\ tg \in [Thread -> Thread]
        /\ \A u \in Thread : to[u] = IF u = Idle THEN q ELSE at[u]
        /\ \A u \in Thread : tg[u] = IF u = Idle THEN x ELSE tgt[u]
    BY KernelAssumption DEF Control, IdleAvailable, PC
  <1>2. ASSUME NEW u \in Thread
        PROVE  /\ to[u] \in InStart \cup InDelete <=> at[u] \in InStart \cup InDelete
               /\ to[u] \in InDelete <=> at[u] \in InDelete
               /\ to[u] = "close" <=> at[u] = "close"
               /\ to[u] \in InStart \cup InDelete => tg[u] = tgt[u] /\ to[u] = at[u]
    BY <1>1 DEF InStart, InDelete
  <1>3. RemovedBy(to, tg) = RemovedBy(at, tgt) /\ DoomedBy(to, tg) = DoomedBy(at, tgt)
    <2>1. RemovedBy(to, tg) = RemovedBy(at, tgt)
      BY <1>2 DEF RemovedBy, TargetsOf, InDelete
    <2>2. DoomedBy(to, tg) = DoomedBy(at, tgt)
      BY <1>2 DEF DoomedBy, TargetsOf
    <2>. QED  BY <2>1, <2>2
  <1>4. CurrentGoesOn(s, to) /\ IdleAvailable(s, to) /\ StartedHasPlace(s, to)
    BY <1>1 DEF Control, CurrentGoesOn, IdleAvailable, StartedHasPlace
  <1>5. CallsUnbroken(s, to, tg)
    BY <1>2 DEF Control, CallsUnbroken
  <1>6. DeletionsDisjoint(s, to, tg)
    <2>1. s.cur \notin RemovedBy(to, tg) /\ s.armed \cap DoomedBy(to, tg) = {}
      BY <1>3 DEF Control, DeletionsDisjoint
    <2>2. ASSUME NEW t \in Thread, NEW u \in Thread,
                 to[t] \in InDelete, to[u] \in InStart \cup InDelete
          PROVE  to[tg[t]] \notin InDelete /\ (tg[u] = tg[t] => u = t)
      <3>1. /\ at[t] \in InDelete /\ at[u] \in InStart \cup InDelete
            /\ tg[t] = tgt[t] /\ tg[u] = tgt[u] /\ tgt[t] \in Thread
        BY <2>2, <1>2
      <3>2. at[tgt[t]] \notin InDelete /\ (tgt[u] = tgt[t] => u = t)
        BY <3>1 DEF Control, DeletionsDisjoint
      <3>. QED  BY <3>1, <3>2, <1>2
    <2>. QED  BY <2>1, <2>2 DEF DeletionsDisjoint
  <1>7. ReapsDefunct(s, to, tg) /\ SleepersArmed(s, to)
    BY <1>1 DEF Control, ReapsDefunct, SleepersArmed
  <1>. QED  BY <1>1, <1>3, <1>4, <1>5, <1>6, <1>7 DEF StoppedAt, Control

(* rt_defunct_execute: the read *)
LEMMA StepIdleReads ==
  ASSUME IInv, IdleReads
  PROVE  Quiet
  <1>1. /\ Types /\ KernelInv(k, RemovedBy(pc, target)) /\ Control(k, pc, target)
        /\ ControlFacts(k, pc, target)
        /\ pc \in [Thread -> PC] /\ target \in [Thread -> Thread]
    BY Opened
  <1>2. PICK x : x = Head(k.defunct)
    OBVIOUS
  <1>3. /\ k.cur = Idle /\ pc[Idle] = "run" /\ k.defunct # << >>
        /\ pc' = [pc EXCEPT ![Idle] = "reap"] /\ target' = [target EXCEPT ![Idle] = x]
        /\ UNCHANGED << k, slice >>
    BY <1>2 DEF IdleReads, Begin, Goto
  <1>4. k.stat[k.cur] = "running"
    BY <1>3, Opened
  <1>5. x \in Range(k.defunct) /\ x \in Thread
    <2>1. k.defunct \in Seq(Thread)
      BY <1>1, TypeFields DEF ControlFacts
    <2>2. 1 \in DOMAIN k.defunct /\ x = k.defunct[1]
      BY <2>1, <1>2, <1>3
    <2>3. x \in Range(k.defunct)
      BY <2>2 DEF Range
    <2>. QED  BY <2>3, <1>1, Members DEF ControlFacts
  <1>6. StoppedAt(pc, target, k, pc', target')
    <2>1. /\ pc \in [Thread -> PC] /\ target \in [Thread -> Thread]
          /\ Control(k, pc, target) /\ (k.cur = Idle => k.stat[k.cur] = "running")
          /\ "reap" \in {"run", "reap"} /\ x \in Thread
          /\ ("reap" = "reap" => x \in Range(k.defunct))
          /\ pc' = [pc EXCEPT ![Idle] = "reap"] /\ target' = [target EXCEPT ![Idle] = x]
      BY <1>1, <1>3, <1>4, <1>5
    <2>. QED  BY ONLY <2>1, IdleMoves
  <1>7. Safe
    BY <1>1, <1>3, <1>6, Closed DEF StoppedAt, Types, DefunctKept
  <1>. QED  BY <1>3, <1>7 DEF Quiet

(***************************************************************************)
(* And the section: the thread that was read, and no other, is freed; it   *)
(* was closed, and stands in no ready list.                                *)
(***************************************************************************)
FreesTarget ==
  /\ k.cur = Idle /\ pc[Idle] = "reap" /\ k'.cur = k.cur
  /\ Range(k'.defunct) = Range(k.defunct) \ {target[Idle]}
  /\ k'.stat[target[Idle]] = "close"
  /\ \A p \in Prio : target[Idle] \notin Range(k'.ready[p])

LEMMA StepIdleReaps ==
  ASSUME IInv, IdleReaps
  PROVE  IInv' /\ FreesTarget
  <1>1. /\ Types /\ KernelInv(k, RemovedBy(pc, target)) /\ Control(k, pc, target)
        /\ ControlFacts(k, pc, target)
        /\ pc \in [Thread -> PC] /\ target \in [Thread -> Thread]
    BY Opened
  <1>2. PICK x : x = target[Idle]
    OBVIOUS
  <1>3. /\ k.cur = Idle /\ pc[Idle] = "reap" /\ k' = Unlink(k, x)
        /\ pc' = [pc EXCEPT ![Idle] = "run"] /\ target' = [target EXCEPT ![Idle] = Idle]
        /\ slice' = slice
    BY <1>2 DEF IdleReaps, Reaped, End, Begin, Goto
  <1>4. k.stat[k.cur] = "running" /\ Idle \in Thread
    BY <1>3, Opened, KernelAssumption
  <1>5. x \in Thread /\ x \in Range(k.defunct) /\ k.stat[x] = "close"
    <2>1. x \in Range(k.defunct)
      BY <1>1, <1>2, <1>3, <1>4 DEF Control, ReapsDefunct
    <2>. QED  BY <2>1, <1>1, Members DEF ControlFacts
  <1>6. /\ KernelInv(k', RemovedBy(pc, target))
        /\ k'.stat = k.stat /\ k'.cur = k.cur /\ k'.lock = k.lock
        /\ k'.armed = k.armed /\ Range(k'.defunct) = Range(k.defunct) \ {x}
    <2>1. /\ KernelInv(k, RemovedBy(pc, target)) /\ x \in Thread
          /\ x \in Range(k.defunct) /\ k' = Unlink(k, x)
      BY <1>1, <1>3, <1>5
    <2>. QED  BY ONLY <2>1, ReapInv
  <1>7. StoppedAt(pc, target, k, pc', target')
    <2>1. /\ pc \in [Thread -> PC] /\ target \in [Thread -> Thread]
          /\ Control(k, pc, target) /\ (k.cur = Idle => k.stat[k.cur] = "running")
          /\ "run" \in {"run", "reap"} /\ Idle \in Thread
          /\ ("run" = "reap" => Idle \in Range(k.defunct))
          /\ pc' = [pc EXCEPT ![Idle] = "run"] /\ target' = [target EXCEPT ![Idle] = Idle]
      BY <1>1, <1>3, <1>4
    <2>. QED  BY ONLY <2>1, IdleMoves
  <1>8. /\ pc' \in [Thread -> PC] /\ target' \in [Thread -> Thread]
        /\ Control(k, pc', target') /\ RemovedBy(pc', target') = RemovedBy(pc, target)
    BY <1>7 DEF StoppedAt
  <1>9. Control(k', pc', target')
    <2>1. \A t \in Thread : pc'[t] # "reap"
      BY <1>1, <1>3 DEF Control, ReapsDefunct
    <2>2. ReapsDefunct(k', pc', target')
      BY <2>1 DEF ReapsDefunct
    <2>. QED
      BY <2>2, <1>6, <1>8 DEF Control, CurrentGoesOn, IdleAvailable, StartedHasPlace,
         CallsUnbroken, DeletionsDisjoint, SleepersArmed
  <1>10. IInv'
    <2>1. /\ k' \in KernelType /\ KernelInv(k', Removed')
      BY <1>6, <1>8 DEF KernelInv, Removed
    <2>. QED
      BY <2>1, <1>1, <1>3, <1>8, <1>9
         DEF IInv, TypeOK, Types, KernelConsistent, ControlConsistent
  <1>11. \A p \in Prio : x \notin Range(k'.ready[p])
    <2>1. ListsInv(k', RemovedBy(pc, target)) /\ k'.stat[x] = "close"
      BY <1>5, <1>6, InvSplit
    <2>. QED  BY <2>1, <1>5, Members
  <1>12. FreesTarget
    BY <1>2, <1>3, <1>5, <1>6, <1>11 DEF FreesTarget
  <1>. QED  BY <1>10, <1>12

(* rt_thread_init of a control block that is free again *)
LEMMA StepCallCreate ==
  ASSUME IInv, NEW t \in Thread, NEW x \in Thread, CallCreate(t, x)
  PROVE  Quiet
  <1>1. /\ Types /\ KernelInv(k, RemovedBy(pc, target)) /\ Control(k, pc, target)
        /\ ControlFacts(k, pc, target) /\ target \in [Thread -> Thread]
    BY Opened
  <1>2. /\ t = k.cur /\ pc[t] = "run" /\ k.stat[x] = "close"
        /\ x \notin Range(k.defunct) /\ k' = Create(k, x)
        /\ slice' = [slice EXCEPT ![x] = InitTick[x]]
        /\ UNCHANGED << pc, target >>
    BY DEF CallCreate, InCall
  <1>3. k.stat[t] = "running" /\ x # k.cur
    <2>1. k.stat[t] = "running"
      BY <1>2, Opened
    <2>. QED  BY <2>1, <1>2
  <1>4. ASSUME NEW u \in Thread, pc[u] \in InStart \cup InDelete
        PROVE  target[u] # x /\ u # x
    BY <1>1, <1>2, <1>4 DEF Control, CallsUnbroken
  <1>5. x \notin RemovedBy(pc, target)
    BY <1>4 DEF RemovedBy, TargetsOf, InDelete
  <1>6. /\ KernelInv(k', RemovedBy(pc, target))
        /\ k'.stat = [k.stat EXCEPT ![x] = "init"] /\ k'.cur = k.cur
        /\ k'.lock = k.lock /\ k'.armed = k.armed /\ k'.defunct = k.defunct
    BY <1>1, <1>2, <1>3, <1>5, CreateInv
  <1>7. \A u \in Thread : k'.stat[u] = IF u = x THEN "init" ELSE k.stat[u]
    BY <1>1, <1>6 DEF ControlFacts
  <1>8. Control(k', pc, target)
    <2>1. CurrentGoesOn(k', pc) /\ IdleAvailable(k', pc) /\ StartedHasPlace(k', pc)
      BY <1>1, <1>2, <1>3, <1>6, <1>7
         DEF Control, CurrentGoesOn, IdleAvailable, StartedHasPlace, ControlFacts
    <2>2. CallsUnbroken(k', pc, target)
      <3>1. ASSUME NEW u \in Thread, pc[u] \in InStart \cup InDelete
            PROVE  /\ k'.stat[u] \in {"ready", "running"} /\ target[u] \notin {u, Idle}
                   /\ k'.stat[target[u]] # "close"
                   /\ pc[u] # "close" => k'.stat[target[u]] # "init"
        <4>1. target[u] # x /\ u # x /\ target[u] \in Thread
          BY <3>1, <1>1, <1>4
        <4>2. /\ k.stat[u] \in {"ready", "running"} /\ target[u] \notin {u, Idle}
              /\ k.stat[target[u]] # "close"
              /\ pc[u] # "close" => k.stat[target[u]] # "init"
          BY <3>1, <1>1 DEF Control, CallsUnbroken
        <4>. QED  BY <4>1, <4>2, <1>7
      <3>. QED  BY <3>1 DEF CallsUnbroken
    <2>3. DeletionsDisjoint(k', pc, target) /\ ReapsDefunct(k', pc, target)
      BY <1>1, <1>6 DEF Control, DeletionsDisjoint, ReapsDefunct
    <2>4. SleepersArmed(k', pc)
      BY <1>1, <1>6, <1>7 DEF Control, SleepersArmed
    <2>. QED  BY <2>1, <2>2, <2>3, <2>4 DEF Control
  <1>9. slice' \in [Thread -> Nat \ {0}]
    BY <1>1, <1>2, SchedulerAssumption DEF Types
  <1>10. Safe
    BY <1>1, <1>2, <1>6, <1>8, <1>9, Closed DEF Types, DefunctKept
  <1>. QED  BY <1>6, <1>10 DEF Quiet

-----------------------------------------------------------------------------
(* Interrupt context *)

(* rt_tick_increase *)
LEMMA StepTick ==
  ASSUME IInv, Tick
  PROVE  Safe
  <1>1. /\ Types /\ KernelInv(k, RemovedBy(pc, target)) /\ Control(k, pc, target)
        /\ k \in KernelType /\ k.cur \in Thread
    BY Opened
  <1>2. UNCHANGED << pc, target >>
    BY DEF Tick
  <1>3. CASE slice[k.cur] = 1
    <2>1. PICK j : j = [k EXCEPT !.yield = @ \cup {k.cur}]
      OBVIOUS
    <2>2. k' = Schedule(j) /\ slice' = [slice EXCEPT ![k.cur] = InitTick[k.cur]]
      BY <2>1, <1>3 DEF Tick, TickStep
    <2>3. slice' \in [Thread -> Nat \ {0}]
      BY <1>1, <2>2, SchedulerAssumption DEF Types
    <2>4. /\ j \in KernelType
          /\ j.stat = k.stat /\ j.prio = k.prio /\ j.ready = k.ready /\ j.group = k.group
          /\ j.cur = k.cur /\ j.wait = k.wait /\ j.armed = k.armed
          /\ j.defunct = k.defunct /\ j.lock = k.lock
      BY <1>1, <2>1 DEF KernelType
    <2>5. KernelInv(j, RemovedBy(pc, target))
      BY <1>1, <2>4, Restated
    <2>6. Control(j, pc, target)
      BY <1>1, <2>4, SameControl
    <2>. QED  BY <1>1, <1>2, <2>2, <2>3, <2>4, <2>5, <2>6, SchedulesTo
  <1>4. CASE slice[k.cur] # 1
    <2>1. k' = k /\ slice' = [slice EXCEPT ![k.cur] = @ - 1]
      BY <1>4 DEF Tick, TickStep
    <2>2. slice' \in [Thread -> Nat \ {0}]
      BY <1>1, <1>4, <2>1 DEF Types
    <2>. QED  BY <1>1, <1>2, <2>1, <2>2, Closed DEF Types, DefunctKept
  <1>. QED  BY <1>3, <1>4

(* A thread's timer is due. *)
LEMMA StepTickTimeout ==
  ASSUME IInv, NEW x \in Thread, TickTimeout(x)
  PROVE  Safe
  <1>1. /\ Types /\ KernelInv(k, RemovedBy(pc, target)) /\ Control(k, pc, target)
        /\ k \in KernelType /\ k.cur \notin RemovedBy(pc, target)
    BY Opened
  <1>2. x \in k.armed /\ k' = Timeout(k, x) /\ UNCHANGED << pc, target, slice >>
    BY DEF TickTimeout
  <1>3. k.stat[x] = "suspend"
    BY <1>1, <1>2, InvSplit, Members
  <1>4. PICK j : /\ KernelInv(j, RemovedBy(pc, target)) /\ Woken(k, x, j)
                 /\ j.err = [k.err EXCEPT ![x] = "timeout"]
                 /\ k' = Schedule(j)
    BY <1>1, <1>2, TimeoutInv
  <1>5. Control(j, pc, target) /\ j.defunct = k.defunct
    BY <1>1, <1>3, <1>4, WokenControl DEF Types, Woken
  <1>. QED  BY <1>1, <1>2, <1>4, <1>5, SchedulesTo DEF Types

(* rt_thread_resume in an interrupt *)
LEMMA StepIrqResume ==
  ASSUME IInv, NEW x \in Thread, IrqResume(x)
  PROVE  Safe
  <1>1. /\ Types /\ KernelInv(k, RemovedBy(pc, target)) /\ Control(k, pc, target)
    BY Opened
  <1>2. /\ k.stat[x] = "suspend" /\ x \notin DoomedBy(pc, target)
        /\ k' = Schedule(Resume(k, x)) /\ UNCHANGED << pc, target, slice >>
    BY DEF IrqResume, Doomed
  <1>3. PICK j : j = Resume(k, x)
    OBVIOUS
  <1>4. x \notin RemovedBy(pc, target)
    BY <1>2 DEF DoomedBy, RemovedBy, TargetsOf, InDelete
  <1>5. KernelInv(j, RemovedBy(pc, target)) /\ Woken(k, x, j)
    BY <1>1, <1>2, <1>3, <1>4, ResumeInv
  <1>6. Control(j, pc, target) /\ j.defunct = k.defunct
    BY <1>1, <1>2, <1>5, WokenControl DEF Types, Woken
  <1>. QED  BY <1>1, <1>2, <1>3, <1>5, <1>6, SchedulesTo DEF Types

-----------------------------------------------------------------------------
(* The theorems *)

(***************************************************************************)
(* After start-up the invariant holds.                                     *)
(***************************************************************************)
LEMMA InitIInv == Init => IInv
  <1> SUFFICES ASSUME Init PROVE IInv
    OBVIOUS
  <1>1. /\ Main \in Thread /\ Main # Idle /\ Idle \in Thread
        /\ InitTick \in [Thread -> Nat \ {0}]
    BY SchedulerAssumption, KernelAssumption
  <1>2. /\ pc \in [Thread -> PC] /\ target \in [Thread -> Thread]
        /\ slice \in [Thread -> Nat \ {0}]
        /\ \A t \in Thread : pc[t] = IF t \in {Main, Idle} THEN "run" ELSE "dead"
    BY <1>1 DEF Init, PC
  <1>3. RemovedBy(pc, target) = {} /\ DoomedBy(pc, target) = {}
    BY <1>2 DEF RemovedBy, DoomedBy, TargetsOf, InDelete
  <1>4. KernelInv(k, RemovedBy(pc, target))
    BY <1>1, <1>3, BootInv DEF Init
  <1>5. /\ k.cur = Main /\ k.lock = 0 /\ k.armed = {}
        /\ \A t \in Thread : k.stat[t] = IF t = Main THEN "running"
                               ELSE IF t = Idle THEN "ready" ELSE "init"
    BY DEF Init, Boot
  <1>6. Control(k, pc, target)
    <2>1. CurrentGoesOn(k, pc) /\ IdleAvailable(k, pc) /\ StartedHasPlace(k, pc)
      BY <1>1, <1>2, <1>5 DEF CurrentGoesOn, IdleAvailable, StartedHasPlace
    <2>2. CallsUnbroken(k, pc, target) /\ DeletionsDisjoint(k, pc, target)
      BY <1>2, <1>3, <1>5 DEF CallsUnbroken, DeletionsDisjoint, InStart, InDelete
    <2>3. ReapsDefunct(k, pc, target) /\ SleepersArmed(k, pc)
      BY <1>2 DEF ReapsDefunct, SleepersArmed
    <2>. QED  BY <2>1, <2>2, <2>3 DEF Control
  <1>. QED
    BY <1>2, <1>4, <1>6 DEF IInv, TypeOK, KernelConsistent, ControlConsistent,
       Removed, KernelInv

(***************************************************************************)
(* Every step of a thread keeps the invariant and frees no defunct thread, *)
(* and only the two that call rt_schedule change the current thread.       *)
(***************************************************************************)
LEMMA ThreadStepSafe ==
  ASSUME EndInUse = FALSE, IInv, NEW t \in Thread, ThreadStep(t)
  PROVE  Quiet \/ (Safe /\ (DoSchedule(t) \/ CallYield(t)))
  <1>1. CASE DoSchedule(t) \/ CallYield(t)
    BY <1>1, StepDoSchedule, StepCallYield
  <1>2. CASE CallSchedule(t) \/ CallSleep(t) \/ SleepReturns(t) \/ CallSuspend(t)
    BY <1>2, StepCallSchedule, StepCallSleep, StepSleepReturns, StepCallSuspend
  <1>3. CASE CallEnterCritical(t) \/ CallExitCritical(t) \/ StartupTests(t) \/ Resumes(t)
    BY <1>3, StepCallEnterCritical, StepCallExitCritical, StepStartupTests, StepResumes
  <1>4. CASE DeleteRemoves(t) \/ DeleteCloses(t) \/ CallExit(t)
    BY <1>4, StepDeleteRemoves, StepDeleteCloses, StepCallExit
  <1>5. ASSUME NEW x \in Thread, CallStartup(t, x) \/ CallResume(t, x) PROVE Quiet
    BY <1>5, StepCallStartup, StepCallResume
  <1>6. ASSUME NEW x \in Thread, CallDelete(t, x) \/ CallCreate(t, x) PROVE Quiet
    BY <1>6, StepCallDelete, StepCallCreate
  <1>7. ASSUME NEW x \in Thread, NEW p \in NewPrio, CallChangePriority(t, x, p)
        PROVE  Quiet
    BY <1>7, StepCallChangePriority
  <1>. QED  BY <1>1, <1>2, <1>3, <1>4, <1>5, <1>6, <1>7 DEF ThreadStep

(***************************************************************************)
(* Every step of the system, by what it does to the defunct list.          *)
(***************************************************************************)
LEMMA NextSafe ==
  ASSUME EndInUse = FALSE, IInv, Next
  PROVE  Safe \/ (IInv' /\ FreesTarget)
  <1>1. ASSUME NEW t \in Thread, ThreadStep(t) PROVE Safe
    BY <1>1, ThreadStepSafe DEF Quiet
  <1>2. CASE IdleReads
    BY <1>2, StepIdleReads DEF Quiet
  <1>3. CASE IdleReaps
    BY <1>3, StepIdleReaps
  <1>4. CASE Tick
    BY <1>4, StepTick
  <1>5. ASSUME NEW x \in Thread, TickTimeout(x) \/ IrqResume(x) PROVE Safe
    BY <1>5, StepTickTimeout, StepIrqResume
  <1>. QED  BY <1>1, <1>2, <1>3, <1>4, <1>5 DEF Next

(* Every step keeps the invariant. *)
LEMMA NextIInv ==
  ASSUME EndInUse = FALSE, IInv, [Next]_vars
  PROVE  IInv'
  <1>1. CASE UNCHANGED vars
    BY <1>1 DEF vars, IInv, TypeOK, KernelConsistent, ControlConsistent, Removed
  <1>2. CASE Next
    BY <1>2, NextSafe DEF Safe
  <1>. QED  BY <1>1, <1>2

(***************************************************************************)
(* The inductive invariant always holds: the types, the kernel's lists and *)
(* the points where the threads are.                                       *)
(***************************************************************************)
THEOREM SpecIInv ==
  ASSUME EndInUse = FALSE
  PROVE  Spec => []IInv
  <1>1. Init => IInv
    BY InitIInv
  <1>2. IInv /\ [Next]_vars => IInv'
    BY NextIInv
  <1>. QED  BY <1>1, <1>2, PTL DEF Spec

(***************************************************************************)
(* Types are kept.                                                         *)
(***************************************************************************)
THEOREM TypeCorrect ==
  ASSUME EndInUse = FALSE
  PROVE  Spec => []TypeOK
  <1>1. IInv => TypeOK
    BY DEF IInv
  <1>. QED  BY <1>1, SpecIInv, PTL

(***************************************************************************)
(* The scheduler's data agree with each other in every reachable state.    *)
(***************************************************************************)
THEOREM KernelAlwaysConsistent ==
  ASSUME EndInUse = FALSE
  PROVE  Spec => []KernelConsistent
  <1>1. IInv => KernelConsistent
    BY DEF IInv
  <1>. QED  BY <1>1, SpecIInv, PTL

(***************************************************************************)
(* Threads, lists and calls are always in step: the thread at the          *)
(* processor goes on, the idle thread is available, and every start,       *)
(* resumption and deletion can be finished, although the status they       *)
(* tested may have changed since.                                          *)
(***************************************************************************)
THEOREM ControlAlwaysConsistent ==
  ASSUME EndInUse = FALSE
  PROVE  Spec => []ControlConsistent
  <1>1. IInv => ControlConsistent
    BY DEF IInv
  <1>. QED  BY <1>1, SpecIInv, PTL

-----------------------------------------------------------------------------
(* Closed threads *)

(* What FreedByIdle says of the step at hand. *)
FreedRightly ==
  \A x \in Thread : x \in Range(k.defunct) /\ x \notin Range(k'.defunct) =>
    /\ k.cur = Idle /\ pc[Idle] = "reap" /\ target[Idle] = x
    /\ k'.stat[x] = "close" /\ \A p \in Prio : x \notin Range(k'.ready[p])

(* No step lets a defunct thread go but the one that frees it. *)
LEMMA NextFrees ==
  ASSUME EndInUse = FALSE, IInv, [Next]_vars
  PROVE  FreedRightly
  <1>1. CASE UNCHANGED vars
    BY <1>1 DEF vars, FreedRightly
  <1>2. CASE Next
    <2>1. DefunctKept \/ FreesTarget
      BY <1>2, NextSafe DEF Safe
    <2>2. CASE DefunctKept
      BY <2>2 DEF DefunctKept, FreedRightly
    <2>3. CASE FreesTarget
      <3>1. ASSUME NEW x \in Thread, x \in Range(k.defunct), x \notin Range(k'.defunct)
            PROVE  x = target[Idle]
        BY <3>1, <2>3 DEF FreesTarget
      <3>. QED  BY <3>1, <2>3 DEF FreesTarget, FreedRightly
    <2>. QED  BY <2>1, <2>2, <2>3
  <1>. QED  BY <1>1, <1>2

(***************************************************************************)
(* A closed thread leaves the defunct list only when the idle thread frees *)
(* it, closed and out of the ready lists.                                  *)
(***************************************************************************)
THEOREM AlwaysFreedByIdle ==
  ASSUME EndInUse = FALSE
  PROVE  Spec => FreedByIdle
  <1>1. IInv /\ [Next]_vars =>
          [ \A x \in Thread : x \in Range(k.defunct) /\ x \notin Range(k'.defunct) =>
              /\ k.cur = Idle /\ pc[Idle] = "reap" /\ target[Idle] = x
              /\ k'.stat[x] = "close" /\ \A p \in Prio : x \notin Range(k'.ready[p]) ]_vars
    BY NextFrees DEF FreedRightly
  <1>2. Spec => [][Next]_vars
    BY DEF Spec
  <1>. QED  BY <1>1, <1>2, SpecIInv, PTL DEF FreedByIdle

-----------------------------------------------------------------------------
(* Preemption *)

(* What PreemptedRightly says of the step at hand. *)
DisplacedRightly ==
  \/ k'.prio[k'.cur] < k'.prio[k.cur]
  \/ k'.prio[k'.cur] = k'.prio[k.cur] /\ MustYield

(***************************************************************************)
(* A step that changes the current thread by calling rt_schedule in the    *)
(* state j, which has the same current thread as k.                        *)
(***************************************************************************)
LEMMA ReschedulesRightly ==
  ASSUME k.cur \notin RemovedBy(pc, target), Displaced,
         NEW j, KernelInv(j, RemovedBy(pc, target)), j.cur = k.cur,
         j.stat[k.cur] = "running", k' = Schedule(j),
         k.cur \in j.yield => MustYield
  PROVE  DisplacedRightly
  <1>1. k'.cur # j.cur
    BY DEF Displaced
  <1>. QED  BY <1>1, ScheduleDisplaces DEF DisplacedRightly

(***************************************************************************)
(* Every step that displaces a running thread has a reason to.             *)
(***************************************************************************)
LEMMA NextPreempts ==
  ASSUME EndInUse = FALSE, IInv, [Next]_vars, Displaced
  PROVE  DisplacedRightly
  <1>1. /\ KernelInv(k, RemovedBy(pc, target)) /\ k \in KernelType
        /\ k.cur \in Thread /\ k.cur \notin RemovedBy(pc, target)
        /\ k.stat \in [Thread -> Stat]
    BY Opened
  <1>2. k'.cur # k.cur /\ k.stat[k.cur] = "running"
    BY DEF Displaced
  <1>3. k.cur \in k.yield => MustYield
    BY DEF MustYield
  <1>4. ASSUME NEW t \in Thread, DoSchedule(t) PROVE DisplacedRightly
    <2>1. k' = Schedule(k)
      BY <1>4 DEF DoSchedule
    <2>. QED  BY <2>1, <1>1, <1>2, <1>3, ReschedulesRightly
  <1>5. ASSUME NEW y, y = [k EXCEPT !.yield = @ \cup {k.cur}], k' = Schedule(y), MustYield
        PROVE  DisplacedRightly
    <2>1. /\ y \in KernelType
          /\ y.stat = k.stat /\ y.prio = k.prio /\ y.ready = k.ready /\ y.group = k.group
          /\ y.cur = k.cur /\ y.wait = k.wait /\ y.armed = k.armed /\ y.defunct = k.defunct
      BY <1>1, <1>5 DEF KernelType
    <2>2. KernelInv(y, RemovedBy(pc, target))
      BY <2>1, <1>1, Restated
    <2>. QED  BY <2>1, <2>2, <1>1, <1>2, <1>5, ReschedulesRightly
  <1>6. ASSUME NEW t \in Thread, CallYield(t) PROVE DisplacedRightly
    <2>1. t = k.cur
      BY <1>6 DEF CallYield, InCall
    <2>2. k' = Schedule([k EXCEPT !.yield = @ \cup {k.cur}]) /\ MustYield
      BY <2>1, <1>6 DEF CallYield, YieldStep, MustYield
    <2>. QED  BY <2>2, <1>5
  <1>7. CASE Tick
    <2>1. slice[k.cur] = 1
      BY <1>2, <1>7 DEF Tick, TickStep
    <2>2. k' = Schedule([k EXCEPT !.yield = @ \cup {k.cur}]) /\ MustYield
      BY <2>1, <1>7 DEF Tick, TickStep, MustYield
    <2>. QED  BY <2>2, <1>5
  <1>8. ASSUME NEW x \in Thread, k.stat[x] = "suspend",
               NEW j, KernelInv(j, RemovedBy(pc, target)), Woken(k, x, j), k' = Schedule(j)
        PROVE  DisplacedRightly
    <2>1. j.cur = k.cur /\ j.yield = k.yield /\ j.stat[k.cur] = "running"
      BY <1>1, <1>2, <1>8 DEF Woken
    <2>. QED  BY <2>1, <1>1, <1>3, <1>8, ReschedulesRightly
  <1>9. ASSUME NEW x \in Thread, TickTimeout(x) PROVE DisplacedRightly
    <2>1. x \in k.armed /\ k' = Timeout(k, x)
      BY <1>9 DEF TickTimeout
    <2>2. k.stat[x] = "suspend"
      BY <2>1, <1>1, InvSplit, Members
    <2>3. PICK j : /\ KernelInv(j, RemovedBy(pc, target)) /\ Woken(k, x, j)
                   /\ j.err = [k.err EXCEPT ![x] = "timeout"]
                   /\ k' = Schedule(j)
      BY <2>1, <1>1, TimeoutInv
    <2>. QED  BY <2>2, <2>3, <1>8
  <1>10. ASSUME NEW x \in Thread, IrqResume(x) PROVE DisplacedRightly
    <2>1. /\ k.stat[x] = "suspend" /\ x \notin RemovedBy(pc, target)
          /\ k' = Schedule(Resume(k, x))
      BY <1>10 DEF IrqResume, Doomed, DoomedBy, RemovedBy, TargetsOf, InDelete
    <2>2. KernelInv(Resume(k, x), RemovedBy(pc, target)) /\ Woken(k, x, Resume(k, x))
      BY <2>1, <1>1, ResumeInv
    <2>. QED  BY <2>1, <2>2, <1>8
  <1>11. ~ IdleReads /\ ~ IdleReaps
    BY <1>2, StepIdleReads, StepIdleReaps DEF Quiet, FreesTarget
  <1>12. ~ UNCHANGED vars
    BY <1>2 DEF vars
  <1>13. ASSUME NEW t \in Thread, ThreadStep(t) PROVE DisplacedRightly
    <2>1. DoSchedule(t) \/ CallYield(t)
      BY <1>2, <1>13, ThreadStepSafe DEF Quiet
    <2>. QED  BY <2>1, <1>4, <1>6
  <1>. QED  BY <1>7, <1>9, <1>10, <1>11, <1>12, <1>13 DEF Next

(***************************************************************************)
(* A running thread is displaced only by a thread of higher priority, or   *)
(* by one of its own priority when it has to yield.                        *)
(***************************************************************************)
THEOREM AlwaysPreemptedRightly ==
  ASSUME EndInUse = FALSE
  PROVE  Spec => PreemptedRightly
  <1>1. IInv /\ [Next]_vars => [ Displaced => \/ k'.prio[k'.cur] < k'.prio[k.cur]
                                             \/ /\ k'.prio[k'.cur] = k'.prio[k.cur]
                                                /\ MustYield ]_vars
    BY NextPreempts DEF DisplacedRightly
  <1>2. Spec => [][Next]_vars
    BY DEF Spec
  <1>. QED  BY <1>1, <1>2, SpecIInv, PTL DEF PreemptedRightly
=============================================================================
