---------------------------- MODULE TimerProofs ----------------------------
(***************************************************************************)
(* The timers of module Timer keep their promise, for any set of timers    *)
(* and any width of the tick counter: the invariants, and that every step  *)
(* is a step or a stutter of TimerSpec.  Of KernelProofs only the lemmas   *)
(* about lists are used.                                                   *)
(***************************************************************************)
EXTENDS Timer, KernelProofs

(***************************************************************************)
(* Deadlines are compared by their distance from the tick, which is not    *)
(* negative but for the timers that became due with the last tick.         *)
(***************************************************************************)
Distance(at, now) == IF Since(now, at) = 1 THEN 0 - 1 ELSE Since(at, now)

Near(at, now) == Since(at, now) < Half

InReach ==
  \A t \in Range(list) :
    Near(deadline[t], tick) \/ (phase # "idle" /\ Since(tick, deadline[t]) = 1)

InOrder(s, due, now) ==
  \A i, j \in DOMAIN s : i < j => Distance(due[s[i]], now) <= Distance(due[s[j]], now)

ListGood ==
  /\ list \in Seq(Timer) /\ IsInjective(list)
  /\ deadline \in [Timer -> 0 .. TickMax]
  /\ InReach /\ InOrder(list, deadline, tick)

(***************************************************************************)
(* A timer in the temporary list that is still active is periodic, so that *)
(* rt_timer_check puts it back, or its own function has made it one-shot.  *)
(***************************************************************************)
PhaseInv ==
  /\ phase = "call" <=> running # Nobody
  /\ phase # "call" => temp = {}
  /\ temp \cap active \subseteq periodic \cup demoted

(* Neither the flags nor the order of the list is inductive alone. *)
IInv == TypeOK /\ ActiveExact /\ PhaseInv /\ ListGood

-----------------------------------------------------------------------------
(* Tick arithmetic *)

(* Half of the range of rt_tick_t leaves room on both sides. *)
LEMMA HalfFacts == Half \in Nat /\ Half >= 2 /\ 2 * Half <= TickMax /\ TickMax \in Nat
  BY TimerAssumption, SMTT(30) DEF Half

(* What rt_timer_init and RT_TIMER_CTRL_SET_TIME assert *)
LEMMA TimesShort == \A n \in Times : n \in Nat /\ n < Half
  BY TimerAssumption DEF Half

(* The difference of two ticks *)
LEMMA SinceFacts ==
  ASSUME NEW n \in 0 .. TickMax, NEW m \in 0 .. TickMax
  PROVE  Since(n, m) = IF m <= n THEN n - m ELSE n - m + TickMax + 1
  <1>1. TickMax + 1 \in Nat \ {0} /\ n - m \in Int
    BY HalfFacts
  <1>2. CASE m <= n
    BY <1>1, <1>2, HalfFacts, SMTT(30) DEF Since
  <1>3. CASE ~ (m <= n)
    BY <1>1, <1>3, HalfFacts, SMTT(30) DEF Since
  <1>. QED  BY <1>2, <1>3

(* The tick some time ahead *)
LEMMA LaterFacts ==
  ASSUME NEW n \in 0 .. TickMax, NEW d \in Nat, d <= TickMax
  PROVE  Later(n, d) = IF n + d <= TickMax THEN n + d ELSE n + d - TickMax - 1
  <1>1. TickMax + 1 \in Nat \ {0} /\ n + d \in Int
    BY HalfFacts
  <1>2. CASE n + d <= TickMax
    BY <1>1, <1>2, HalfFacts, SMTT(30) DEF Later
  <1>3. CASE ~ (n + d <= TickMax)
    BY <1>1, <1>3, HalfFacts, SMTT(30) DEF Later
  <1>. QED  BY <1>2, <1>3

(* A timer that is started is as far away as its time says. *)
LEMMA StartDistance ==
  ASSUME NEW now \in 0 .. TickMax, NEW d \in Times
  PROVE  /\ Later(now, d) \in 0 .. TickMax
         /\ Since(Later(now, d), now) = d
         /\ Near(Later(now, d), now)
         /\ Distance(Later(now, d), now) = d
         /\ Since(now, Later(now, d)) < Half <=> d = 0
         /\ d \in Nat
  <1> DEFINE at == Later(now, d)
  <1>1. d \in Nat /\ d < Half /\ d <= TickMax
    BY TimesShort, HalfFacts
  <1>2. at = IF now + d <= TickMax THEN now + d ELSE now + d - TickMax - 1
    BY <1>1, LaterFacts
  <1> HIDE DEF at
  <1>3. at \in 0 .. TickMax
    BY <1>1, <1>2, HalfFacts
  <1>4. /\ Since(at, now) = IF now <= at THEN at - now ELSE at - now + TickMax + 1
        /\ Since(now, at) = IF at <= now THEN now - at ELSE now - at + TickMax + 1
    BY <1>3, SinceFacts
  <1>5. Since(at, now) = d
    BY <1>1, <1>2, <1>3, <1>4, HalfFacts
  <1>6. (Since(now, at) < Half <=> d = 0) /\ Since(now, at) # 1
    BY <1>1, <1>2, <1>3, <1>4, HalfFacts
  <1>. QED  BY <1>1, <1>3, <1>5, <1>6 DEF at, Near, Distance

(* The next tick brings every deadline one nearer. *)
LEMMA TickDistance ==
  ASSUME NEW now \in 0 .. TickMax, NEW at \in 0 .. TickMax, Near(at, now)
  PROVE  /\ Later(now, 1) \in 0 .. TickMax
         /\ Since(at, now) \in Nat
         /\ Distance(at, now) = Since(at, now)
         /\ Distance(at, Later(now, 1)) = Since(at, now) - 1
         /\ Near(at, Later(now, 1)) \/ Since(Later(now, 1), at) = 1
         /\ Since(now, at) < Half <=> Since(at, now) = 0
         /\ Since(Later(now, 1), at) < Half <=> Since(at, now) \in {0, 1}
         /\ Since(at, now) # 0 => Since(at, Later(now, 1)) = Since(at, now) - 1
  <1> DEFINE next == Later(now, 1)
  <1>1. next = IF now + 1 <= TickMax THEN now + 1 ELSE now + 1 - TickMax - 1
    BY LaterFacts, HalfFacts
  <1> HIDE DEF next
  <1>2. next \in 0 .. TickMax
    BY <1>1, HalfFacts
  <1>3. /\ Since(at, now) = IF now <= at THEN at - now ELSE at - now + TickMax + 1
        /\ Since(now, at) = IF at <= now THEN now - at ELSE now - at + TickMax + 1
        /\ Since(at, next) = IF next <= at THEN at - next ELSE at - next + TickMax + 1
        /\ Since(next, at) = IF at <= next THEN next - at ELSE next - at + TickMax + 1
    BY <1>2, SinceFacts
  <1>4. Since(at, now) < Half
    BY DEF Near
  <1>5. Since(at, now) \in Nat /\ Since(now, at) # 1
    BY <1>3, <1>4, HalfFacts
  <1>6. CASE Since(at, now) = 0
    <2>1. Since(now, at) = 0 /\ Since(next, at) = 1
      BY <1>6, <1>1, <1>2, <1>3, HalfFacts
    <2>. QED  BY <2>1, <1>2, <1>5, <1>6, HalfFacts DEF next, Distance
  <1>7. CASE Since(at, now) # 0
    <2>1. /\ Since(at, next) = Since(at, now) - 1 /\ Since(next, at) # 1
          /\ ~ (Since(now, at) < Half)
          /\ Since(next, at) < Half <=> Since(at, now) = 1
      BY <1>7, <1>1, <1>2, <1>3, <1>4, HalfFacts
    <2>. QED  BY <2>1, <1>2, <1>4, <1>5, <1>7, HalfFacts DEF next, Distance, Near
  <1>. QED  BY <1>6, <1>7

(* The comparison of rt_timer_start orders the deadlines by distance. *)
LEMMA DueAfterDistance ==
  ASSUME NEW now \in 0 .. TickMax, NEW a \in 0 .. TickMax, NEW b \in 0 .. TickMax,
         Near(a, now) \/ Since(now, a) = 1, Near(b, now)
  PROVE  /\ Distance(a, now) \in Int /\ Distance(b, now) \in Int
         /\ DueAfter(a, b) <=> Distance(a, now) > Distance(b, now)
  <1>1. /\ Since(a, now) = IF now <= a THEN a - now ELSE a - now + TickMax + 1
        /\ Since(now, a) = IF a <= now THEN now - a ELSE now - a + TickMax + 1
        /\ Since(b, now) = IF now <= b THEN b - now ELSE b - now + TickMax + 1
        /\ Since(now, b) = IF b <= now THEN now - b ELSE now - b + TickMax + 1
        /\ Since(a, b) = IF b <= a THEN a - b ELSE a - b + TickMax + 1
    BY SinceFacts
  <1>2. Since(b, now) < Half /\ Since(now, b) # 1 /\ Distance(b, now) = Since(b, now)
    BY <1>1, HalfFacts DEF Near, Distance
  <1>3. CASE Since(now, a) = 1
    <2>1. ~ DueAfter(a, b)
      BY <1>1, <1>2, <1>3, HalfFacts DEF DueAfter
    <2>. QED  BY <2>1, <1>1, <1>2, <1>3, HalfFacts DEF Distance
  <1>4. CASE Since(now, a) # 1
    <2>1. Since(a, now) < Half /\ Distance(a, now) = Since(a, now)
      BY <1>4 DEF Near, Distance
    <2>. QED  BY <2>1, <1>1, <1>2, HalfFacts DEF DueAfter
  <1>. QED  BY <1>3, <1>4

-----------------------------------------------------------------------------
(* The sorted list *)

(* The order is one of distances: all of them may change by the same. *)
LEMMA InOrderShifted ==
  ASSUME NEW s \in Seq(Timer), NEW due, NEW due2, NEW now, NEW now2, NEW c \in Int,
         InOrder(s, due, now),
         \A x \in Range(s) : /\ Distance(due[x], now) \in Int
                             /\ Distance(due2[x], now2) = Distance(due[x], now) - c
  PROVE  InOrder(s, due2, now2)
  <1>1. ASSUME NEW i \in DOMAIN s, NEW j \in DOMAIN s, i < j
        PROVE  Distance(due2[s[i]], now2) <= Distance(due2[s[j]], now2)
    <2>1. s[i] \in Range(s) /\ s[j] \in Range(s)
      BY DEF Range
    <2>2. Distance(due[s[i]], now) <= Distance(due[s[j]], now)
      BY <1>1 DEF InOrder
    <2>. QED  BY <2>1, <2>2
  <1>. QED  BY <1>1 DEF InOrder

(* Taking a timer out leaves the others in order. *)
LEMMA InOrderUnlinked ==
  ASSUME NEW s \in Seq(Timer), NEW due, NEW now, NEW t, InOrder(s, due, now)
  PROVE  InOrder(Unlinked(s, t), due, now)
  <1>1. ASSUME NEW i \in DOMAIN Unlinked(s, t), NEW j \in DOMAIN Unlinked(s, t), i < j
        PROVE  Distance(due[Unlinked(s, t)[i]], now) <= Distance(due[Unlinked(s, t)[j]], now)
    <2>1. PICK a \in DOMAIN s, b \in DOMAIN s :
            a < b /\ s[a] = Unlinked(s, t)[i] /\ s[b] = Unlinked(s, t)[j]
      BY <1>1, UnlinkedOrder
    <2>2. Distance(due[s[a]], now) <= Distance(due[s[b]], now)
      BY <2>1 DEF InOrder
    <2>. QED  BY <2>1, <2>2
  <1>. QED  BY <1>1 DEF InOrder

(***************************************************************************)
(* The walk of rt_timer_start keeps the list sorted.                       *)
(***************************************************************************)
LEMMA InOrderInserted ==
  ASSUME NEW s \in Seq(Timer), NEW due, NEW now, NEW t \in Timer,
         NEW m \in 1 .. Len(s) + 1, InOrder(s, due, now),
         \A i \in DOMAIN s : /\ i < m => Distance(due[s[i]], now) <= Distance(due[t], now)
                             /\ m <= i => Distance(due[t], now) <= Distance(due[s[i]], now)
  PROVE  InOrder(InsertAt(s, m, t), due, now)
  <1> DEFINE r == InsertAt(s, m, t)
  <1>1. DOMAIN InsertAt(s, m, t) = 1 .. Len(s) + 1
    BY InsertAtElements, LenProperties DEF Linked
  <1>2. ASSUME NEW i \in 1 .. Len(s) + 1, NEW j \in 1 .. Len(s) + 1, i < j
        PROVE  Distance(due[r[i]], now) <= Distance(due[r[j]], now)
    <2>1. \/ \E a, b \in DOMAIN s : a < b /\ r[i] = s[a] /\ r[j] = s[b]
          \/ r[i] = t /\ \E b \in DOMAIN s : m <= b /\ r[j] = s[b]
          \/ r[j] = t /\ \E a \in DOMAIN s : a < m /\ r[i] = s[a]
      BY <1>2, InsertAtOrder
    <2> HIDE DEF r
    <2>. QED  BY <2>1 DEF InOrder
  <1>. QED  BY <1>1, <1>2 DEF InOrder

(* What the invariant says of the timers in the list *)
LEMMA Listed ==
  ASSUME IInv
  PROVE  /\ tick \in 0 .. TickMax /\ list \in Seq(Timer) /\ IsInjective(list)
         /\ InOrder(list, deadline, tick)
         /\ \A x \in Range(list) : /\ x \in Timer /\ deadline[x] \in 0 .. TickMax
                                   /\ Distance(deadline[x], tick) \in Int
  <1>1. /\ tick \in 0 .. TickMax /\ list \in Seq(Timer) /\ IsInjective(list)
        /\ deadline \in [Timer -> 0 .. TickMax]
        /\ InOrder(list, deadline, tick)
    BY DEF IInv, TypeOK, ListGood
  <1>2. ASSUME NEW x \in Range(list)
        PROVE  x \in Timer /\ deadline[x] \in 0 .. TickMax /\ Distance(deadline[x], tick) \in Int
    <2>1. x \in Timer /\ deadline[x] \in 0 .. TickMax
      BY <1>1, <1>2, HeadFacts
    <2>2. Since(deadline[x], tick) = IF tick <= deadline[x] THEN deadline[x] - tick
                                     ELSE deadline[x] - tick + TickMax + 1
      BY <2>1, <1>1, SinceFacts
    <2>3. Since(deadline[x], tick) \in Int
      BY <2>1, <2>2, <1>1, HalfFacts
    <2>. QED  BY <2>1, <2>3 DEF Distance
  <1>. QED  BY <1>1, <1>2

-----------------------------------------------------------------------------
(* What the three changes of the list do to the ticks that are left *)

(***************************************************************************)
(* rt_timer_stop, rt_timer_detach, and rt_timer_check when it takes out    *)
(* the first timer                                                         *)
(***************************************************************************)
Removed(t) ==
  /\ list' = Unlinked(list, t)
  /\ deadline' = [deadline EXCEPT ![t] = 0]
  /\ tick' = tick
  /\ phase' = "idle" => phase = "idle"

(* The timer that is taken out is off; nothing changes for the others. *)
LEMMA RemovedKeeps ==
  ASSUME IInv, NEW t \in Timer, Removed(t)
  PROVE  /\ ListGood'
         /\ Range(list') = Range(list) \ {t}
         /\ Left' = [Left EXCEPT ![t] = Off]
  <1>1. /\ tick \in 0 .. TickMax /\ list \in Seq(Timer) /\ IsInjective(list)
        /\ InOrder(list, deadline, tick)
        /\ \A x \in Range(list) : /\ x \in Timer /\ deadline[x] \in 0 .. TickMax
                                  /\ Distance(deadline[x], tick) \in Int
    BY Listed
  <1>2. /\ list' \in Seq(Timer) /\ IsInjective(list')
        /\ Range(list') = Range(list) \ {t}
    BY <1>1, UnlinkedFacts DEF Removed
  <1>3. deadline \in [Timer -> 0 .. TickMax] /\ InReach
    BY DEF IInv, ListGood
  <1>4. deadline' \in [Timer -> 0 .. TickMax]
    BY <1>3, HalfFacts DEF Removed
  <1>5. \A x \in Range(list') : deadline'[x] = deadline[x]
    BY <1>1, <1>2, <1>3 DEF Removed
  <1>6. InOrder(list', deadline, tick)
    BY <1>1, InOrderUnlinked DEF Removed
  <1>7. InOrder(list', deadline', tick')
    <2>1. \A x \in Range(list') : /\ Distance(deadline[x], tick) \in Int
                                  /\ Distance(deadline'[x], tick') = Distance(deadline[x], tick) - 0
      BY <1>1, <1>2, <1>5 DEF Removed
    <2>. QED  BY <2>1, <1>2, <1>6, InOrderShifted
  <1>8. InReach'
    BY <1>2, <1>3, <1>5 DEF InReach, Removed
  <1>9. Left' = [Left EXCEPT ![t] = Off]
    <2>1. tick' = tick /\ \A x \in Timer \ {t} : x \in Range(list') => deadline'[x] = deadline[x]
      BY <1>5 DEF Removed
    <2>2. \A x \in Timer \ {t} : x \in Range(list') <=> x \in Range(list)
      BY <1>2
    <2>3. t \notin Range(list')
      BY <1>2
    <2>. QED  BY <2>1, <2>2, <2>3 DEF Left
  <1>. QED  BY <1>2, <1>4, <1>7, <1>8, <1>9 DEF ListGood

(* rt_timer_start *)
Put(t) ==
  /\ list' = Inserted(Unlinked(list, t), t, Expiry(t))
  /\ deadline' = [deadline EXCEPT ![t] = Expiry(t)]
  /\ tick' = tick
  /\ phase' = "idle" => phase = "idle"

(* The timer that is put in has its full time left; nothing changes for the others. *)
LEMMA PutKeeps ==
  ASSUME IInv, NEW t \in Timer, Put(t)
  PROVE  /\ ListGood'
         /\ Range(list') = Range(list) \cup {t}
         /\ Left' = [Left EXCEPT ![t] = time[t]]
  <1> DEFINE s == Unlinked(list, t)
             later == {i \in DOMAIN s : DueAfter(deadline[s[i]], Expiry(t))}
             m == IF later = {} THEN Len(s) + 1 ELSE Min(later)
  <1>1. /\ tick \in 0 .. TickMax /\ list \in Seq(Timer) /\ IsInjective(list)
        /\ InOrder(list, deadline, tick)
        /\ \A x \in Range(list) : /\ x \in Timer /\ deadline[x] \in 0 .. TickMax
                                  /\ Distance(deadline[x], tick) \in Int
    BY Listed
  <1>2. /\ s \in Seq(Timer) /\ IsInjective(s)
        /\ Range(s) = Range(list) \ {t}
    BY <1>1, UnlinkedFacts
  <1>3. deadline \in [Timer -> 0 .. TickMax] /\ InReach /\ time[t] \in Times
    BY DEF IInv, ListGood, TypeOK
  <1>4. /\ Expiry(t) \in 0 .. TickMax
        /\ Since(Expiry(t), tick) = time[t]
        /\ Near(Expiry(t), tick)
        /\ Distance(Expiry(t), tick) = time[t]
        /\ Since(tick, Expiry(t)) < Half <=> time[t] = 0
        /\ time[t] \in Nat
    BY <1>1, <1>3, StartDistance DEF Expiry
  <1>5. /\ deadline' \in [Timer -> 0 .. TickMax]
        /\ deadline'[t] = Expiry(t)
        /\ \A x \in Range(s) : deadline'[x] = deadline[x]
    BY <1>1, <1>2, <1>3, <1>4 DEF Put
  <1>6. DOMAIN s = 1 .. Len(s) /\ Len(s) \in Nat
    BY <1>2, LenProperties
  <1>7. InOrder(s, deadline, tick)
    BY <1>1, InOrderUnlinked
  <1>8. list' = IF later = {} THEN Append(s, t) ELSE InsertAt(s, Min(later), t)
    BY DEF Put, Inserted
  <1>9. Append(s, t) = InsertAt(s, Len(s) + 1, t)
    BY <1>2, AppendIsInsertAt
  <1>10. later \subseteq DOMAIN s /\ \A i \in DOMAIN s : i \in later <=> DueAfter(deadline[s[i]], Expiry(t))
    OBVIOUS
  <1> HIDE DEF s, later
  <1>11. list' = InsertAt(s, m, t)
    BY <1>8, <1>9
  <1>12. /\ m \in 1 .. Len(s) + 1
         /\ \A i \in DOMAIN s : i < m => i \notin later
         /\ m \in DOMAIN s => m \in later
    <2>1. CASE later = {}
      BY <2>1, <1>6
    <2>2. CASE later # {}
      <3>1. later \subseteq Nat
        BY <1>6, <1>10
      <3>2. Min(later) \in later /\ \A y \in later : Min(later) <= y
        BY <3>1, <2>2, MinInSet
      <3>3. m = Min(later)
        BY <2>2
      <3> HIDE DEF m
      <3>4. m \in 1 .. Len(s)
        BY <3>2, <3>3, <1>6, <1>10
      <3>5. \A i \in DOMAIN s : i < m => i \notin later
        BY <3>2, <3>3, <3>4, <1>6
      <3>. QED  BY <3>2, <3>3, <3>4, <3>5, <1>6
    <2>. QED  BY <2>1, <2>2
  <1> HIDE DEF m
  <1>13. \A i \in DOMAIN s : s[i] \in Range(s)
    BY DEF Range
  <1>14. ASSUME NEW i \in DOMAIN s
         PROVE  /\ Distance(deadline[s[i]], tick) \in Int
                /\ i \in later <=> Distance(deadline[s[i]], tick) > time[t]
    <2>1. /\ s[i] \in Range(list) /\ deadline[s[i]] \in 0 .. TickMax
          /\ Near(deadline[s[i]], tick) \/ Since(tick, deadline[s[i]]) = 1
      BY <1>1, <1>2, <1>3, <1>13 DEF InReach
    <2>2. DueAfter(deadline[s[i]], Expiry(t)) <=> Distance(deadline[s[i]], tick) > Distance(Expiry(t), tick)
      BY <2>1, <1>1, <1>4, DueAfterDistance
    <2>. QED  BY <2>1, <2>2, <1>1, <1>4, <1>10
  <1>15. InOrder(s, deadline', tick)
    <2>1. \A x \in Range(s) : /\ Distance(deadline[x], tick) \in Int
                              /\ Distance(deadline'[x], tick) = Distance(deadline[x], tick) - 0
      BY <1>1, <1>2, <1>5
    <2>. QED  BY <2>1, <1>2, <1>7, InOrderShifted
  <1>16. ASSUME NEW i \in DOMAIN s
         PROVE  /\ i < m => Distance(deadline'[s[i]], tick) <= Distance(deadline'[t], tick)
                /\ m <= i => Distance(deadline'[t], tick) <= Distance(deadline'[s[i]], tick)
    <2>1. /\ Distance(deadline'[s[i]], tick) = Distance(deadline[s[i]], tick)
          /\ Distance(deadline'[t], tick) = time[t]
      BY <1>4, <1>5, <1>13
    <2>2. CASE i < m
      BY <2>1, <2>2, <1>4, <1>6, <1>12, <1>14
    <2>3. CASE m <= i
      <3>1. m \in DOMAIN s
        BY <2>3, <1>6, <1>12
      <3>2. Distance(deadline[s[m]], tick) > time[t] /\ Distance(deadline[s[m]], tick) \in Int
        BY <3>1, <1>12, <1>14
      <3>3. Distance(deadline[s[m]], tick) <= Distance(deadline[s[i]], tick)
        BY <3>1, <3>2, <2>3, <1>6, <1>7, <1>14 DEF InOrder
      <3>. QED  BY <3>2, <3>3, <2>1, <1>4, <1>6, <1>12, <1>14, <2>3
    <2>. QED  BY <2>2, <2>3, <1>6, <1>12
  <1>17. InOrder(InsertAt(s, m, t), deadline', tick)
    BY <1>2, <1>12, <1>15, <1>16, InOrderInserted
  <1>18. /\ list' \in Seq(Timer) /\ IsInjective(list')
         /\ Range(list') = Range(s) \cup {t}
    BY <1>2, <1>11, <1>12, InsertAtFacts
  <1>19. InReach'
    BY <1>2, <1>3, <1>4, <1>5, <1>18 DEF InReach, Put
  <1>20. Range(list') = Range(list) \cup {t}
    BY <1>2, <1>18
  <1>21. Left' = [Left EXCEPT ![t] = time[t]]
    <2>1. \A x \in Timer \ {t} : x \in Range(list) => deadline'[x] = deadline[x]
      BY <1>2, <1>5
    <2>. QED  BY <2>1, <1>4, <1>5, <1>20 DEF Left, Put
  <1>. QED  BY <1>5, <1>11, <1>17, <1>18, <1>19, <1>20, <1>21 DEF ListGood, Put

(* rt_tick_increase: every timer that is not due has one tick less left. *)
LEMMA TickKeeps ==
  ASSUME IInv, Tick
  PROVE  /\ ListGood'
         /\ tick' \in 0 .. TickMax
         /\ Left' = [t \in Timer |-> IF Left[t] \in {Off, 0} THEN Left[t] ELSE Left[t] - 1]
  <1>1. /\ tick \in 0 .. TickMax /\ list \in Seq(Timer) /\ IsInjective(list)
        /\ InOrder(list, deadline, tick)
        /\ \A x \in Range(list) : /\ x \in Timer /\ deadline[x] \in 0 .. TickMax
                                  /\ Distance(deadline[x], tick) \in Int
    BY Listed
  <1>2. /\ phase = "idle" /\ phase' = "due" /\ tick' = Later(tick, 1)
        /\ list' = list /\ deadline' = deadline
    BY DEF Tick, links
  <1>3. /\ deadline \in [Timer -> 0 .. TickMax]
        /\ \A x \in Range(list) : Near(deadline[x], tick)
    BY <1>2 DEF IInv, ListGood, InReach
  <1>4. tick' \in 0 .. TickMax
    <2>1. Later(tick, 1) = IF tick + 1 <= TickMax THEN tick + 1 ELSE tick + 1 - TickMax - 1
      BY <1>1, LaterFacts, HalfFacts
    <2>. QED  BY <2>1, <1>1, <1>2, HalfFacts
  <1>5. ASSUME NEW x \in Range(list)
        PROVE  /\ Since(deadline[x], tick) \in Nat
               /\ Distance(deadline[x], tick) = Since(deadline[x], tick)
               /\ Distance(deadline[x], tick') = Since(deadline[x], tick) - 1
               /\ Near(deadline[x], tick') \/ Since(tick', deadline[x]) = 1
               /\ Since(tick, deadline[x]) < Half <=> Since(deadline[x], tick) = 0
               /\ Since(tick', deadline[x]) < Half <=> Since(deadline[x], tick) \in {0, 1}
               /\ Since(deadline[x], tick) # 0
                    => Since(deadline[x], tick') = Since(deadline[x], tick) - 1
    <2>1. deadline[x] \in 0 .. TickMax /\ Near(deadline[x], tick)
      BY <1>1, <1>3
    <2>. QED  BY <2>1, <1>1, <1>2, TickDistance
  <1>6. InOrder(list', deadline', tick')
    <2>1. \A x \in Range(list) : /\ Distance(deadline[x], tick) \in Int
                                 /\ Distance(deadline[x], tick') = Distance(deadline[x], tick) - 1
      BY <1>5
    <2>2. InOrder(list, deadline, tick')
      BY <2>1, <1>1, InOrderShifted
    <2>. QED  BY <2>2, <1>2
  <1>7. InReach'
    BY <1>2, <1>5 DEF InReach
  <1>8. ASSUME NEW t \in Timer
        PROVE  Left'[t] = IF Left[t] \in {Off, 0} THEN Left[t] ELSE Left[t] - 1
    <2>1. CASE t \notin Range(list)
      BY <2>1, <1>2 DEF Left
    <2>2. CASE t \in Range(list)
      <3>1. Left[t] = Since(deadline[t], tick)
        BY <2>2, <1>5 DEF Left
      <3>2. Left'[t] = IF Since(tick', deadline[t]) < Half THEN 0 ELSE Since(deadline[t], tick')
        BY <2>2, <1>2 DEF Left
      <3>3. /\ Since(deadline[t], tick) \in Nat
            /\ Since(tick', deadline[t]) < Half <=> Since(deadline[t], tick) \in {0, 1}
            /\ Since(deadline[t], tick) # 0
                    => Since(deadline[t], tick') = Since(deadline[t], tick) - 1
        BY <2>2, <1>5
      <3>. QED  BY <3>1, <3>2, <3>3 DEF Off
    <2>. QED  BY <2>1, <2>2
  <1>9. Left' = [t \in Timer |-> IF Left[t] \in {Off, 0} THEN Left[t] ELSE Left[t] - 1]
    <2>1. Left' = [t \in Timer |-> Left'[t]]
      BY DEF Left
    <2>. QED  BY <2>1, <1>8
  <1>. QED  BY <1>1, <1>2, <1>3, <1>4, <1>6, <1>7, <1>9 DEF ListGood

(* When the first timer is not due, none is, and none was missed. *)
LEMMA NoneDue ==
  ASSUME IInv, ~ FirstDue
  PROVE  /\ \A x \in Range(list) : Near(deadline[x], tick)
         /\ \A x \in Timer : Left[x] # 0
  <1>1. /\ tick \in 0 .. TickMax /\ list \in Seq(Timer) /\ IsInjective(list)
        /\ InOrder(list, deadline, tick)
        /\ \A x \in Range(list) : /\ x \in Timer /\ deadline[x] \in 0 .. TickMax
                                  /\ Distance(deadline[x], tick) \in Int
    BY Listed
  <1>2. InReach
    BY DEF IInv, ListGood
  <1>3. \A x \in Range(list) :
          /\ Since(deadline[x], tick) = IF tick <= deadline[x] THEN deadline[x] - tick
                                        ELSE deadline[x] - tick + TickMax + 1
          /\ Since(tick, deadline[x]) = IF deadline[x] <= tick THEN tick - deadline[x]
                                        ELSE tick - deadline[x] + TickMax + 1
    BY <1>1, SinceFacts
  <1>4. ASSUME NEW x \in Range(list)
        PROVE  Distance(deadline[x], tick) >= 1
    <2>1. list # << >>
      BY <1>1, HeadFacts
    <2>2. 1 \in DOMAIN list /\ Head(list) = list[1] /\ Head(list) \in Range(list)
      BY <2>1, <1>1, HeadFacts, EmptySeq, LenProperties
    <2>3. ~ (Since(tick, deadline[Head(list)]) < Half)
      BY <2>1 DEF FirstDue
    <2>4. Distance(deadline[Head(list)], tick) >= 1
      BY <2>2, <2>3, <1>1, <1>2, <1>3, HalfFacts DEF InReach, Near, Distance
    <2>5. PICK i \in DOMAIN list : list[i] = x
      BY DEF Range
    <2>6. i >= 1 /\ i \in Nat
      BY <1>1, LenProperties
    <2>7. Distance(deadline[list[1]], tick) <= Distance(deadline[x], tick)
      BY <2>2, <2>5, <2>6, <1>1 DEF InOrder
    <2>. QED  BY <2>2, <2>4, <2>7, <1>1
  <1>5. ASSUME NEW x \in Range(list)
        PROVE  /\ Near(deadline[x], tick) /\ ~ (Since(tick, deadline[x]) < Half)
               /\ Since(deadline[x], tick) # 0
    <2>1. Distance(deadline[x], tick) >= 1
      BY <1>4
    <2>2. Since(tick, deadline[x]) # 1 /\ Since(deadline[x], tick) >= 1
      BY <2>1, <1>1, <1>3 DEF Distance
    <2>3. Since(deadline[x], tick) < Half
      BY <2>2, <1>2 DEF InReach, Near
    <2>. QED  BY <2>2, <2>3, <1>1, <1>3, HalfFacts DEF Near
  <1>. QED  BY <1>5 DEF Left, Off

(* Steps that leave the list and the tick alone leave the ticks left alone. *)
LEMMA SameKeeps ==
  ASSUME IInv, UNCHANGED << tick, list, deadline >>,
         phase' = "idle" => phase = "idle" \/ ~ FirstDue
  PROVE  ListGood' /\ Left' = Left
  <1>1. ListGood
    BY DEF IInv
  <1>2. Left' = Left
    BY DEF Left
  <1>3. InReach'
    BY <1>1, NoneDue DEF ListGood, InReach
  <1>. QED  BY <1>1, <1>2, <1>3 DEF ListGood

-----------------------------------------------------------------------------
(***************************************************************************)
(* Every step keeps the invariant and is a step of the promise, or one     *)
(* that it does not see.                                                   *)
(***************************************************************************)
Kept == IInv' /\ [Promise!Next]_(Promise!vars)

(* rt_timer_start is the start of the promise. *)
LEMMA StartKept ==
  ASSUME IInv, NEW t \in Timer, Start(t)
  PROVE  Kept
  <1>1. /\ ListGood'
        /\ Range(list') = Range(list) \cup {t}
        /\ Left' = [Left EXCEPT ![t] = time[t]]
    BY PutKeeps DEF Put, Start, StartSection
  <1>2. /\ TypeOK' /\ ActiveExact' /\ PhaseInv'
    BY <1>1 DEF IInv, TypeOK, ActiveExact, PhaseInv, ListGood, Start, StartSection
  <1>3. Promise!Start(t)
    BY <1>1 DEF Promise!Start, Start, StartSection
  <1>. QED  BY <1>1, <1>2, <1>3 DEF Kept, IInv, Promise!Next

(* rt_timer_stop and rt_timer_detach stop the timer. *)
LEMMA StopKept ==
  ASSUME IInv, NEW t \in Timer, StopRemoves(t) \/ StopAtOnce(t) \/ Detach(t)
  PROVE  Kept
  <1>1. StopSection(t) /\ UNCHANGED << tick, time, periodic, phase, running >>
    BY DEF StopRemoves, StopAtOnce, Detach
  <1>2. /\ ListGood'
        /\ Range(list') = Range(list) \ {t}
        /\ Left' = [Left EXCEPT ![t] = Off]
    BY <1>1, RemovedKeeps DEF Removed, StopSection, RemoveFromLists
  <1>3. /\ alive' \in {alive, alive \ {t}} /\ stopping' \subseteq stopping
        /\ alive' # alive => t \notin stopping
    BY DEF StopRemoves, StopAtOnce, Detach
  <1>4. TypeOK' /\ ActiveExact' /\ PhaseInv'
    BY <1>1, <1>2, <1>3
    DEF IInv, TypeOK, ActiveExact, PhaseInv, ListGood, StopSection, RemoveFromLists
  <1>5. Promise!Stop(t)
    BY <1>1, <1>2 DEF Promise!Stop, StopSection, RemoveFromLists
  <1>. QED  BY <1>2, <1>4, <1>5 DEF Kept, IInv, Promise!Next

(* The test of rt_timer_stop is not seen. *)
LEMMA StopTestsKept ==
  ASSUME IInv, NEW t \in Timer, StopTests(t)
  PROVE  Kept
  <1>1. ListGood' /\ Left' = Left
    BY SameKeeps DEF StopTests, links
  <1>2. TypeOK' /\ ActiveExact' /\ PhaseInv'
    BY DEF IInv, TypeOK, ActiveExact, PhaseInv, StopTests, links
  <1>3. UNCHANGED Promise!vars
    BY <1>1 DEF Promise!vars, StopTests, links
  <1>. QED  BY <1>1, <1>2, <1>3 DEF Kept, IInv

(* rt_timer_control and rt_timer_init change what the next start does. *)
LEMMA ChangeKept ==
  ASSUME IInv, NEW t \in Timer,
         \/ SetPeriodic(t) \/ SetOneshot(t)
         \/ \E n \in Times : SetTime(t, n) \/ \E again \in BOOLEAN : Initialise(t, n, again)
  PROVE  Kept
  <1>1. /\ UNCHANGED << tick, list, deadline, active, temp, stopping, phase, running >>
        /\ (\E n \in Times : time' = [time EXCEPT ![t] = n]) \/ time' = time
        /\ periodic' \in {periodic, periodic \cup {t}, periodic \ {t}}
        /\ alive' \in {alive, alive \cup {t}}
        /\ demoted' \in {demoted, demoted \cup ({t} \cap temp \cap active)}
        /\ t \notin periodic' => \/ t \notin periodic \/ t \notin alive
                               \/ demoted' = demoted \cup ({t} \cap temp \cap active)
    BY DEF SetPeriodic, SetOneshot, SetTime, Initialise, links
  <1>2. ListGood' /\ Left' = Left
    BY <1>1, SameKeeps
  <1>3. time' \in [Timer -> Times]
    BY <1>1 DEF IInv, TypeOK
  <1>4. TypeOK' /\ ActiveExact' /\ PhaseInv'
    BY <1>1, <1>2, <1>3 DEF IInv, TypeOK, ActiveExact, PhaseInv, ListGood
  <1>5. Promise!Change(t)
    BY <1>1, <1>2 DEF Promise!Change
  <1>. QED  BY <1>2, <1>4, <1>5 DEF Kept, IInv, Promise!Next

(* rt_tick_increase counts all timers down. *)
LEMMA TickKept ==
  ASSUME IInv, Tick
  PROVE  Kept
  <1>1. /\ ListGood' /\ tick' \in 0 .. TickMax
        /\ Left' = [t \in Timer |-> IF Left[t] \in {Off, 0} THEN Left[t] ELSE Left[t] - 1]
    BY TickKeeps
  <1>2. TypeOK' /\ ActiveExact' /\ PhaseInv'
    BY <1>1 DEF IInv, TypeOK, ActiveExact, PhaseInv, Tick, links
  <1>3. Promise!Tick
    BY <1>1 DEF Promise!Tick, Tick, links
  <1>. QED  BY <1>1, <1>2, <1>3 DEF Kept, IInv, Promise!Next

(* The beginning of rt_timer_check is not seen. *)
LEMMA CheckBeginsKept ==
  ASSUME IInv, CheckBegins
  PROVE  Kept
  <1>1. ListGood' /\ Left' = Left
    BY SameKeeps DEF CheckBegins, links
  <1>2. TypeOK' /\ ActiveExact' /\ PhaseInv'
    BY DEF IInv, TypeOK, ActiveExact, PhaseInv, CheckBegins, links
  <1>3. UNCHANGED Promise!vars
    BY <1>1 DEF Promise!vars, CheckBegins, links
  <1>. QED  BY <1>1, <1>2, <1>3 DEF Kept, IInv

(* rt_timer_check ends when every timer that was due has been called. *)
LEMMA CheckEndsKept ==
  ASSUME IInv, CheckEnds
  PROVE  Kept
  <1>1. ListGood' /\ Left' = Left
    BY SameKeeps DEF CheckEnds, links
  <1>2. TypeOK' /\ ActiveExact' /\ PhaseInv'
    BY DEF IInv, TypeOK, ActiveExact, PhaseInv, CheckEnds, links
  <1>3. running = Nobody /\ \A t \in Timer : Left[t] # 0
    BY NoneDue DEF IInv, PhaseInv, CheckEnds
  <1>4. Promise!Over
    BY <1>1, <1>3 DEF Promise!Over, CheckEnds, links
  <1>. QED  BY <1>1, <1>2, <1>4 DEF Kept, IInv, Promise!Next

(* rt_timer_check calls a timer that has no tick left. *)
LEMMA CallFirstKept ==
  ASSUME IInv, CallFirst
  PROVE  Kept
  <1> DEFINE t == Head(list)
  <1>1. /\ phase = "check" /\ FirstDue
        /\ list' = Unlinked(list, t) /\ deadline' = [deadline EXCEPT ![t] = 0]
        /\ temp' = temp \cup {t}
        /\ active' = IF t \in periodic THEN active ELSE active \ {t}
        /\ phase' = "call" /\ running' = t
        /\ UNCHANGED << tick, time, periodic, alive, stopping, demoted >>
    BY DEF CallFirst, Deactivated
  <1>2. t \in Range(list) /\ t \in Timer
    BY <1>1, HeadFacts DEF FirstDue, IInv, ListGood
  <1>3. Left[t] = 0
    BY <1>1, <1>2 DEF Left, FirstDue
  <1> HIDE DEF t
  <1>4. /\ ListGood'
        /\ Range(list') = Range(list) \ {t}
        /\ Left' = [Left EXCEPT ![t] = Off]
    BY <1>1, <1>2, RemovedKeeps DEF Removed
  <1>5. /\ temp = {} /\ running = Nobody /\ t # Nobody
        /\ active = Range(list) \cup demoted /\ t \notin demoted
    BY <1>1, <1>2, TimerAssumption DEF IInv, PhaseInv, ActiveExact
  <1>6. TypeOK' /\ ActiveExact' /\ PhaseInv'
    BY <1>1, <1>2, <1>4, <1>5 DEF IInv, TypeOK, ActiveExact, PhaseInv, ListGood
  <1>7. Promise!Call(t)
    BY <1>1, <1>2, <1>3, <1>4, <1>5 DEF Promise!Call
  <1>. QED  BY <1>2, <1>4, <1>6, <1>7 DEF Kept, IInv, Promise!Next

(* After its function a periodic timer starts again, unless it was touched. *)
LEMMA ReturnsKept ==
  ASSUME IInv, Returns
  PROVE  Kept
  <1>1. /\ phase = "call" /\ phase' = "check" /\ running' = Nobody
        /\ UNCHANGED << tick, time, periodic, alive, stopping >>
    BY DEF Returns
  <1>2. running \in Timer /\ running # Nobody /\ temp \subseteq {running}
    BY <1>1 DEF IInv, TypeOK, PhaseInv
  <1>3. Restarts <=> running \in temp \cap active /\ running \in periodic
    BY DEF Restarts
  <1>4. CASE Restarts
    <2>1. StartSection(running)
      BY <1>4 DEF Returns
    <2>2. /\ ListGood'
          /\ Range(list') = Range(list) \cup {running}
          /\ Left' = [Left EXCEPT ![running] = time[running]]
      BY <2>1, <1>1, <1>2, PutKeeps DEF Put, StartSection
    <2>3. /\ temp' = {} /\ active' = active \cup {running}
          /\ demoted' = demoted \ {running}
      BY <2>1, <1>2 DEF StartSection
    <2>4. TypeOK' /\ ActiveExact' /\ PhaseInv'
      BY <2>2, <2>3, <1>1, <1>2, <1>3, <1>4
      DEF IInv, TypeOK, ActiveExact, PhaseInv, ListGood
    <2>5. Promise!Return
      BY <2>2, <2>3, <1>1, <1>2, <1>3, <1>4 DEF Promise!Return, Restarts
    <2>. QED  BY <2>2, <2>4, <2>5 DEF Kept, IInv, Promise!Next
  <1>5. CASE ~ Restarts
    <2>1. temp' = temp \ {running} /\ UNCHANGED << list, deadline, active, demoted >>
      BY <1>5 DEF Returns
    <2>2. ListGood' /\ Left' = Left
      BY <2>1, <1>1, SameKeeps
    <2>3. temp' = {} /\ temp \cap active \subseteq demoted
      BY <2>1, <1>2, <1>3, <1>5 DEF IInv, PhaseInv
    <2>4. TypeOK' /\ ActiveExact' /\ PhaseInv'
      BY <2>1, <2>2, <2>3, <1>1 DEF IInv, TypeOK, ActiveExact, PhaseInv, ListGood
    <2>5. Promise!Return
      BY <2>1, <2>2, <2>3, <1>1, <1>2, <1>3, <1>5 DEF Promise!Return
    <2>. QED  BY <2>2, <2>4, <2>5 DEF Kept, IInv, Promise!Next
  <1>. QED  BY <1>4, <1>5

(* Every step keeps the invariant and the promise. *)
LEMMA NextKept ==
  ASSUME IInv, [Next]_vars
  PROVE  Kept
  <1>1. ASSUME NEW t \in Timer,
               \/ Start(t) \/ StopTests(t) \/ StopRemoves(t) \/ StopAtOnce(t)
               \/ SetPeriodic(t) \/ SetOneshot(t) \/ Detach(t)
               \/ \E n \in Times : SetTime(t, n) \/ \E again \in BOOLEAN : Initialise(t, n, again)
        PROVE  Kept
    BY <1>1, StartKept, StopTestsKept, StopKept, ChangeKept
  <1>2. CASE UNCHANGED vars
    <2>1. ListGood' /\ Left' = Left
      BY <1>2, SameKeeps DEF vars
    <2>2. TypeOK' /\ ActiveExact' /\ PhaseInv'
      BY <1>2 DEF IInv, TypeOK, ActiveExact, PhaseInv, vars
    <2>3. UNCHANGED Promise!vars
      BY <1>2, <2>1 DEF Promise!vars, vars
    <2>. QED  BY <2>1, <2>2, <2>3 DEF Kept, IInv
  <1>. QED  BY <1>1, <1>2, TickKept, CheckBeginsKept, CallFirstKept, ReturnsKept, CheckEndsKept
            DEF Next, UserStep, CheckStep

(* The initial state *)
LEMMA InitKept ==
  ASSUME Init
  PROVE  IInv /\ Promise!Init
  <1>1. list = << >> /\ list \in Seq(Timer) /\ Range(list) = {} /\ DOMAIN list = {}
    <2>1. list = << >> /\ << >> \in Seq(Timer) /\ DOMAIN << >> = {}
      BY EmptySeq DEF Init
    <2>2. Range(<< >>) = {}
      BY <2>1 DEF Range
    <2>. QED  BY <2>1, <2>2
  <1>2. TypeOK /\ ActiveExact /\ PhaseInv
    BY <1>1, HalfFacts, TimerAssumption
    DEF Init, TypeOK, ActiveExact, PhaseInv, IsInjective
  <1>3. ListGood
    BY <1>1, HalfFacts DEF Init, ListGood, InReach, InOrder, IsInjective
  <1>4. Promise!Init
    BY <1>1, TimerAssumption DEF Init, Promise!Init, Left
  <1>. QED  BY <1>2, <1>3, <1>4 DEF IInv

-----------------------------------------------------------------------------
(* The inductive invariant always holds. *)
LEMMA SpecIInv == Spec => []IInv
  <1>1. Init => IInv
    BY InitKept
  <1>2. IInv /\ [Next]_vars => IInv'
    BY NextKept DEF Kept
  <1>. QED  BY <1>1, <1>2, PTL DEF Spec

(* The state of the timers is well formed. *)
THEOREM TypeCorrect == Spec => []TypeOK
  <1>1. IInv => TypeOK
    BY DEF IInv
  <1>. QED  BY <1>1, SpecIInv, PTL

(***************************************************************************)
(* The flag that rt_timer_control reports and rt_timer_stop tests always   *)
(* agrees with the list, but for the timers that their own function made   *)
(* one-shot and that nobody started or stopped since.                      *)
(***************************************************************************)
THEOREM ActiveAlwaysExact == Spec => []ActiveExact
  <1>1. IInv => ActiveExact
    BY DEF IInv
  <1>. QED  BY <1>1, SpecIInv, PTL

(***************************************************************************)
(* The sorted list and the wrapping clock implement the countdown: each    *)
(* timer's function is called in the tick it was set for, once, and never  *)
(* after it was stopped.                                                   *)
(***************************************************************************)
THEOREM FiresOnTime == Spec => OnTime
  <1>1. Init => Promise!Init
    BY InitKept
  <1>2. IInv /\ [Next]_vars => [Promise!Next]_(Promise!vars)
    BY NextKept DEF Kept
  <1>. QED  BY <1>1, <1>2, SpecIInv, PTL DEF Spec, OnTime, Promise!Spec
=============================================================================
