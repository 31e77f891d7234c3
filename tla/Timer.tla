------------------------------- MODULE Timer -------------------------------
(***************************************************************************)
(* The hard timers of timer.c: one list sorted by a tick count that wraps, *)
(* changed by threads, interrupts and the timers' own functions, and       *)
(* worked off by rt_timer_check in every tick (RT_TIMER_SKIP_LIST_LEVEL is *)
(* 1, RT_USING_TIMER_SOFT is off).                                         *)
(*                                                                         *)
(* phase says who may run:                                                 *)
(*   "idle"   threads and interrupts                                       *)
(*   "due"    rt_tick has been increased and rt_timer_check not reached    *)
(*   "check"  the loop of rt_timer_check, interrupts disabled              *)
(*   "call"   the function of the timer running, interrupts disabled       *)
(***************************************************************************)
EXTENDS KList, Integers

CONSTANTS
  Timer,    \* the timer objects
  Owned,    \* those that threads stop and detach with interrupts enabled
  TickMax,  \* RT_TICK_MAX, one less than a power of two
  Times,    \* the ticks timers are set to
  Nobody    \* no timer

(***************************************************************************)
(* As rt_timer_init and RT_TIMER_CTRL_SET_TIME assert; and a timer that is *)
(* one tick late must not look like one that is far ahead.                 *)
(***************************************************************************)
ASSUME TimerAssumption ==
  /\ TickMax \in Nat /\ TickMax > 3
  /\ Times \subseteq {n \in Nat : n < TickMax \div 2}
  /\ Owned \subseteq Timer /\ Nobody \notin Timer

VARIABLES
  tick,      \* rt_tick
  list,      \* _timer_list
  deadline,  \* timer->timeout_tick, 0 for a timer in no list, whose value nobody reads
  time,      \* timer->init_tick
  active,    \* the timers with RT_TIMER_FLAG_ACTIVATED
  periodic,  \* the timers with RT_TIMER_FLAG_PERIODIC
  alive,     \* the timers that are initialised
  stopping,  \* the timers for which a call is between the two parts of rt_timer_stop
  phase,
  running,   \* t of rt_timer_check, while its function runs
  temp,      \* the temporary list of rt_timer_check, as a set
  demoted    \* history: the timers that their own function made one-shot while
             \* they were to start again, and nobody started or stopped since

links == << list, deadline, active, temp, demoted >>
vars  == << tick, list, deadline, time, active, periodic, alive, stopping,
            phase, running, temp, demoted >>

Half == TickMax \div 2
Later_Wide(n, d) == n + d
Later(n, d) == (n + d) % (TickMax + 1)
Since(n, m) == (n - m) % (TickMax + 1)

Init ==
  /\ tick = 0 /\ list = << >> /\ temp = {} /\ demoted = {}
  /\ deadline = [t \in Timer |-> 0]
  /\ time \in [Timer -> Times]
  /\ periodic \in SUBSET {t \in Timer : time[t] # 0}
  /\ active = {} /\ stopping = {}
  /\ alive = Timer
  /\ phase = "idle" /\ running = Nobody

-----------------------------------------------------------------------------
(* The list *)

(* The walk of rt_timer_start ends in front of a timer that is due later. *)
DueAfter_NoWrap(n, m) == n > m
DueAfter(n, m) == Since(n, m) # 0 /\ Since(n, m) < Half

Inserted(s, t, at) ==
  LET later == {i \in DOMAIN s : DueAfter(deadline[s[i]], at)}
  IN  IF later = {} THEN Append(s, t) ELSE InsertAt(s, Min(later), t)

(* _timer_remove, from whichever list the timer stands in *)
RemoveFromLists(t) ==
  /\ list' = Unlinked(list, t)
  /\ temp' = temp \ {t}
  /\ deadline' = [deadline EXCEPT ![t] = 0]

Expiry_Now(t) == tick
Expiry(t) == Later(tick, time[t])

(* the section of rt_timer_start *)
StartSection(t) ==
  /\ list' = Inserted(Unlinked(list, t), t, Expiry(t))
  /\ temp' = temp \ {t}
  /\ deadline' = [deadline EXCEPT ![t] = Expiry(t)]
  /\ active' = active \cup {t}
  /\ demoted' = demoted \ {t}

(* the section of rt_timer_stop, rt_timer_detach and rt_timer_delete *)
StopSection(t) ==
  /\ RemoveFromLists(t)
  /\ active' = active \ {t}
  /\ demoted' = demoted \ {t}

-----------------------------------------------------------------------------
(***************************************************************************)
(* The calls of threads, interrupts and timer functions.  A timer set to 0 *)
(* ticks is due at once: were it periodic, or started again by a timer     *)
(* function, rt_timer_check would never end; users have to avoid that.     *)
(***************************************************************************)
Outside  == phase \in {"idle", "due"}
MayCall  == phase # "check"

Start(t) ==
  /\ MayCall /\ t \in alive
  /\ phase = "call" => time[t] # 0
  /\ StartSection(t)
  /\ UNCHANGED << tick, time, periodic, alive, stopping, phase, running >>

(* rt_timer_stop tests the flag with interrupts enabled. *)
StopTests(t) ==
  /\ Outside /\ t \in alive \cap Owned
  /\ t \in active
  /\ stopping' = stopping \cup {t}
  /\ UNCHANGED << tick, links, time, periodic, alive, phase, running >>

StopRemoves(t) ==
  /\ Outside /\ t \in stopping
  /\ StopSection(t)
  /\ stopping' = stopping \ {t}
  /\ UNCHANGED << tick, time, periodic, alive, phase, running >>

(***************************************************************************)
(* In a timer function, and where rt_thread_resume stops a thread's timer, *)
(* nothing comes between the two parts.                                    *)
(***************************************************************************)
StopAtOnce(t) ==
  /\ MayCall /\ t \in alive
  /\ t \in active
  /\ StopSection(t)
  /\ UNCHANGED << tick, time, periodic, alive, stopping, phase, running >>

(* rt_timer_control *)
SetTime(t, n) ==
  /\ MayCall /\ t \in alive
  /\ t \in periodic => n # 0
  /\ time' = [time EXCEPT ![t] = n]
  /\ UNCHANGED << tick, links, periodic, alive, stopping, phase, running >>

SetPeriodic(t) ==
  /\ MayCall /\ t \in alive
  /\ time[t] # 0
  /\ periodic' = periodic \cup {t}
  /\ UNCHANGED << tick, links, time, alive, stopping, phase, running >>

(***************************************************************************)
(* A periodic timer whose own function makes it a one-shot timer keeps     *)
(* RT_TIMER_FLAG_ACTIVATED although it does not run any more.              *)
(***************************************************************************)
SetOneshot(t) ==
  /\ MayCall /\ t \in alive
  /\ periodic' = periodic \ {t}
  /\ demoted' = demoted \cup ({t} \cap temp \cap active)
  /\ UNCHANGED << tick, list, deadline, active, temp, time, alive, stopping, phase, running >>

(* rt_timer_detach, rt_timer_delete: nobody else is using the timer *)
Detach(t) ==
  /\ MayCall /\ t \in (alive \cap Owned) \ stopping
  /\ StopSection(t)
  /\ alive' = alive \ {t}
  /\ UNCHANGED << tick, time, periodic, stopping, phase, running >>

(* rt_timer_init, rt_timer_create *)
Initialise(t, n, again) ==
  /\ MayCall /\ t \notin alive
  /\ again => n # 0
  /\ time' = [time EXCEPT ![t] = n]
  /\ periodic' = IF again THEN periodic \cup {t} ELSE periodic \ {t}
  /\ alive' = alive \cup {t}
  /\ UNCHANGED << tick, links, stopping, phase, running >>

-----------------------------------------------------------------------------
(* rt_tick_increase *)
Tick ==
  /\ phase = "idle"
  /\ tick' = Later(tick, 1)
  /\ phase' = "due"
  /\ UNCHANGED << links, time, periodic, alive, stopping, running >>

(* rt_timer_check *)
CheckBegins ==
  /\ phase = "due"
  /\ phase' = "check"
  /\ UNCHANGED << tick, links, time, periodic, alive, stopping, running >>

FirstDue == list # << >> /\ Since(tick, deadline[Head(list)]) < Half

Deactivated_Never(t) == active
Deactivated(t) == IF t \in periodic THEN active ELSE active \ {t}

CallFirst ==
  LET t == Head(list)
  IN  /\ phase = "check" /\ FirstDue
      /\ list' = Unlinked(list, t)
      /\ temp' = temp \cup {t}
      /\ deadline' = [deadline EXCEPT ![t] = 0]
      /\ active' = Deactivated(t)
      /\ phase' = "call" /\ running' = t
      /\ UNCHANGED << tick, time, periodic, alive, stopping, demoted >>

(***************************************************************************)
(* The function returns.  A timer that is not in the temporary list any    *)
(* more has been started, stopped or detached by it and is left alone.     *)
(***************************************************************************)
Restarts == running \in temp \cap periodic \cap active

Returns ==
  /\ phase = "call"
  /\ IF Restarts THEN StartSection(running)
     ELSE /\ temp' = temp \ {running}
          /\ UNCHANGED << list, deadline, active, demoted >>
  /\ phase' = "check" /\ running' = Nobody
  /\ UNCHANGED << tick, time, periodic, alive, stopping >>

CheckEnds ==
  /\ phase = "check" /\ ~ FirstDue
  /\ phase' = "idle"
  /\ UNCHANGED << tick, links, time, periodic, alive, stopping, running >>

-----------------------------------------------------------------------------
UserStep ==
  \E t \in Timer :
    \/ Start(t) \/ StopTests(t) \/ StopRemoves(t) \/ StopAtOnce(t)
    \/ SetPeriodic(t) \/ SetOneshot(t) \/ Detach(t)
    \/ \E n \in Times : SetTime(t, n) \/ \E again \in BOOLEAN : Initialise(t, n, again)

CheckStep == CheckBegins \/ CallFirst \/ Returns \/ CheckEnds

Next == UserStep \/ Tick \/ CheckStep

Spec == Init /\ [][Next]_vars

(* The tick interrupt goes on once it has begun, and timer functions return. *)
FairSpec == Spec /\ WF_vars(CheckStep)

-----------------------------------------------------------------------------
(* Properties *)

TypeOK ==
  /\ tick \in 0 .. TickMax
  /\ list \in Seq(Timer)
  /\ deadline \in [Timer -> 0 .. TickMax]
  /\ time \in [Timer -> Times]
  /\ active \subseteq Timer /\ periodic \subseteq Timer
  /\ alive \subseteq Timer /\ stopping \subseteq alive
  /\ phase \in {"idle", "due", "check", "call"}
  /\ running \in Timer \cup {Nobody}
  /\ temp \subseteq {running}
  /\ demoted \subseteq Timer

(***************************************************************************)
(* RT_TIMER_FLAG_ACTIVATED, which RT_TIMER_CTRL_GET_STATE reports, tells   *)
(* the truth with one exception: it is set for the timers in the list, for *)
(* a periodic one whose function runs, and, though they do not run, for    *)
(* those that their own function made one-shot, until somebody starts or   *)
(* stops them (a call that the flag must not make fail).  A timer stands   *)
(* in the list once, whoever starts, stops and detaches it between the two *)
(* parts of another stop or from a timer function.                         *)
(***************************************************************************)
ActiveExact ==
  /\ IsInjective(list)
  /\ active = Range(list) \cup (temp \cap active) \cup demoted
  /\ Range(list) \cap (temp \cup demoted) = {}
  /\ active \subseteq alive

(***************************************************************************)
(* Timers fire in the tick they were set for, once, and never after they   *)
(* were stopped, also when the tick count wraps between the start and the  *)
(* deadline: the sorted list implements the countdown of TimerSpec.        *)
(***************************************************************************)
Off == 0 - 1

Left ==
  [t \in Timer |-> IF t \notin Range(list) THEN Off
                   ELSE IF Since(tick, deadline[t]) < Half THEN 0
                   ELSE Since(deadline[t], tick)]

Promise == INSTANCE TimerSpec WITH
  left <- Left, inTick <- phase # "idle", called <- running,
  again <- running \in temp \cap active

OnTime == Promise!Spec

(***************************************************************************)
(* Every tick comes to an end, although timer functions and periodic       *)
(* timers put timers back into the list that rt_timer_check works off.     *)
(***************************************************************************)
TickEnds == phase # "idle" ~> phase = "idle"
=============================================================================
