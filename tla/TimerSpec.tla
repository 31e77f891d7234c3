----------------------------- MODULE TimerSpec -----------------------------
(***************************************************************************)
(* What the timers promise, without list, flags or wrapping clock: each    *)
(* running timer counts down the ticks that are left, its function is      *)
(* called in the tick that finds none left, never earlier, never after it  *)
(* was stopped, and no tick ends before all that are due were called.      *)
(***************************************************************************)
EXTENDS Naturals

CONSTANTS
  Timer,  \* the timers
  Times,  \* the ticks they are set to
  Off,    \* not running
  Nobody  \* no timer's function is being called

VARIABLES
  left,      \* the ticks left for each timer, or Off
  time,      \* the ticks each timer is set to
  periodic,  \* the timers that start again by themselves
  inTick,    \* a tick is being handled
  called,    \* the timer whose function is being called
  again      \* that timer was periodic and was neither started nor stopped since

vars == << left, time, periodic, inTick, called, again >>

Init ==
  /\ left = [t \in Timer |-> Off]
  /\ time \in [Timer -> Times]
  /\ periodic \in SUBSET Timer
  /\ inTick = FALSE /\ called = Nobody /\ again = FALSE

Tick ==
  /\ ~ inTick
  /\ inTick' = TRUE
  /\ left' = [t \in Timer |-> IF left[t] \in {Off, 0} THEN left[t] ELSE left[t] - 1]
  /\ UNCHANGED << time, periodic, called, again >>

(* Users, interrupts and the functions that are called *)
Start(t) ==
  /\ left' = [left EXCEPT ![t] = time[t]]
  /\ again' = (again /\ called # t)
  /\ UNCHANGED << time, periodic, inTick, called >>

Stop(t) ==
  /\ left' = [left EXCEPT ![t] = Off]
  /\ again' = (again /\ called # t)
  /\ UNCHANGED << time, periodic, inTick, called >>

Change(t) ==
  /\ \/ \E n \in Times : time' = [time EXCEPT ![t] = n]
     \/ UNCHANGED time
  /\ periodic' \in {periodic, periodic \cup {t}, periodic \ {t}}
  /\ UNCHANGED << left, inTick, called, again >>

Call(t) ==
  /\ inTick /\ called = Nobody
  /\ left[t] = 0
  /\ left' = [left EXCEPT ![t] = Off]
  /\ called' = t
  /\ again' = (t \in periodic)
  /\ UNCHANGED << time, periodic, inTick >>

Return ==
  /\ called # Nobody
  /\ left' = IF again /\ called \in periodic THEN [left EXCEPT ![called] = time[called]]
                                             ELSE left
  /\ called' = Nobody /\ again' = FALSE
  /\ UNCHANGED << time, periodic, inTick >>

Over ==
  /\ inTick /\ called = Nobody
  /\ \A t \in Timer : left[t] # 0
  /\ inTick' = FALSE
  /\ UNCHANGED << left, time, periodic, called, again >>

Next ==
  \/ Tick \/ Return \/ Over
  \/ \E t \in Timer : Start(t) \/ Stop(t) \/ Change(t) \/ Call(t)

Spec == Init /\ [][Next]_vars
=============================================================================
