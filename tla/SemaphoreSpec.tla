--------------------------- MODULE SemaphoreSpec ---------------------------
(***************************************************************************)
(* What a semaphore promises its users, without lists, timers or scheduler.*)
(* line holds the waiting threads in the order in which they came, and     *)
(* outcome what each thread's call to take will return.                    *)
(***************************************************************************)
EXTENDS KList, Integers

CONSTANTS
  Thread,
  Rank,      \* the priority of each thread, 0 is the highest
  ValueMax,  \* RT_SEM_VALUE_MAX
  Value      \* the values a semaphore is initialised with or reset to

VARIABLES flag, permits, line, outcome

specvars == << flag, permits, line, outcome >>

Init ==
  /\ flag \in {"fifo", "prio"}
  /\ permits \in Value
  /\ line = << >>
  /\ outcome = [t \in Thread |-> "none"]

(***************************************************************************)
(* The next waiter to be served: the first to come, or the first to come   *)
(* among those of the highest priority.                                    *)
(***************************************************************************)
Before(t, u) == \E i, j \in DOMAIN line : i <= j /\ line[i] = t /\ line[j] = u

Served(t) ==
  /\ t \in Range(line)
  /\ \A u \in Range(line) :
       \/ Before(t, u) /\ (flag = "fifo" \/ Rank[t] = Rank[u])
       \/ flag = "prio" /\ Rank[t] < Rank[u]

(* A permit is there and is taken at once. *)
Take ==
  /\ permits > 0
  /\ permits' = permits - 1
  /\ UNCHANGED << flag, line, outcome >>

(* Only when no permit is there does a thread wait. *)
Wait(t) ==
  /\ permits = 0 /\ outcome[t] = "none"
  /\ line' = Append(line, t)
  /\ outcome' = [outcome EXCEPT ![t] = "waiting"]
  /\ UNCHANGED << flag, permits >>

(* A permit goes to exactly one waiter, or is kept when nobody waits. *)
Grant(t) ==
  /\ Served(t)
  /\ line' = Unlinked(line, t)
  /\ outcome' = [outcome EXCEPT ![t] = "granted"]
  /\ UNCHANGED << flag, permits >>

Keep ==
  /\ line = << >> /\ permits < ValueMax
  /\ permits' = permits + 1
  /\ UNCHANGED << flag, line, outcome >>

(* A waiter gives up, or is sent away because the semaphore goes. *)
Fail(t, why) ==
  /\ outcome[t] = "waiting"
  /\ line' = Unlinked(line, t)
  /\ outcome' = [outcome EXCEPT ![t] = why]
  /\ UNCHANGED << flag, permits >>

(* All waiters are sent away and the value is set anew. *)
Reset(v) ==
  /\ permits' = v
  /\ line' = << >>
  /\ outcome' = [t \in Thread |-> IF outcome[t] = "waiting" THEN "error" ELSE outcome[t]]
  /\ UNCHANGED flag

(* A call returns what was decided, once. *)
Return(t) ==
  /\ outcome[t] \in {"granted", "timeout", "error"}
  /\ outcome' = [outcome EXCEPT ![t] = "none"]
  /\ UNCHANGED << flag, permits, line >>

Next ==
  \/ Take \/ Keep
  \/ \E t \in Thread : Wait(t) \/ Grant(t) \/ Return(t)
                       \/ \E why \in {"timeout", "error"} : Fail(t, why)
  \/ \E v \in Value : Reset(v)

Spec == Init /\ [][Next]_specvars
=============================================================================
