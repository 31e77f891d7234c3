-------------------------------- MODULE Jobs --------------------------------
(***************************************************************************)
(* The calls that may have to wait: job[t] is the call thread t is in when *)
(* it is between two sections of it, with what it needs to go on.          *)
(***************************************************************************)
EXTENDS Ipc

CONSTANTS
  Timeouts,  \* the kinds of timeout: "none", "timed", "forever"
  Junk       \* the argument of a call without one; memory nobody has written

ASSUME JobsAssumption == Timeouts \subseteq {"none", "timed", "forever"}

VARIABLE job

NoJob == [op |-> "none", wait |-> "none", arg |-> Junk]
NoJobs == job = [t \in Thread |-> NoJob]

JobType(ops, args) ==
  [op : ops \cup {"none"}, wait : Timeouts \cup {"none"}, arg : args \cup {Junk}]

(* What is left of the timeout after waiting: the ticks may be used up. *)
Remaining(timeout) == IF timeout = "timed" THEN {"timed", "none"} ELSE {timeout}

(* t goes on in op after it was woken without an error. *)
GoesOn(t, op, timeout, arg) ==
  /\ t = k.cur /\ pc[t] = "woken" /\ k.err[t] = "ok"
  /\ job[t].op = op /\ job[t].arg = arg
  /\ timeout \in Remaining(job[t].wait)

Begins(t, op, timeout, arg) ==
  job' = [job EXCEPT ![t] = [op |-> op, wait |-> timeout, arg |-> arg]]

Done(t) == job' = [job EXCEPT ![t] = NoJob]

(* The waiting branch of op, on list q *)
BlockOn(t, q, flag, op, timeout, arg) ==
  /\ timeout # "none"
  /\ k' = WaitOn(k, q, t, flag, timeout)
  /\ Goto(t, "block")
  /\ Begins(t, op, timeout, arg)

(* rt_schedule has returned and thread->error says why the call fails. *)
CallFails(t) ==
  /\ t = k.cur /\ pc[t] = "woken" /\ k.err[t] # "ok"
  /\ Goto(t, "run")
  /\ Done(t)
  /\ UNCHANGED k

(***************************************************************************)
(* _ipc_list_resume_all with interrupts enabled, called by op on list q.   *)
(* Nobody uses the object any more, so the functions that detach it are    *)
(* not called while a thread is between two sections of one of the calls   *)
(* ops or, once woken, on its way back into its loop.                      *)
(***************************************************************************)
NobodyInside(ops) ==
  \A t \in Thread : job[t].op \in ops =>
    /\ pc[t] \in {"block", "woken"}
    /\ k.stat[t] = "suspend" \/ k.err[t] # "ok"

BeginFlush(t, op) ==
  /\ Goto(t, "test")
  /\ Begins(t, op, "none", Junk)
  /\ UNCHANGED k

FlushStep(t, q, op) ==
  /\ job[t].op = op
  /\ \/ /\ TestList(t, q)
        /\ IF k.wait[q] = << >> THEN Done(t) ELSE UNCHANGED job
     \/ FlushOne(t, q) /\ UNCHANGED job

(* The threads suspended in op, and those woken that have not come back. *)
BlockedIn(op) == {t \in Thread : job[t].op = op /\ k.stat[t] = "suspend"}

Returning(op) ==
  {t \in Thread : /\ job[t].op = op /\ pc[t] \in {"block", "woken"}
                  /\ k.stat[t] # "suspend" /\ k.err[t] = "ok"}
=============================================================================
