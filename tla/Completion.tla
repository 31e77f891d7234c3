----------------------------- MODULE Completion -----------------------------
(***************************************************************************)
(* A completion of components/drivers/ipc/completion.c: one thread waits   *)
(* until another one, or an interrupt, says that something is done.        *)
(***************************************************************************)
EXTENDS Jobs

CONSTANTS
  DoneList,  \* completion->suspended_list, one of Queue
  DoneUsers  \* the threads that call rt_completion_wait

ASSUME CompletionAssumption == DoneList \in Queue /\ DoneUsers \subseteq Thread

VARIABLE done  \* completion->flag is RT_COMPLETED

CompletionInit == done = FALSE

-----------------------------------------------------------------------------
(***************************************************************************)
(* rt_completion_wait.  That nobody else waits is asserted by the code and *)
(* is the duty of its users.                                               *)
(***************************************************************************)
WaitNow(t) ==
  /\ InCall(t, "wait") /\ t \in DoneUsers
  /\ done
  /\ done' = FALSE
  /\ UNCHANGED << k, pc, job >>

WaitBlocks_FlagIgnored(t, timeout) ==
  /\ InCall(t, "wait") /\ t \in DoneUsers
  /\ k.wait[DoneList] = << >>
  /\ timeout \in Timeouts
  /\ BlockOn(t, DoneList, "fifo", "wait", timeout, Junk)
  /\ UNCHANGED done

WaitBlocks(t, timeout) ==
  /\ InCall(t, "wait") /\ t \in DoneUsers
  /\ ~ done /\ k.wait[DoneList] = << >>
  /\ timeout \in Timeouts
  /\ BlockOn(t, DoneList, "fifo", "wait", timeout, Junk)
  /\ UNCHANGED done

(* The flag is cleared also when the wait has timed out. *)
WaitReturns(t) ==
  /\ t = k.cur /\ pc[t] = "woken" /\ job[t].op = "wait"
  /\ done' = FALSE
  /\ Goto(t, "run")
  /\ Done(t)
  /\ UNCHANGED k

-----------------------------------------------------------------------------
(* rt_completion_done: the flag is tested with interrupts enabled. *)

DoneTests(t) ==
  /\ InCall(t, "done")
  /\ ~ done
  /\ Goto(t, "done")
  /\ UNCHANGED << k, job, done >>

DoneWakes == k.wait[DoneList] # << >>

DoneSets(t) ==
  /\ t = k.cur /\ pc[t] = "done"
  /\ done' = TRUE
  /\ k' = IF DoneWakes THEN ResumeFirst(k, DoneList) ELSE k
  /\ Goto(t, IF DoneWakes THEN "sched" ELSE "run")
  /\ UNCHANGED job

(* the same in an interrupt handler: no thread comes between *)
IrqDone ==
  /\ "irqdone" \in Calls
  /\ ~ done
  /\ done' = TRUE
  /\ k' = IF DoneWakes THEN Schedule(ResumeFirst(k, DoneList)) ELSE k
  /\ UNCHANGED << pc, job >>

-----------------------------------------------------------------------------
CompletionStep(t) ==
  \/ WaitNow(t) \/ WaitReturns(t) \/ DoneTests(t) \/ DoneSets(t)
  \/ \E timeout \in Timeouts : WaitBlocks(t, timeout)

(***************************************************************************)
(* Nobody sleeps on what is done: a thread does not stand in the list      *)
(* while the flag is set, also when a done, a timeout and the return of an *)
(* earlier wait, which clears the flag, come between.                      *)
(***************************************************************************)
NoSleepOnDone == done => k.wait[DoneList] = << >>
=============================================================================
