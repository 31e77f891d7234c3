------------------------------ MODULE Mempool ------------------------------
(***************************************************************************)
(* A memory pool of mempool.c.  Its free list is a stack used only inside  *)
(* the sections, so blocks are told apart by nothing: free stands for      *)
(* mp->block_free_count and for the length of mp->block_list.              *)
(***************************************************************************)
EXTENDS Jobs

CONSTANTS
  PoolList,  \* the pool's suspend list, one of Queue
  PoolUsers, \* the threads that call rt_mp_alloc
  Blocks     \* mp->block_total_count

ASSUME PoolAssumption ==
  PoolList \in Queue /\ PoolUsers \subseteq Thread /\ Blocks \in Nat \ {0}

VARIABLES
  free,      \* mp->block_free_count
  poolOpen   \* the pool is initialised and nobody is detaching it

poolvars == << free, poolOpen >>

PoolInit == free = Blocks /\ poolOpen = TRUE

-----------------------------------------------------------------------------
(* rt_mp_alloc, a loop like the one of a mailbox *)

AllocRound(t, timeout) ==
  \/ InCall(t, "alloc") /\ t \in PoolUsers /\ poolOpen /\ timeout \in Timeouts
  \/ GoesOn(t, "alloc", timeout, Junk)

Alloc_Unchecked(t, timeout) ==
  /\ AllocRound(t, timeout)
  /\ free' = free - 1
  /\ Goto(t, "run")
  /\ Done(t)
  /\ UNCHANGED << k, poolOpen >>

Alloc(t, timeout) ==
  /\ AllocRound(t, timeout)
  /\ free > 0
  /\ free' = free - 1
  /\ Goto(t, "run")
  /\ Done(t)
  /\ UNCHANGED << k, poolOpen >>

(* rt_set_errno writes thread->error *)
AllocFails(t) ==
  /\ AllocRound(t, "none")
  /\ free = 0
  /\ k' = [k EXCEPT !.err[t] = "timeout"]
  /\ Goto(t, "run")
  /\ Done(t)
  /\ UNCHANGED poolvars

(* The newest waiter goes first, whatever its priority. *)
PoolWaitOn(s, t, timeout) ==
  LET y == Suspend([s EXCEPT !.err[t] = "ok"], t)
      z == [y EXCEPT !.wait[PoolList] = InsertedAfter(@, t)]
  IN  IF timeout = "timed" THEN StartTimer(z, t) ELSE z

AllocWaits(t, timeout) ==
  /\ AllocRound(t, timeout)
  /\ free = 0 /\ timeout # "none"
  /\ k' = PoolWaitOn(k, t, timeout)
  /\ Goto(t, "block")
  /\ Begins(t, "alloc", timeout, Junk)
  /\ UNCHANGED poolvars

-----------------------------------------------------------------------------
(* rt_mp_free, of any block that is allocated *)

PoolWakes_WhenEmpty == k.wait[PoolList] # << >> /\ free = 0
PoolWakes == k.wait[PoolList] # << >>

ResumeAllocator == ResumeFirst([k EXCEPT !.err[Head(k.wait[PoolList])] = "ok"], PoolList)

Free(t) ==
  /\ InCall(t, "free") /\ poolOpen
  /\ free < Blocks
  /\ free' = free + 1
  /\ k' = IF PoolWakes THEN ResumeAllocator ELSE k
  /\ Goto(t, IF PoolWakes THEN "sched" ELSE "run")
  /\ UNCHANGED << job, poolOpen >>

(* the same in an interrupt handler *)
IrqFree ==
  /\ "irqfree" \in Calls /\ poolOpen
  /\ free < Blocks
  /\ free' = free + 1
  /\ k' = IF PoolWakes THEN Schedule(ResumeAllocator) ELSE k
  /\ UNCHANGED << pc, job, poolOpen >>

-----------------------------------------------------------------------------
(***************************************************************************)
(* rt_mp_detach and rt_mp_delete, which inline _ipc_list_resume_all; the   *)
(* blocks that are allocated then are not freed any more.                  *)
(***************************************************************************)
DetachPool(t) ==
  /\ InCall(t, "mpdetach") /\ poolOpen
  /\ NobodyInside({"alloc"}) /\ Waiting(PoolList) \cap k.armed = {}
  /\ BeginFlush(t, "mpdetach")
  /\ poolOpen' = FALSE
  /\ UNCHANGED free

(* rt_mp_init or rt_mp_create, once the old pool is gone *)
InitPool(t) ==
  /\ InCall(t, "mpdetach") /\ ~ poolOpen
  /\ \A u \in Thread : job[u].op # "mpdetach"
  /\ free' = Blocks /\ poolOpen' = TRUE
  /\ UNCHANGED << k, pc, job >>

-----------------------------------------------------------------------------
PoolStep(t) ==
  \/ AllocFails(t) \/ Free(t) \/ DetachPool(t) \/ InitPool(t)
  \/ FlushStep(t, PoolList, "mpdetach") /\ UNCHANGED poolvars
  \/ \E timeout \in Timeouts \cup {"none"} : Alloc(t, timeout) \/ AllocWaits(t, timeout)

PoolType == free \in 0 .. Blocks /\ poolOpen \in BOOLEAN

(***************************************************************************)
(* No block stays idle: while a thread waits for one there are not more    *)
(* free blocks than threads that were woken and have not come back yet,    *)
(* although a block may be taken by a thread that came later.              *)
(***************************************************************************)
NoIdleBlock == Waiting(PoolList) # {} => free <= Cardinality(Returning("alloc"))
=============================================================================
