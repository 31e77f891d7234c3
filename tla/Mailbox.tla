------------------------------ MODULE Mailbox ------------------------------
(***************************************************************************)
(* A mailbox of ipc.c: threads send and receive, with and without waiting, *)
(* and an interrupt sends, over the kernel state of module Kernel.         *)
(***************************************************************************)
EXTENDS Exchange

VARIABLES
  pool,    \* mb->msg_pool
  in,      \* mb->in_offset
  out      \* mb->out_offset

ring == << pool, in, out, entry >>
vars == << k, pc, pool, in, out, entry, flag, stage, job >>

Slot == 0 .. Size - 1

Init ==
  /\ ExchangeInit
  /\ pool = [i \in Slot |-> Junk]
  /\ in = 0 /\ out = 0 /\ entry = 0

-----------------------------------------------------------------------------
(* rt_mb_send_wait, and rt_mb_send with timeout "none" *)

Next1_NoWrap(i) == i + 1
Next1(i) == IF i + 1 >= Size THEN 0 ELSE i + 1

Store(m) ==
  /\ entry # Size
  /\ pool' = [pool EXCEPT ![in] = m]
  /\ in' = Next1(in)
  /\ entry' = entry + 1
  /\ UNCHANGED out

SendFails(t, m) ==
  /\ Round(t, "send", "none", m)
  /\ entry = Size
  /\ Goto(t, "run")
  /\ Done(t)
  /\ UNCHANGED << k, ring, flag, stage >>

SendWaits(t, timeout, m) ==
  /\ Round(t, "send", timeout, m)
  /\ entry = Size
  /\ BlockOn(t, Senders, flag, "send", timeout, m)
  /\ UNCHANGED << ring, flag, stage >>

Send(t, timeout, m) ==
  /\ Round(t, "send", timeout, m)
  /\ Store(m)
  /\ WakeAndReturn(t, Receivers)

(* rt_mb_send in an interrupt handler *)
IrqSend(m) ==
  /\ "irqsend" \in Calls /\ stage = "open"
  /\ Store(m)
  /\ WakeFromIrq(Receivers)

(* rt_mb_urgent: the mail is put in front of the oldest one *)
Before1(i) == IF i > 0 THEN i - 1 ELSE Size - 1

StoreUrgent_StoredFirst(m) ==
  /\ entry # Size
  /\ pool' = [pool EXCEPT ![out] = m]
  /\ out' = Before1(out)
  /\ entry' = entry + 1
  /\ UNCHANGED in

StoreUrgent(m) ==
  /\ entry # Size
  /\ out' = Before1(out)
  /\ pool' = [pool EXCEPT ![out'] = m]
  /\ entry' = entry + 1
  /\ UNCHANGED in

Urgent(t, m) ==
  /\ InCall(t, "urgent") /\ stage = "open"
  /\ StoreUrgent(m)
  /\ WakeAndReturn(t, Receivers)

-----------------------------------------------------------------------------
(* rt_mb_recv *)

Fetch ==
  /\ entry # 0
  /\ out' = Next1(out)
  /\ entry' = entry - 1
  /\ UNCHANGED << pool, in >>

RecvFails(t) ==
  /\ Round(t, "recv", "none", Junk)
  /\ entry = 0
  /\ k' = IF pc[t] = "woken" THEN [k EXCEPT !.err[t] = "timeout"] ELSE k
  /\ Goto(t, "run")
  /\ Done(t)
  /\ UNCHANGED << ring, flag, stage >>

RecvWaits(t, timeout) ==
  /\ Round(t, "recv", timeout, Junk)
  /\ entry = 0
  /\ BlockOn(t, Receivers, flag, "recv", timeout, Junk)
  /\ UNCHANGED << ring, flag, stage >>

Recv(t, timeout) ==
  /\ Round(t, "recv", timeout, Junk)
  /\ Fetch
  /\ WakeAndReturn(t, Senders)

-----------------------------------------------------------------------------
Emptied == in' = 0 /\ out' = 0 /\ entry' = 0 /\ UNCHANGED pool

(* rt_mb_control(RT_IPC_CMD_RESET) *)
Reset(t) == FailWaiters(t) /\ Emptied

(* rt_mb_detach, rt_mb_delete *)
Detach(t) == StartDetach(t) /\ UNCHANGED ring

(* rt_mb_init or rt_mb_create, once the old mailbox is gone *)
Initialise(t) == Reopen(t) /\ Emptied

-----------------------------------------------------------------------------
ThreadStep(t) ==
  \/ RecvFails(t) \/ Reset(t) \/ Detach(t) \/ Initialise(t)
  \/ \E timeout \in Timeouts : RecvWaits(t, timeout) \/ Recv(t, timeout)
  \/ \E m \in Express : Urgent(t, m)
  \/ \E m \in Plain :
       \/ SendFails(t, m)
       \/ \E timeout \in Timeouts : SendWaits(t, timeout, m) \/ Send(t, timeout, m)
  \/ WaiterStep(t) /\ UNCHANGED ring

Next ==
  \/ \E t \in Thread : ThreadStep(t)
  \/ \E m \in Plain : IrqSend(m)
  \/ ClockStep /\ UNCHANGED ring

Spec == Init /\ [][Next]_vars

-----------------------------------------------------------------------------
(* Properties *)

TypeOK ==
  /\ ExchangeType
  /\ pc \in [Thread -> IpcPC]
  /\ pool \in [Slot -> Mail \cup {Junk}]
  /\ in \in Slot /\ out \in Slot /\ entry \in 0 .. Size

(***************************************************************************)
(* No mail is stranded: while a receiver waits there are not more mails    *)
(* than receivers that were woken and have not come back yet, although     *)
(* each send wakes only one and a thread that comes later may take the     *)
(* mail a woken receiver was woken for.                                    *)
(***************************************************************************)
NoStrandedMail ==
  Waiting(Receivers) # {} => entry <= Cardinality(Returning("recv"))

(***************************************************************************)
(* The same for the senders and the free slots of the pool; so a sender    *)
(* and a receiver never wait for each other.                               *)
(***************************************************************************)
NoIdleSlot ==
  Waiting(Senders) # {} => Size - entry <= Cardinality(Returning("send"))

(***************************************************************************)
(* Mails are received in the order they were sent, urgent ones first, and  *)
(* none is lost, doubled or invented, where the offsets wrap and where a   *)
(* send, a reset and a receive meet: the mailbox implements MailboxSpec.   *)
(***************************************************************************)
Box == [i \in 1 .. entry |-> pool[(out + i - 1) % Size]]

Promise == INSTANCE MailboxSpec WITH Room <- Size, box <- Box

KeepsOrder == Promise!Spec
=============================================================================
