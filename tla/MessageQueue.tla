---------------------------- MODULE MessageQueue ----------------------------
(***************************************************************************)
(* A message queue of ipc.c, over the kernel state of module Kernel.  Its  *)
(* messages are kept in linked slots, and a message is copied into or out  *)
(* of its slot with interrupts enabled: a slot in hand[t] is in no list,   *)
(* and pc "copy" is the point where thread t copies, between two sections. *)
(***************************************************************************)
EXTENDS Exchange

CONSTANT Null  \* RT_NULL

ASSUME QueueAssumption == Null \notin 1 .. Size

VARIABLES
  free,   \* mq->msg_queue_free
  head,   \* mq->msg_queue_head
  tail,   \* mq->msg_queue_tail
  next,   \* the next pointer of each slot
  data,   \* the content of each slot, Junk in the free list, where nobody reads it
  hand    \* the slot each thread copies into or out of

qvars == << free, head, tail, next, entry, data, hand >>
mqvars == << k, pc, free, head, tail, next, entry, data, hand, flag, stage, job >>

MqSlot == 1 .. Size
Link == MqSlot \cup {Null}

(* The loop of rt_mq_init: the slots are put in the free list one by one. *)
FreshLinks_Endless == [i \in MqSlot |-> i - 1]
FreshLinks == [i \in MqSlot |-> IF i = 1 THEN Null ELSE i - 1]

MqInit ==
  /\ ExchangeInit
  /\ free = Size /\ head = Null /\ tail = Null
  /\ next = FreshLinks
  /\ entry = 0
  /\ data = [i \in MqSlot |-> Junk]
  /\ hand = [t \in Thread |-> Null]

-----------------------------------------------------------------------------
(* The lists of slots *)

(* Slot i becomes the last of the queue; old are the next pointers so far. *)
LinkLast(i, old) ==
  /\ next' = IF tail # Null THEN [old EXCEPT ![tail] = i] ELSE old
  /\ tail' = i
  /\ head' = IF head = Null THEN i ELSE head

LinkFirst_AsLast(i) == LinkLast(i, [next EXCEPT ![i] = Null])

LinkFirst(i) ==
  /\ next' = [next EXCEPT ![i] = head]
  /\ head' = i
  /\ tail' = IF tail = Null THEN i ELSE tail

UnlinkFirst_TailKept ==
  /\ head' = next[head]
  /\ UNCHANGED << tail, next >>

UnlinkFirst ==
  /\ head' = next[head]
  /\ tail' = IF tail = head THEN Null ELSE tail
  /\ UNCHANGED next

-----------------------------------------------------------------------------
(* rt_mq_send_wait, and rt_mq_send with timeout "none" *)

MqSendFails(t, m) ==
  /\ Round(t, "send", "none", m)
  /\ free = Null
  /\ Goto(t, "run")
  /\ Done(t)
  /\ UNCHANGED << k, qvars, flag, stage >>

MqSendWaits(t, timeout, m) ==
  /\ Round(t, "send", timeout, m)
  /\ free = Null
  /\ BlockOn(t, Senders, flag, "send", timeout, m)
  /\ UNCHANGED << qvars, flag, stage >>

(* t takes a slot out of the free list and goes on to copy for op. *)
TakeSlot_LeftFree(t, op, m) ==
  /\ free # Null
  /\ hand' = [hand EXCEPT ![t] = free]
  /\ Goto(t, "copy")
  /\ Begins(t, op, "none", m)
  /\ UNCHANGED << k, free, head, tail, entry, flag, stage >>

TakeSlot(t, op, m) ==
  /\ free # Null
  /\ hand' = [hand EXCEPT ![t] = free]
  /\ free' = next[free]
  /\ Goto(t, "copy")
  /\ Begins(t, op, "none", m)
  /\ UNCHANGED << k, head, tail, entry, flag, stage >>

(* The slot's next pointer is cleared and the message copied. *)
MqSendTakes(t, timeout, m) ==
  /\ Round(t, "send", timeout, m)
  /\ TakeSlot(t, "send", m)
  /\ next' = [next EXCEPT ![free] = Null]
  /\ data' = [data EXCEPT ![free] = m]

Copied(t, op) == t = k.cur /\ pc[t] = "copy" /\ job[t].op = op

MqSendLinks(t) ==
  /\ Copied(t, "send")
  /\ LinkLast(hand[t], next)
  /\ entry' = entry + 1
  /\ hand' = [hand EXCEPT ![t] = Null]
  /\ WakeAndReturn(t, Receivers)
  /\ UNCHANGED << free, data >>

(* rt_mq_send in an interrupt handler: no thread comes between *)
MqIrqSend(m) ==
  /\ "irqsend" \in Calls /\ stage = "open"
  /\ free # Null
  /\ free' = next[free]
  /\ LinkLast(free, [next EXCEPT ![free] = Null])
  /\ data' = [data EXCEPT ![free] = m]
  /\ entry' = entry + 1
  /\ WakeFromIrq(Receivers)
  /\ UNCHANGED hand

(* rt_mq_urgent *)
MqUrgentTakes(t, m) ==
  /\ InCall(t, "urgent") /\ stage = "open"
  /\ TakeSlot(t, "urgent", m)
  /\ data' = [data EXCEPT ![free] = m]
  /\ UNCHANGED next

MqUrgentLinks(t) ==
  /\ Copied(t, "urgent")
  /\ LinkFirst(hand[t])
  /\ entry' = entry + 1
  /\ hand' = [hand EXCEPT ![t] = Null]
  /\ WakeAndReturn(t, Receivers)
  /\ UNCHANGED << free, data >>

-----------------------------------------------------------------------------
(* rt_mq_recv *)

MqRecvFails(t) ==
  /\ Round(t, "recv", "none", Junk)
  /\ entry = 0
  /\ k' = IF pc[t] = "woken" THEN [k EXCEPT !.err[t] = "timeout"] ELSE k
  /\ Goto(t, "run")
  /\ Done(t)
  /\ UNCHANGED << qvars, flag, stage >>

MqRecvWaits(t, timeout) ==
  /\ Round(t, "recv", timeout, Junk)
  /\ entry = 0
  /\ BlockOn(t, Receivers, flag, "recv", timeout, Junk)
  /\ UNCHANGED << qvars, flag, stage >>

MqRecvTakes(t, timeout) ==
  /\ Round(t, "recv", timeout, Junk)
  /\ entry # 0
  /\ hand' = [hand EXCEPT ![t] = head]
  /\ UnlinkFirst
  /\ entry' = entry - 1
  /\ Goto(t, "copy")
  /\ Begins(t, "recv", "none", data[head])
  /\ UNCHANGED << k, free, data, flag, stage >>

(* The message was copied out; its slot goes back to the free list. *)
MqRecvFrees(t) ==
  /\ Copied(t, "recv")
  /\ next' = [next EXCEPT ![hand[t]] = free]
  /\ free' = hand[t]
  /\ data' = [data EXCEPT ![hand[t]] = Junk]
  /\ hand' = [hand EXCEPT ![t] = Null]
  /\ WakeAndReturn(t, Senders)
  /\ UNCHANGED << head, tail, entry >>

-----------------------------------------------------------------------------
(* The slots reached from a pointer, in order *)
Chain(links, start) ==
  LET at[n \in 1 .. Size + 1] ==
        IF n = 1 THEN start ELSE IF at[n - 1] = Null THEN Null ELSE links[at[n - 1]]
  IN  [n \in 1 .. Cardinality({i \in 1 .. Size + 1 : at[i] # Null}) |-> at[n]]

(* rt_mq_control(RT_IPC_CMD_RESET): the messages go back one by one. *)
Drained ==
  LET queued == Chain(next, head)
  IN  /\ next' = [i \in MqSlot |->
                    IF i \notin Range(queued) THEN next[i]
                    ELSE LET n == CHOOSE j \in DOMAIN queued : queued[j] = i
                         IN  IF n = 1 THEN free ELSE queued[n - 1]]
      /\ free' = IF queued = << >> THEN free ELSE Last(queued)
      /\ data' = [i \in MqSlot |-> IF i \in Range(queued) THEN Junk ELSE data[i]]
      /\ head' = Null
      /\ tail' = IF tail \in Range(queued) THEN Null ELSE tail
      /\ entry' = 0
      /\ UNCHANGED hand

MqReset(t) == FailWaiters(t) /\ Drained

(* rt_mq_detach, rt_mq_delete *)
MqDetach(t) == StartDetach(t) /\ UNCHANGED qvars

(* rt_mq_init or rt_mq_create, once the old queue is gone *)
MqInitialise(t) ==
  /\ Reopen(t)
  /\ free' = Size /\ head' = Null /\ tail' = Null
  /\ next' = FreshLinks
  /\ entry' = 0
  /\ data' = [i \in MqSlot |-> Junk]
  /\ UNCHANGED hand

-----------------------------------------------------------------------------
MqThreadStep(t) ==
  \/ MqSendLinks(t) \/ MqUrgentLinks(t) \/ MqRecvFrees(t) \/ MqRecvFails(t)
  \/ MqReset(t) \/ MqDetach(t) \/ MqInitialise(t)
  \/ \E timeout \in Timeouts : MqRecvWaits(t, timeout) \/ MqRecvTakes(t, timeout)
  \/ \E m \in Express : MqUrgentTakes(t, m)
  \/ \E m \in Plain :
       \/ MqSendFails(t, m)
       \/ \E timeout \in Timeouts : MqSendWaits(t, timeout, m) \/ MqSendTakes(t, timeout, m)
  \/ WaiterStep(t) /\ UNCHANGED qvars

MqNext ==
  \/ \E t \in Thread : MqThreadStep(t)
  \/ \E m \in Plain : MqIrqSend(m)
  \/ ClockStep /\ UNCHANGED qvars

MqSpec == MqInit /\ [][MqNext]_mqvars

-----------------------------------------------------------------------------
(* Properties *)

MqTypeOK ==
  /\ ExchangeType
  /\ pc \in [Thread -> IpcPC \cup {"copy"}]
  /\ free \in Link /\ head \in Link /\ tail \in Link
  /\ next \in [MqSlot -> Link]
  /\ entry \in 0 .. Size
  /\ data \in [MqSlot -> Mail \cup {Junk}]
  /\ hand \in [Thread -> Link]

(***************************************************************************)
(* No slot leaks and none is used twice, although the calls of several     *)
(* threads are in the middle of a copy while others send, receive and      *)
(* reset: every slot is once in the free list, in the queue or in the hand *)
(* of one thread; entry counts the queue and tail is its end.              *)
(***************************************************************************)
InHand == {t \in Thread : hand[t] # Null}

SlotsConserved ==
  LET queued == Chain(next, head)
      held   == {hand[t] : t \in InHand}
  IN  /\ IsInjective(queued \o Chain(next, free))
      /\ Range(queued \o Chain(next, free)) = MqSlot \ held
      /\ \A t, u \in InHand : hand[t] = hand[u] => t = u
      /\ entry = Len(queued)
      /\ tail = IF queued = << >> THEN Null ELSE Last(queued)

(***************************************************************************)
(* A message is not overwritten while it is copied out, nor before it is   *)
(* linked, by a sender that comes between the sections.                    *)
(***************************************************************************)
CopyIntact == \A t \in InHand : data[hand[t]] = job[t].arg

(***************************************************************************)
(* Nobody is forgotten.  While a receiver waits there are not more         *)
(* messages than receivers that were woken and have not come back yet; and *)
(* while a sender waits there are not more free slots than such senders,   *)
(* although a slot is freed only in the second section of a receive.       *)
(***************************************************************************)
NobodyForgotten ==
  /\ Waiting(Receivers) # {} => entry <= Cardinality(Returning("recv"))
  /\ Waiting(Senders) # {} => Len(Chain(next, free)) <= Cardinality(Returning("send"))

(***************************************************************************)
(* Messages are received in the order in which they were linked, urgent    *)
(* ones first, and none is lost, doubled or invented: the message queue    *)
(* implements the abstract box too, whatever threads copy at the same time *)
(***************************************************************************)
Queued == LET c == Chain(next, head) IN [i \in DOMAIN c |-> data[c[i]]]

MqPromise == INSTANCE MailboxSpec WITH Room <- Size, box <- Queued

MqKeepsOrder == MqPromise!Spec
=============================================================================
