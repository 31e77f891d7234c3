---------------------------- MODULE MailboxSpec ----------------------------
(***************************************************************************)
(* What a mailbox promises its users, without ring buffer, waiting threads *)
(* or scheduler: a bounded sequence of mails that loses none, invents none *)
(* and keeps their order, except that an urgent mail overtakes the others. *)
(***************************************************************************)
EXTENDS Naturals, Sequences

CONSTANTS
  Plain,    \* the contents of ordinary mails
  Express,  \* the contents of urgent mails
  Room      \* the number of mails the box holds

VARIABLE box

Init == box = << >>

Put(m) ==
  /\ Len(box) < Room
  /\ box' = Append(box, m)

PutUrgent(m) ==
  /\ Len(box) < Room
  /\ box' = << m >> \o box

Get ==
  /\ box # << >>
  /\ box' = Tail(box)

Clear == box' = << >>

Next ==
  \/ \E m \in Plain : Put(m)
  \/ \E m \in Express : PutUrgent(m)
  \/ Get
  \/ Clear

Spec == Init /\ [][Next]_box
=============================================================================
