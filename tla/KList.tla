------------------------------- MODULE KList -------------------------------
(***************************************************************************)
(* The doubly linked lists of the kernel (include/rtservice.h), as         *)
(* sequences read from the list head.  A thread owns one list node         *)
(* (tlist), so it stands at most once in all the lists together.           *)
(***************************************************************************)
EXTENDS SequencesExt

(***************************************************************************)
(* rt_list_remove: unlink a node from the list it stands in, if any; a     *)
(* node that stands in no list points at itself and nothing changes.       *)
(***************************************************************************)
Unlinked(s, e) ==
  IF e \in Range(s)
  THEN RemoveAt(s, CHOOSE i \in DOMAIN s : s[i] = e)
  ELSE s

(***************************************************************************)
(* rt_list_insert_before(head, node) puts the node last, and               *)
(* rt_list_insert_after(head, node) puts it first.                         *)
(***************************************************************************)
InsertedBefore_First(s, e) == Cons(e, s)

InsertedBefore(s, e) == Append(s, e)
InsertedAfter(s, e)  == Cons(e, s)

(***************************************************************************)
(* The walk of _ipc_list_suspend for RT_IPC_FLAG_PRIO: the node goes in    *)
(* front of the first one whose key is larger (a lower priority), and      *)
(* last when there is none.                                                *)
(***************************************************************************)
FirstLarger_OrEqual(s, key, e, i) ==
  /\ key[e] <= key[s[i]]
  /\ \A j \in 1 .. i - 1 : ~ (key[e] <= key[s[j]])

FirstLarger(s, key, e, i) ==
  /\ key[e] < key[s[i]]
  /\ \A j \in 1 .. i - 1 : ~ (key[e] < key[s[j]])

InsertedByKey_Fifo(s, key, e) == Append(s, e)

InsertedByKey(s, key, e) ==
  IF \E i \in DOMAIN s : FirstLarger(s, key, e, i)
  THEN InsertAt(s, CHOOSE i \in DOMAIN s : FirstLarger(s, key, e, i), e)
  ELSE Append(s, e)
=============================================================================
