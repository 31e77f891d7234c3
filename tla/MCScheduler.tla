---------------------------- MODULE MCScheduler ----------------------------
(***************************************************************************)
(* Small instances of Scheduler: two application threads of one priority,  *)
(* one of a higher priority, and the idle thread.                          *)
(***************************************************************************)
EXTENDS Scheduler

CONSTANTS main, peer, urgent

MCThread   == {main, peer, urgent, Idle}
MCInitPrio == [t \in MCThread |-> IF t = urgent THEN 0 ELSE IF t = Idle THEN 2 ELSE 1]
EqualPrio  == [t \in MCThread |-> IF t = Idle THEN 2 ELSE 1]
MCInitTick == [t \in MCThread |-> IF t = main THEN 2 ELSE 1]
AllCalls   == {"schedule", "startup", "yield", "sleep", "suspend", "resume",
               "priority", "critical", "delete", "exit"}
=============================================================================
