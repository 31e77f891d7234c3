------------------------------ MODULE MCMutex ------------------------------
(***************************************************************************)
(* Small instances of Mutex: three application threads of three priorities *)
(* and the idle thread, the lowest one last.  urgent starts first and sleeps *)
(* to let the others run.                                                  *)
(***************************************************************************)
EXTENDS Mutex

CONSTANTS low, mid, urgent

MCThread    == {low, mid, urgent, Idle}
MCInitPrio  == [t \in MCThread |-> IF t = urgent THEN 0 ELSE IF t = mid THEN 1
                                   ELSE IF t = low THEN 2 ELSE 3]
MCInitReady == [p \in 0 .. 3 |-> IF p = 0 THEN << >> ELSE IF p = 1 THEN << mid >>
                                 ELSE IF p = 2 THEN << low >> ELSE << Idle >>]
=============================================================================
