--------------------------- MODULE MCMessageQueue ---------------------------
(***************************************************************************)
(* A small instance of MessageQueue: two application threads of one        *)
(* priority, one of a higher priority that starts first, and idle.         *)
(***************************************************************************)
EXTENDS MessageQueue

CONSTANTS main, peer, urgent

MCThread    == {main, peer, urgent, Idle}
MCInitPrio  == [t \in MCThread |-> IF t = urgent THEN 0 ELSE IF t = Idle THEN 2 ELSE 1]
MCInitReady == [p \in 0 .. 2 |-> IF p = 1 THEN << main, peer >>
                                 ELSE IF p = 2 THEN << Idle >> ELSE << >>]
=============================================================================
