------------------------------ MODULE MCWaits ------------------------------
(***************************************************************************)
(* A small instance of Waits: two application threads of one priority, one *)
(* of a higher priority that starts first, and the idle thread.            *)
(***************************************************************************)
EXTENDS Waits

CONSTANTS main, peer, urgent, b0, b1

MCThread    == {main, peer, urgent, Idle}
MCInitPrio  == [t \in MCThread |-> IF t = urgent THEN 0 ELSE IF t = Idle THEN 2 ELSE 1]
MCInitReady == [p \in 0 .. 2 |-> IF p = 1 THEN << main, peer >>
                                 ELSE IF p = 2 THEN << Idle >> ELSE << >>]

Ask(bits, mode, clear) == [bits |-> bits, mode |-> mode, clear |-> clear]
MCRequests == {Ask({b0, b1}, "or", TRUE), Ask({b0, b1}, "and", FALSE)}
MCSentBits == {{b0}, {b1}}
=============================================================================
