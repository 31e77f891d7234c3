---------------------------- MODULE MCWorkQueue ----------------------------
(***************************************************************************)
(* A small instance of WorkQueue: one thread that submits, a worker of the *)
(* same priority, and the idle thread.                                     *)
(***************************************************************************)
EXTENDS WorkQueue

CONSTANT main

MCThread    == {main, Worker, Idle}
MCInitPrio  == [t \in MCThread |-> IF t = Idle THEN 1 ELSE 0]
MCInitReady == [p \in 0 .. 1 |-> IF p = 0 THEN << Worker >> ELSE << Idle >>]
=============================================================================
