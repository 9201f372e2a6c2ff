------------------------------ MODULE MCFifo2 -------------------------------
(* fifo2 with six different words: enough to tell any two entries apart.   *)
EXTENDS Fifo2
=============================================================================
