------------------------------- MODULE Fifo2 --------------------------------
(***************************************************************************)
(* The two-entry store fifo2 of RTL/fifo.vhd: an output register and one   *)
(* spare register behind it, with a 2-bit occupancy count.  It sits        *)
(* between the CU memory controller and the global memory controllers      *)
(* (doutQ, dout_wrQ, the lane buffers, the write-data chain).              *)
(***************************************************************************)
EXTENDS Naturals, Sequences

CONSTANT Data

VARIABLES dout,        \* the output register, what the reader sees
          fifo,        \* the spare register
          fifo_count   \* how many of the two hold a word

vars == <<dout, fifo, fifo_count>>

empty == fifo_count = 0
full  == fifo_count = 2      \* bit 1 of the count

Init == /\ dout \in Data
        /\ fifo \in Data
        /\ fifo_count = 0

\* the words a reader would get, oldest first
Contents == CASE fifo_count = 1 -> <<dout>>
              [] fifo_count = 2 -> <<dout, fifo>>
              [] OTHER          -> << >>

(***************************************************************************)
(* One rising edge of the clock: every register is computed from the       *)
(* values before the edge.                                                 *)
(***************************************************************************)
\* fault: a word that comes while the only one leaves is put behind it
RegistersNoBypass(enq, deq, din) ==
  /\ dout' = IF enq /\ empty THEN din ELSE IF ~enq /\ deq THEN fifo ELSE dout
  /\ fifo' = IF enq /\ ~empty THEN din ELSE fifo

Registers(enq, deq, din) ==
  /\ dout' = IF enq /\ (empty \/ deq) THEN din
             ELSE IF ~enq /\ deq THEN fifo ELSE dout
  /\ fifo' = IF enq /\ ~empty /\ ~deq THEN din ELSE fifo

\* fault: the two directions swapped
CountSwapped(enq, deq) ==
  fifo_count' = IF deq /\ ~enq /\ fifo_count # 0 THEN fifo_count + 1
                ELSE IF enq /\ ~deq /\ fifo_count # 2 THEN fifo_count - 1
                ELSE fifo_count

Count(enq, deq) ==
  fifo_count' = IF deq /\ ~enq /\ fifo_count # 0 THEN fifo_count - 1
                ELSE IF enq /\ ~deq /\ fifo_count # 2 THEN fifo_count + 1
                ELSE fifo_count

Clock(enq, deq, din) == Registers(enq, deq, din) /\ Count(enq, deq)

(***************************************************************************)
(* The handshake of the users: a writer enqueues only when full is low, a  *)
(* reader dequeues only when empty is low.                                 *)
(***************************************************************************)
Handshake(enq, deq) == (enq => ~full) /\ (deq => ~empty)

Next == \E enq, deq \in BOOLEAN, din \in Data :
          Handshake(enq, deq) /\ Clock(enq, deq, din)

Spec == Init /\ [][Next]_vars

-----------------------------------------------------------------------------
TypeOK == /\ dout \in Data
          /\ fifo \in Data
          /\ fifo_count \in 0..2

Queue == INSTANCE InOrderQueue WITH Depth <- 2, queue <- Contents

\* Under the handshake the two registers behave as one bounded queue with the
\* same enq, deq and din: no word is lost, repeated, altered or overtaken,
\* whatever enq and deq coincide.
ImplementsQueue ==
  /\ Queue!Init
  /\ [][\A enq, deq \in BOOLEAN, din \in Data :
          Handshake(enq, deq) /\ Clock(enq, deq, din) => Queue!Step(enq, deq, din)]_vars
=============================================================================
