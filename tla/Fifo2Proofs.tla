---------------------------- MODULE Fifo2Proofs -----------------------------
(***************************************************************************)
(* fifo2 implements a bounded queue of depth two, for every set of words.  *)
(***************************************************************************)
EXTENDS Fifo2, TLAPS

\* The registers keep their types: the 2-bit count never reaches 3.
THEOREM TypeCorrect == Spec => []TypeOK
<1>1. Init => TypeOK
  BY DEF Init, TypeOK
<1>2. TypeOK /\ [Next]_vars => TypeOK'
  BY DEF TypeOK, Next, vars, Handshake, Clock, Registers, Count, empty, full
<1>3. QED
  BY <1>1, <1>2, PTL DEF Spec

\* Whatever enq, deq and din are in a cycle, the words seen through Contents
\* move as a queue of depth two moves with the same enq, deq and din: the
\* behaviour of fifo2 under its handshake.
THEOREM Fifo2IsAQueue == Spec => ImplementsQueue
<1>1. Init => Queue!Init
  BY DEF Init, Queue!Init, Contents
<1> DEFINE AsQueue == \A enq, deq \in BOOLEAN, din \in Data :
                        Handshake(enq, deq) /\ Clock(enq, deq, din) => Queue!Step(enq, deq, din)
<1>2. TypeOK => AsQueue
  <2> SUFFICES ASSUME TypeOK, NEW enq \in BOOLEAN, NEW deq \in BOOLEAN, NEW din \in Data,
                      Handshake(enq, deq), Clock(enq, deq, din)
               PROVE  Queue!Step(enq, deq, din)
    OBVIOUS
  <2>0. fifo_count \in {0, 1, 2} /\ dout \in Data /\ fifo \in Data
    BY DEF TypeOK
  <2>1. CASE enq /\ ~deq
    <3>1. CASE fifo_count = 0
      <4>1. Contents = << >> /\ Contents' = <<din>>
        BY <2>1, <3>1 DEF Clock, Registers, Count, Contents, empty
      <4>2. QED
        BY <2>1, <4>1 DEF Queue!Step
    <3>2. CASE fifo_count = 1
      <4>1. Contents = <<dout>> /\ Contents' = <<dout, din>>
        BY <2>1, <3>2 DEF Clock, Registers, Count, Contents, empty
      <4>2. QED
        BY <2>0, <2>1, <4>1 DEF Queue!Step
    <3>3. QED
      BY <2>0, <2>1, <3>1, <3>2 DEF Handshake, full
  <2>2. CASE ~enq /\ deq
    <3>1. CASE fifo_count = 1
      <4>1. Contents = <<dout>> /\ Contents' = << >>
        BY <2>2, <3>1 DEF Clock, Registers, Count, Contents, empty
      <4>2. QED
        BY <2>0, <2>2, <4>1 DEF Queue!Step
    <3>2. CASE fifo_count = 2
      <4>1. Contents = <<dout, fifo>> /\ Contents' = <<fifo>>
        BY <2>2, <3>2 DEF Clock, Registers, Count, Contents, empty
      <4>2. QED
        BY <2>0, <2>2, <4>1 DEF Queue!Step
    <3>3. QED
      BY <2>0, <2>2, <3>1, <3>2 DEF Handshake, empty
  <2>3. CASE enq /\ deq
    <3>1. fifo_count = 1
      BY <2>0, <2>3 DEF Handshake, empty, full
    <3>2. Contents = <<dout>> /\ Contents' = <<din>>
      BY <2>3, <3>1 DEF Clock, Registers, Count, Contents, empty
    <3>3. QED
      BY <2>0, <2>3, <3>2 DEF Queue!Step
  <2>4. CASE ~enq /\ ~deq
    BY <2>4 DEF Clock, Registers, Count, Contents, Queue!Step
  <2>5. QED
    BY <2>1, <2>2, <2>3, <2>4
<1>3. TypeOK => [AsQueue]_vars
  BY <1>2
<1>4. QED
  BY <1>1, <1>3, TypeCorrect, PTL DEF Spec, ImplementsQueue
=============================================================================
