------------------------------ MODULE GmemOrder ------------------------------
(***************************************************************************)
(* The way of loads and stores from the two compute units of a memory      *)
(* controller into it.  A unit hands a store over as a request and a word  *)
(* of data, which travel apart (RTL/FGPU_vliw.vhd): the requests, with the *)
(* loads, through a fifo of the unit; the data through a chain of two      *)
(* fifo2 that both units share, unit 1 next to the controller.  The        *)
(* controller (RTL/gmem_cntrl_hbm.vhd) brings them together only by        *)
(* counting: cu_num_write is the number of store requests that have come   *)
(* minus the number of data words, and a load is let in only at zero.      *)
(*                                                                         *)
(* One step is one clock edge.  The memory is the one of the testbench     *)
(* (RTL/global_mem.vhd), always ready; when a unit shows its next request  *)
(* and when the responder acknowledges a load are inputs.                  *)
(***************************************************************************)
EXTENDS Integers, Sequences, FiniteSets, SequencesExt

CONSTANTS Programs,     \* the loads and stores of the two units
          FifoDepth,    \* of cu_gmem_fifo
          NReceivers,   \* of each unit (N_RECEIVERS_CU)
          None

CUs == {0, 1}

ASSUME ProgramsAssumption == Programs \subseteq [CUs -> Seq({"read", "write"})]
ASSUME SizesAssumption == FifoDepth \in Nat \ {0} /\ NReceivers \in Nat \ {0}
ASSUME NoneAssumption == None \notin Nat /\ None \notin [cu : CUs, n : Nat]

Rcvs == 0..NReceivers-1

VARIABLES
  program, issued,    \* what the units do, and how much of it they have shown
  rqst,               \* the request a unit shows (head of its doutQ, dout_wrQ)
  fifo_in, fifo,      \* the request fifos, with their input registers
  wrfifo_in, wrfifo,  \* the chain of data words, with its input registers
  cu_wrData_ltch,     \* the data word the controller took last cycle
  cu_num_write,       \* 4 bits
  rcv                 \* the receivers

vars == <<program, issued, rqst, fifo_in, fifo, wrfifo_in, wrfifo,
          cu_wrData_ltch, cu_num_write, rcv>>

Init ==
  /\ program \in Programs
  /\ issued = [i \in CUs |-> 0]
  /\ rqst = [i \in CUs |-> None]
  /\ fifo_in = [i \in CUs |-> None]
  /\ fifo = [i \in CUs |-> << >>]
  /\ wrfifo_in = [i \in CUs |-> None]
  /\ wrfifo = [i \in CUs |-> << >>]
  /\ cu_wrData_ltch = None
  /\ cu_num_write = [i \in CUs |-> 0]
  /\ rcv = [i \in CUs |-> [j \in Rcvs |-> "back"]]

IsRead(i, n) == program[i][n] = "read"
IsWrite(i, n) == program[i][n] = "write"

-----------------------------------------------------------------------------
(* A unit: it may show its next request when the last one was taken.       *)

fifo_full(i) == Len(fifo[i]) = FifoDepth
wrfifo_full(i) == Len(wrfifo[i]) = 2

Accepted(i) == /\ rqst[i] # None
               /\ ~fifo_full(i)
               /\ IsWrite(i, rqst[i]) => ~wrfifo_full(i)
WriteAccepted(i) == Accepted(i) /\ IsWrite(i, rqst[i])

Show(show) ==
  LET shows(i) == i \in show /\ issued[i] < Len(program[i]) /\ (rqst[i] = None \/ Accepted(i))
  IN /\ issued' = [i \in CUs |-> IF shows(i) THEN issued[i] + 1 ELSE issued[i]]
     /\ rqst' = [i \in CUs |-> IF shows(i) THEN issued[i] + 1
                               ELSE IF Accepted(i) THEN None ELSE rqst[i]]

-----------------------------------------------------------------------------
(* The controller *)

rcv_idle(i, j) == rcv[i][j] \in {"idle", "go"}
Free(i) == {j \in Rcvs : rcv[i][j] = "idle"}

\* fault: a load does not wait for the stores before it
cu_readyUncounted(i) == Free(i) # {}

cu_ready(i) == Free(i) # {} /\ cu_num_write[i] = 0

Valid(i) == fifo[i] # << >>
ReadTaken(i) == Valid(i) /\ IsRead(i, Head(fifo[i])) /\ cu_ready(i)
WriteTaken(i) == Valid(i) /\ IsWrite(i, Head(fifo[i]))
fifo_deq(i) == ReadTaken(i) \/ WriteTaken(i)

\* fault: data is taken whatever loads are under way
cu_wreadyAlways == TRUE

\* data is taken while no load of its unit is under way
cu_wready == LET i == Head(wrfifo[1]).cu IN \A j \in Rcvs : rcv_idle(i, j)
DataTaken == wrfifo[1] # << >> /\ cu_wready

LatchData == cu_wrData_ltch' = IF DataTaken THEN Head(wrfifo[1]) ELSE None

Latched(i) == cu_wrData_ltch # None /\ cu_wrData_ltch.cu = i

\* fault: the counter has more than its bits
CountWide ==
  cu_num_write' = [i \in CUs |-> cu_num_write[i] + (IF WriteTaken(i) THEN 1 ELSE 0)
                                                 - (IF Latched(i) THEN 1 ELSE 0)]

Count ==
  cu_num_write' = [i \in CUs |-> (cu_num_write[i] + (IF WriteTaken(i) THEN 1 ELSE 0)
                                                  - (IF Latched(i) THEN 1 ELSE 0)) % 16]

MaxOf(s) == CHOOSE j \in s : \A k \in s : k <= j

(* rcv_idle falls two cycles after a load is taken and rises two after it   *)
(* was acknowledged.                                                        *)
Receiver(i, acks) ==
  [j \in Rcvs |->
     CASE rcv[i][j] = "back" -> "idle"
       [] rcv[i][j] = "idle" -> IF ReadTaken(i) /\ j = MaxOf(Free(i)) THEN "go" ELSE "idle"
       [] rcv[i][j] = "go"   -> "read"
       [] rcv[i][j] = "read" -> IF j = acks[i] THEN "back" ELSE "read"]

Receivers(acks) == rcv' = [i \in CUs |-> Receiver(i, acks)]

-----------------------------------------------------------------------------
(* The fifos between *)

In(x) == IF x = None THEN << >> ELSE <<x>>

RequestFifos ==
  /\ fifo_in' = [i \in CUs |-> IF fifo_full(i) THEN fifo_in[i]
                               ELSE IF Accepted(i) THEN rqst[i] ELSE None]
  /\ fifo' = [i \in CUs |-> (IF fifo_deq(i) THEN Tail(fifo[i]) ELSE fifo[i])
                              \o (IF fifo_full(i) THEN << >> ELSE In(fifo_in[i]))]

Word(i) == [cu |-> i, n |-> rqst[i]]

\* fault: a word of unit 0 moves on although unit 1 puts in one of its own
wrfifo_deqUnguarded(k) == IF k = 1 THEN DataTaken ELSE wrfifo[0] # << >> /\ ~wrfifo_full(1)

\* unit 1 comes first: the word of unit 0 waits
wrfifo_deq(k) == IF k = 1 THEN DataTaken
                 ELSE wrfifo[0] # << >> /\ ~wrfifo_full(1) /\ ~WriteAccepted(1)

NextWord(k) == IF WriteAccepted(k) THEN Word(k)
               ELSE IF k = 1 /\ wrfifo[0] # << >> THEN Head(wrfifo[0])
               ELSE None

DataChain ==
  /\ wrfifo_in' = [k \in CUs |-> IF wrfifo_full(k) THEN wrfifo_in[k] ELSE NextWord(k)]
  /\ wrfifo' = [k \in CUs |-> (IF wrfifo_deq(k) THEN Tail(wrfifo[k]) ELSE wrfifo[k])
                                \o (IF wrfifo_full(k) THEN << >> ELSE In(wrfifo_in[k]))]

-----------------------------------------------------------------------------
Clock(show, acks) ==
  /\ Show(show) /\ RequestFifos /\ DataChain
  /\ LatchData /\ Count /\ Receivers(acks)
  /\ UNCHANGED program

\* the responder acknowledges at most one load of each unit in a cycle
Acks == {acks \in [CUs -> Rcvs \cup {None}] :
           \A i \in CUs : acks[i] # None => rcv[i][acks[i]] = "read"}

Next == \E show \in SUBSET CUs, acks \in Acks : Clock(show, acks)

Spec == Init /\ [][Next]_vars

-----------------------------------------------------------------------------
(* Properties *)

Numbers(i) == 1..Len(program[i])
Words == [cu : CUs, n : Nat]

TypeOK ==
  /\ program \in Programs
  /\ \A i \in CUs :
       /\ issued[i] \in 0..Len(program[i])
       /\ rqst[i] \in Numbers(i) \cup {None}
       /\ fifo_in[i] \in Numbers(i) \cup {None}
       /\ fifo[i] \in Seq(Numbers(i)) /\ Len(fifo[i]) <= FifoDepth
       /\ wrfifo_in[i] \in Words \cup {None}
       /\ wrfifo[i] \in Seq(Words) /\ Len(wrfifo[i]) <= 2
       /\ cu_num_write[i] \in 0..15
       /\ rcv[i] \in [Rcvs -> {"idle", "go", "read", "back"}]
  /\ cu_wrData_ltch \in Words \cup {None}

\* the data words on their way, oldest first, through fifo 1 last
Stage(k) == wrfifo[k] \o In(wrfifo_in[k])
Chain == Stage(1) \o Stage(0)

\* of the three places of a fifo with its register, those with a word of unit i
WordAt(i, q, j) == IF j <= Len(q) /\ q[j].cu = i THEN <<q[j]>> ELSE << >>
WordsOf(i, q) == WordAt(i, q, 1) \o WordAt(i, q, 2) \o WordAt(i, q, 3)
Underway(i) == WordsOf(i, Stage(1)) \o WordsOf(i, Stage(0))

\* A load is let into the controller only when the data of every store its
\* unit made before it has been taken: the count alone, with both kinds of
\* event coming in any order, never lets a load overtake a store.
ReadsAfterWrites ==
  \A i \in CUs : ReadTaken(i) =>
    \A k \in 1..Len(Chain) : Chain[k].cu = i => Chain[k].n > Head(fifo[i])

Stores(i) == INSTANCE InOrderQueue
               WITH Data <- Words, Depth <- 6, queue <- Underway(i)

\* Although both units put words into one chain, each store's data reaches the
\* controller once and in its unit's order.
DataInOrder ==
  [][\A i \in CUs :
       Stores(i)!Step(WriteAccepted(i), DataTaken /\ Head(wrfifo[1]).cu = i, Word(i))]_vars

(* The clock does not stop, a unit shows its next request some time, and    *)
(* the responder acknowledges every load.                                   *)
FairSpec ==
  /\ Spec /\ WF_vars(Next)
  /\ \A i \in CUs : /\ []<>(rqst[i] # None \/ issued[i] = Len(program[i]))
                    /\ \A j \in Rcvs : []<>(rcv[i][j] # "read")

Taken(i) == /\ issued[i] = Len(program[i])
            /\ rqst[i] = None /\ fifo_in[i] = None /\ fifo[i] = << >>
            /\ Underway(i) = << >>

\* Every load and store gets into the controller: none waits for ever behind a
\* count that a request behind it would have to bring back to zero.
EverythingTaken == \A i \in CUs : <>Taken(i)

\* the data of a store has been taken, and its request waits behind a load
DataAhead(i) ==
  LET q == fifo[i] \o In(fifo_in[i])
  IN /\ q # << >> /\ IsRead(i, Head(q))
     /\ \E n \in ToSet(q) : IsWrite(i, n) /\ \A w \in ToSet(Underway(i)) : w.n # n

OneLoadBetween(i) ==
  \A m, n \in DOMAIN program[i] :
    IsWrite(i, m) /\ IsWrite(i, n) => Cardinality({k \in m..n : IsRead(i, k)}) <= 1

\* Only one thing stops a unit for ever: a load stays at the head of its queue,
\* whose count is off zero by the data of a store behind it.  Full fifos, busy
\* receivers and the words of the other unit in front do not, even when the other
\* unit is stopped.  And it stops no unit with at most one load from its first
\* store to its last: that load is let in when the count comes down to zero,
\* before the data of the stores behind it counts.
OnlyDataAheadStops ==
  \A i \in CUs : \/ <>Taken(i)
                 \/ ~OneLoadBetween(i) /\ <>[](cu_num_write[i] # 0 /\ DataAhead(i))
=============================================================================
