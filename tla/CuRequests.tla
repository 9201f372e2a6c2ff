----------------------------- MODULE CuRequests ------------------------------
(***************************************************************************)
(* The request side of a compute unit's memory controller                  *)
(* (RTL/CU_mem_cntrl.vhd): from the vector unit's accesses to requests for *)
(* cache lines.                                                            *)
(*                                                                         *)
(* An access comes as a batch: an address for every lane, all to be read   *)
(* or all to be written.  st_fill puts a batch into the lanes' buffers,    *)
(* its lower half first.  st_cv_side asks for each line of a load once,    *)
(* and not at all for the line it asked for last; it writes a line with    *)
(* the stores to it that it sees.                                          *)
(*                                                                         *)
(* An address is its line.  (The lines of stores are halves of the lines   *)
(* of loads; here a line has one half.)  Stores of vectors are left out.   *)
(* One step is one clock edge.  Batches that come, the queue of loads      *)
(* being almost full, gmem_ready and the global barrier are inputs.        *)
(***************************************************************************)
EXTENDS Naturals, Sequences, FiniteSets

CONSTANTS CV_SIZE,    \* half the lanes
          Lines,
          Programs,   \* the batches that come, in order
          None        \* no line

ASSUME CVSizeAssumption == CV_SIZE \in Nat \ {0}
ASSUME LinesAssumption == Lines # {} /\ None \notin Lines

Lanes == 0..2*CV_SIZE-1
Lower == 0..CV_SIZE-1
Upper == Lanes \ Lower

\* a load or a store, of vectors or of words, for the lanes en
Batches == [re : BOOLEAN, simd : BOOLEAN, en : SUBSET Lanes, line : [Lanes -> Lines]]

ASSUME ProgramsAssumption ==
  \A p \in Programs : p \in Seq(Batches) /\ \A b \in DOMAIN p : p[b].simd => p[b].re

VARIABLES
  program, issued,  \* the batches, and how many have come
  taken,            \* how many have left rqstQ
  st_fill,
  buf,              \* a fifo2 for each lane; an entry is the place of its batch
  st_cv_side,
  nserved,          \* lanes of a load not yet served
  mem_rqsts_valid, slctd, rnw,  \* the access selected: mem_rqsts_slctd_addr, _rnw
  slctd3, last_rd_addr_v,       \* the line asked for last: mem_rqsts_slctd_addr3
  match,            \* lane and batch of the stores in mem_rqsts_match and wrData
  doutQ,            \* requests to the memory controller
  dout_wrQ,         \* the stores of the write requests
  sent,             \* history: stores put into dout_wrQ
  fresh,            \* history: the line asked for last, if nothing was written since
  behind            \* history: a batch has come while a store was on its way

rqstVars == <<program, issued, taken, st_fill, buf>>
cvVars   == <<st_cv_side, nserved, mem_rqsts_valid, slctd, rnw, slctd3, last_rd_addr_v, match>>
outVars  == <<doutQ, dout_wrQ, sent, fresh, behind>>
vars     == <<rqstVars, cvVars, outVars>>

\* the line of address 0
Line0 == CHOOSE l \in Lines : TRUE

\* what the registers of a buffer hold before anything came
Zero == [re |-> FALSE, simd |-> FALSE, en |-> {}, line |-> [i \in Lanes |-> Line0]]
Batch(b) == IF b = 0 THEN Zero ELSE program[b]

Init ==
  /\ program \in Programs
  /\ issued = 0 /\ taken = 0
  /\ st_fill = "fill_buf0"
  /\ buf = [i \in Lanes |-> [dout |-> 0, fifo |-> 0, count |-> 0]]
  /\ st_cv_side = "get_addr"
  /\ nserved = {} /\ match = {}
  /\ mem_rqsts_valid = FALSE /\ slctd = Line0 /\ rnw = TRUE
  /\ slctd3 = Line0 /\ last_rd_addr_v = FALSE
  /\ doutQ = << >> /\ dout_wrQ = << >>
  /\ sent = {} /\ fresh = None /\ behind = FALSE

-----------------------------------------------------------------------------
(* The lanes' buffers *)

AluEn(i) == i \in Batch(buf[i].dout).en
Line(i) == Batch(buf[i].dout).line[i]
Re(i) == Batch(buf[i].dout).re
Empty(i) == buf[i].count = 0
Full(i) == buf[i].count = 2

\* one edge of a fifo2, whatever its user does: a word that comes while an
\* empty one is told to give is not counted
Fifo2Edge(f, enq, deq, din) ==
  [dout  |-> IF enq /\ (f.count = 0 \/ deq) THEN din
             ELSE IF ~enq /\ deq THEN f.fifo ELSE f.dout,
   fifo  |-> IF enq /\ f.count # 0 /\ ~deq THEN din ELSE f.fifo,
   count |-> IF deq /\ ~enq /\ f.count # 0 THEN f.count - 1
             ELSE IF enq /\ ~deq /\ f.count # 2 THEN f.count + 1 ELSE f.count]

-----------------------------------------------------------------------------
(* rqstQ and st_fill *)

Waiting == taken < issued
Oldest == program[taken + 1]

\* the lanes that get an entry of the oldest batch
Filled(almfull) ==
  CASE st_fill = "fill_buf0" /\ Waiting /\ ~almfull /\ \A i \in Lower : ~Full(i) -> Lower
    [] st_fill = "fill_buf1" /\ \A i \in Upper : ~Full(i) -> Upper
    [] OTHER -> {}

Fill(push, almfull) ==
  /\ issued' = IF push THEN issued + 1 ELSE issued
  /\ taken' = IF Filled(almfull) = Upper THEN taken + 1 ELSE taken
  /\ st_fill' = CASE Filled(almfull) = Lower -> "fill_buf1"
                  [] Filled(almfull) = Upper -> "fill_buf0"
                  [] OTHER -> st_fill
  /\ UNCHANGED program

-----------------------------------------------------------------------------
(* st_cv_side *)

\* fault: one request too many
doutQ_fullLate == Len(doutQ) = 3

doutQ_full == Len(doutQ) = 2
dout_wrQ_full == Len(dout_wrQ) = 2

OfLine(i) == AluEn(i) /\ Line(i) = slctd

Stores == {i \in Lanes : ~Empty(i) /\ ~Re(i) /\ AluEn(i)}

\* the lanes whose entry is taken out: in send_wr_rqst also that of a lane whose
\* register says it is not enabled, be it empty or showing a load
buf_deq ==
  CASE st_cv_side = "send_rd_rqst" /\ ~doutQ_full -> {i \in nserved : ~AluEn(i) \/ OfLine(i)}
    [] st_cv_side = "send_wr_rqst" -> {i \in Stores : OfLine(i)} \cup {i \in Lanes : ~AluEn(i)}
    [] OTHER -> {}

\* a request for a load, unless it is for the line asked for last
AskFor == /\ st_cv_side = "send_rd_rqst" /\ ~doutQ_full
          /\ mem_rqsts_valid /\ ~(last_rd_addr_v /\ slctd = slctd3)

SendWr == st_cv_side = "get_wr_addr" /\ ~doutQ_full /\ ~dout_wrQ_full

First(s) == CHOOSE i \in s : \A j \in s : i <= j

\* select the access of the first of some lanes
SelectFrom(s) == /\ mem_rqsts_valid' = (s # {})
                 /\ slctd' = IF s = {} THEN slctd ELSE Line(First(s))

GetAddr ==
  /\ st_cv_side = "get_addr"
  /\ LET s == {i \in Lanes : ~Empty(i) /\ AluEn(i) /\ (nserved = {} \/ i \in nserved)}
     IN SelectFrom(s) /\ rnw' = IF s = {} THEN rnw ELSE Re(First(s))
  /\ IF nserved # {} \/ \A i \in Lanes : ~Empty(i)
     THEN IF nserved # {} \/ Re(0)
          THEN /\ st_cv_side' = "send_rd_rqst"
               /\ nserved' = IF nserved = {} THEN Lanes ELSE nserved
          ELSE st_cv_side' = "send_wr_rqst" /\ UNCHANGED nserved
     ELSE UNCHANGED <<st_cv_side, nserved>>
  /\ UNCHANGED <<slctd3, match>>

SendRead ==
  /\ st_cv_side = "send_rd_rqst"
  /\ IF doutQ_full THEN UNCHANGED <<st_cv_side, nserved>>
     ELSE st_cv_side' = "get_addr" /\ nserved' = nserved \ buf_deq
  /\ slctd3' = IF AskFor THEN slctd ELSE slctd3
  /\ UNCHANGED <<mem_rqsts_valid, slctd, rnw, match>>

SendWrite ==
  /\ st_cv_side = "send_wr_rqst"
  /\ match' = {<<i, buf[i].dout>> : i \in {j \in Stores : OfLine(j)}}
  /\ st_cv_side' = IF mem_rqsts_valid THEN "get_wr_addr" ELSE "get_addr"
  /\ UNCHANGED <<nserved, mem_rqsts_valid, slctd, rnw, slctd3>>

GetWriteAddr ==
  /\ st_cv_side = "get_wr_addr"
  /\ IF SendWr
     THEN /\ SelectFrom(Stores)
          /\ rnw' = IF Stores = {} THEN rnw ELSE FALSE
          /\ st_cv_side' = "send_wr_rqst"
     ELSE UNCHANGED <<mem_rqsts_valid, slctd, rnw, st_cv_side>>
  /\ UNCHANGED <<nserved, slctd3, match>>

\* fault: the line asked for last is not forgotten when a write begins
LastAskedKept(gsync) ==
  last_rd_addr_v' = IF gsync \/ (Waiting /\ ~Oldest.re) THEN FALSE
                    ELSE AskFor \/ last_rd_addr_v


LastAsked(gsync) ==
  last_rd_addr_v' =
    IF \/ gsync
       \/ Waiting /\ ~Oldest.re
       \/ st_cv_side = "get_addr" /\ st_cv_side' = "send_wr_rqst" THEN FALSE
    ELSE AskFor \/ last_rd_addr_v

-----------------------------------------------------------------------------
(* The queues to the memory controller *)

doutQ_deq(ready) == ready /\ doutQ # << >>

\* fault: a load takes the data of a store with it
dout_wrQ_deqAny(ready) == doutQ_deq(ready) /\ dout_wrQ # << >>

dout_wrQ_deq(ready) == doutQ_deq(ready) /\ ~Head(doutQ).rnw /\ dout_wrQ # << >>

Requests(ready, gsync) ==
  /\ doutQ' = (IF doutQ_deq(ready) THEN Tail(doutQ) ELSE doutQ)
                \o (IF AskFor \/ SendWr THEN <<[line |-> slctd, rnw |-> rnw]>> ELSE << >>)
  /\ dout_wrQ' = (IF dout_wrQ_deq(ready) THEN Tail(dout_wrQ) ELSE dout_wrQ)
                   \o (IF SendWr THEN <<match>> ELSE << >>)
  /\ sent' = IF SendWr THEN sent \cup match ELSE sent
  /\ fresh' = IF AskFor /\ rnw THEN slctd
              ELSE IF gsync \/ SendWr \/ AskFor THEN None ELSE fresh

-----------------------------------------------------------------------------
\* the last batch is a store that is still in rqstQ, in the buffers or selected
StoreOnItsWay ==
  /\ issued # 0 /\ ~program[issued].re
  /\ Waiting \/ st_cv_side # "get_addr" \/ \E i \in Lanes : ~Empty(i)

Clock(push, almfull, ready, gsync) ==
  /\ Fill(push, almfull)
  /\ buf' = [i \in Lanes |-> Fifo2Edge(buf[i], i \in Filled(almfull), i \in buf_deq, taken + 1)]
  /\ GetAddr \/ SendRead \/ SendWrite \/ GetWriteAddr
  /\ LastAsked(gsync)
  /\ Requests(ready, gsync)
  /\ behind' = (behind \/ (push /\ StoreOnItsWay))

\* A store is over when its last batch has left rqstQ, and a wavefront at the
\* barrier brings no batch.  (When a load is over is up to the return side.)
Inputs(push, gsync) ==
  /\ push => issued < Len(program)
  /\ gsync => ~Waiting /\ ~push

Next == \E push, almfull, ready, gsync \in BOOLEAN :
          Inputs(push, gsync) /\ Clock(push, almfull, ready, gsync)

Spec == Init /\ [][Next]_vars

-----------------------------------------------------------------------------
(* Properties *)

Places == 0..Len(program)
Slots == Lanes \X (1..Len(program))

TypeOK ==
  /\ program \in Programs
  /\ issued \in Places /\ taken \in 0..issued
  /\ st_fill \in {"fill_buf0", "fill_buf1"}
  /\ buf \in [Lanes -> [dout : Places, fifo : Places, count : 0..2]]
  /\ st_cv_side \in {"get_addr", "send_rd_rqst", "send_wr_rqst", "get_wr_addr"}
  /\ nserved \subseteq Lanes
  /\ mem_rqsts_valid \in BOOLEAN /\ slctd \in Lines /\ rnw \in BOOLEAN
  /\ slctd3 \in Lines /\ last_rd_addr_v \in BOOLEAN
  /\ match \subseteq Slots /\ sent \subseteq Slots
  /\ doutQ \in Seq([line : Lines, rnw : BOOLEAN]) /\ Len(doutQ) <= 2
  /\ dout_wrQ \in Seq(SUBSET Slots) /\ Len(dout_wrQ) <= 2
  /\ fresh \in Lines \cup {None} /\ behind \in BOOLEAN

Inside(i) == CASE buf[i].count = 0 -> {}
               [] buf[i].count = 1 -> {buf[i].dout}
               [] OTHER            -> {buf[i].dout, buf[i].fifo}

\* the stores that went into the buffers, and where they are now
StoresIn ==
  {s \in Slots : /\ ~program[s[2]].re /\ s[1] \in program[s[2]].en
                 /\ \/ s[2] <= taken
                    \/ s[2] = taken + 1 /\ st_fill = "fill_buf1" /\ s[1] \in Lower}
Buffered == {s \in StoresIn : s[2] \in Inside(s[1])}
Selected == IF st_cv_side = "get_wr_addr" THEN match ELSE {}

\* Every store that went into a lane's buffer is still in it, or selected for the
\* next write request, or was sent, and only one of these: grouping the stores to
\* a line drops and repeats none.
StoresSentOnce ==
  /\ StoresIn = Buffered \cup Selected \cup sent
  /\ Buffered \cap sent = {} /\ Buffered \cap Selected = {} /\ Selected \cap sent = {}

\* how many of the first k requests that wait are writes
Writes(k) == Cardinality({j \in 1..k : ~doutQ[j].rnw})

\* The data that waits is that of the write requests that wait, in their order,
\* although the selection has moved on when a request is sent and the two queues
\* are emptied by different conditions: as long as no batch came behind a store.
DataOfItsRequest ==
  behind \/ /\ Len(dout_wrQ) = Writes(Len(doutQ))
            /\ \A k \in DOMAIN doutQ :
                 ~doutQ[k].rnw => \A s \in dout_wrQ[Writes(k)] :
                                    program[s[2]].line[s[1]] = doutQ[k].line

\* A lane's load is done with only when its line was the last one asked for, with
\* no write and no barrier between: the saved request for a line never stands for
\* what the line was before a store, as long as no batch came behind a store.
\* (The barrier may come at the very edge: the load has been served by then.)
EveryLoadAsked ==
  [][\A i \in buf_deq : ~behind /\ ~Empty(i) /\ AluEn(i) /\ Re(i)
                         => Line(i) \in {fresh, fresh'}]_vars
=============================================================================
