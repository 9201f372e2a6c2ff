-------------------------- MODULE LoadReturnProofs ---------------------------
(***************************************************************************)
(* Proofs about the memory controller of a compute unit: the request side  *)
(* (CuRequests) and the return side (LoadReturn), under LoadSpec.          *)
(*                                                                         *)
(* Request side.  What its registers hold (BaseInv) is so whatever comes.  *)
(* The rest is so as long as no batch came behind a store.  The place of a *)
(* batch in a lane's buffer is its number, so what a buffer holds follows  *)
(* from how many batches went in (Put) and how many came out (Out).  A     *)
(* load is served by all lanes before the next batch is looked at: the     *)
(* lanes in nserved are exactly one batch behind (ServeInv).  A store is   *)
(* the last batch that has come as long as it is written (StoreInv).  RInv *)
(* is all of this, and SelectInv and FreshInv tie the selected access and  *)
(* the line asked for last to it.                                          *)
(*                                                                         *)
(* Return side.  While a load is updated its findings are about the load   *)
(* at the head of metaQ and the two lines that are there (MatchInv), and   *)
(* its address is already in regFile_wrAddr (UpdatingInv).  A lane served  *)
(* by an earlier line has its data in regFile_wrData_i, for words, or in   *)
(* its register, for vectors (ServedInv).  In the second cycle of a write  *)
(* nothing moves (LatchInv).  LInv is all of this and the properties; it   *)
(* rests on BaseInv only.                                                  *)
(***************************************************************************)
EXTENDS LoadReturn, FiniteSetTheorems, SequenceTheorems, WellFoundedInduction, TLAPS

-----------------------------------------------------------------------------
(* The request side.  Every lane gets every batch, its place one above that  *)
(* of the batch before.                                                      *)

\* the last batch put into lane i, and the last one taken out of it
Put(i) == IF st_fill = "fill_buf1" /\ i \in Lower THEN taken + 1 ELSE taken
Out(i) == Put(i) - buf[i].count

FillInv == st_fill = "fill_buf1" => taken < issued

BaseInv == TypeOK /\ FillInv

BufInv ==
  \A i \in Lanes : /\ Out(i) >= 0
                   /\ buf[i].count >= 1 => buf[i].dout = Out(i) + 1
                   /\ buf[i].count = 2 => buf[i].fifo = Out(i) + 2

Writing == st_cv_side \in {"send_wr_rqst", "get_wr_addr"}

\* a load is served by all lanes before the next batch is looked at
ServeInv ==
  /\ st_cv_side = "send_rd_rqst" => nserved # {}
  /\ \A i \in nserved : ~Empty(i) /\ Re(i)
  /\ ~Writing => \A i, j \in Lanes : /\ (i \in nserved <=> j \in nserved) => Out(i) = Out(j)
                                     /\ i \in nserved /\ j \notin nserved => Out(j) = Out(i) + 1

\* a store is the last batch that has come, and all of it is in the lanes
StoreInv ==
  /\ Writing => /\ nserved = {} /\ ~last_rd_addr_v
                /\ st_fill = "fill_buf0" /\ taken = issued /\ issued # 0 /\ ~program[issued].re
                /\ \A i \in Lanes : Out(i) \in {issued - 1, issued}
  /\ \A b \in 1..issued : b < issued /\ ~program[b].re => \A i \in Lanes : Out(i) >= b

\* what has been selected
SelectInv ==
  /\ st_cv_side = "send_rd_rqst" =>
       /\ \A i \in nserved : AluEn(i) => mem_rqsts_valid
       /\ mem_rqsts_valid => rnw
  /\ st_cv_side = "send_wr_rqst" => IF mem_rqsts_valid THEN ~rnw ELSE Stores = {}
  /\ st_cv_side = "get_wr_addr" =>
       /\ ~rnw
       /\ \A s \in match : program[s[2]].line[s[1]] = slctd

FreshInv == last_rd_addr_v => fresh = slctd3

RInv == /\ ~behind /\ TypeOK /\ FillInv
        /\ BufInv /\ ServeInv /\ StoreInv /\ SelectInv /\ FreshInv /\ DataOfItsRequest

CuInv == BaseInv /\ (behind \/ RInv)

-----------------------------------------------------------------------------
(* The return side *)

\* room in metaQ for the loads on their way
MetaInv == Len(metaQ) + Len(metaQ_enq) <= IF st_fill = "fill_buf1" THEN MetaAlmFull
                                                                  ELSE MetaAlmFull + 1

Updating == st_regFile_int \in {"update", "update_simd"}

\* the lanes found to match the kept line and the next one
MatchInv ==
  /\ metaQ = << >> => write_back = {} /\ data_received = {} /\ data_serverd = {}
  /\ \A i \in write_back : i \in Meta.en /\ i \notin data_serverd /\ Meta.line[i] = ltch.line
  /\ \A i \in data_received : dataQ_valid /\ Meta.line[i] = dataQ_rdData.line
  /\ 0 \in write_back_simd => write_back # {}
  /\ 1 \in write_back_simd => data_received # {}

UpdatingInv ==
  Updating => /\ metaQ # << >> /\ regFile_wrAddr = Head(metaQ)
              /\ Lanes \ Meta.en \subseteq data_serverd
              /\ st_regFile_int = "update_simd" <=> Meta.simd
              /\ Meta.simd => /\ write_back # {} => 0 \in write_back_simd
                              /\ data_received # {} => 1 \in write_back_simd

\* what the lanes served hold
ServedInv ==
  metaQ # << >> =>
    \A i \in data_serverd \cap Meta.en :
      IF Meta.simd
      THEN \/ <<i, Head(metaQ)>> \in got
           \/ i \in regFile_we /\ mem_regFile_wrAddr_d0 = Head(metaQ)
      ELSE regFile_wrData_i[i].line = Meta.line[i]

LatchInv ==
  regFile_we_latch => /\ st_regFile_int = "compare_addr"
                      /\ write_back = {} /\ data_received = {} /\ write_back_simd = {}
                      /\ regFile_wrAddr = mem_regFile_wrAddr_d0

\* the registers of a load that left metaQ are written now at the latest
LeftInv ==
  \A b \in (1..taken) \ Queued :
    program[b].re => \A i \in program[b].en :
                        \/ <<i, b>> \in got
                        \/ i \in regFile_we /\ b = mem_regFile_wrAddr_d0

WeInv == regFile_we # {} => mem_regFile_wrAddr_d0 \in 1..Len(program)

\* what cntrl_idle overlooks is there for one cycle
IdleInv ==
  cntrl_idle => /\ metaQ_enq = << >>
                /\ Selected # {} /\ doutQ = << >> => dout_wrQ_full

LInv == /\ LoadTypeOK /\ MetaInv /\ MatchInv /\ UpdatingInv /\ ServedInv /\ LatchInv /\ LeftInv
        /\ WeInv /\ LanesGetTheirLine /\ IdleInv

-----------------------------------------------------------------------------
(* Batches and lanes *)

LEMMA LaneSets == /\ Lanes \subseteq Nat /\ Lower \subseteq Lanes /\ Upper \subseteq Lanes
                  /\ Lower \cap Upper = {} /\ Lower \cup Upper = Lanes
                  /\ 0 \in Lower /\ CV_SIZE \in Upper
BY CVSizeAssumption DEF Lanes, Lower, Upper

LEMMA FirstIn ==
  ASSUME NEW s \in SUBSET Lanes, s # {}
  PROVE  First(s) \in s
<1> DEFINE R == OpToRel(<, Nat)
<1>1. \E x \in s : \A y \in s : ~(<<y, x>> \in R)
  <2>1. IsWellFoundedOn(R, Nat) /\ s \subseteq Nat
    BY NatLessThanWellFounded, LaneSets
  <2> HIDE DEF R
  <2> QED
    BY <2>1, WFMin
<1>2. \A x, y \in Nat : <<y, x>> \in R <=> y < x
  BY DEF OpToRel
<1> HIDE DEF R
<1>3. \E x \in s : \A y \in s : x <= y
  <2>1. \A x, y \in Nat : ~(y < x) => x <= y
    OBVIOUS
  <2> QED
    BY <1>1, <1>2, <2>1, LaneSets
<1> QED
  BY <1>3 DEF First

LEMMA BatchTypes ==
  ASSUME TypeOK
  PROVE  /\ Line0 \in Lines /\ program \in Programs /\ Len(program) \in Nat
         /\ \A b \in 1..Len(program) : program[b] \in Batches
         /\ \A b \in Places : Batch(b) \in Batches
<1>1. Line0 \in Lines
  BY LinesAssumption DEF Line0
<1>2. program \in Seq(Batches) /\ program \in Programs
  BY ProgramsAssumption DEF TypeOK
<1>3. Len(program) \in Nat /\ \A b \in 1..Len(program) : program[b] \in Batches
  BY <1>2, LenProperties, ElementOfSeq
<1>4. Zero \in Batches
  BY <1>1 DEF Zero, Batches
<1>5. \A b \in Places : Batch(b) \in Batches
  BY <1>3, <1>4 DEF Batch, Places
<1> QED
  BY <1>1, <1>2, <1>3, <1>5

LEMMA LaneTypes ==
  ASSUME TypeOK, NEW i \in Lanes
  PROVE  /\ buf[i].dout \in Places /\ buf[i].fifo \in Places /\ buf[i].count \in 0..2
         /\ buf[i] = [dout |-> buf[i].dout, fifo |-> buf[i].fifo, count |-> buf[i].count]
         /\ Line(i) \in Lines
         /\ (AluEn(i) => buf[i].dout \in 1..Len(program)
                         /\ Line(i) = program[buf[i].dout].line[i]
                         /\ i \in program[buf[i].dout].en)
<1>1. buf[i] \in [dout : Places, fifo : Places, count : 0..2]
  BY DEF TypeOK
<1>2. Batch(buf[i].dout) \in Batches
  BY <1>1, BatchTypes
<1>3. Line(i) \in Lines
  BY <1>2 DEF Line, Batches
<1>4. AluEn(i) => buf[i].dout # 0
  BY DEF AluEn, Batch, Zero
<1>5. buf[i].dout # 0 => buf[i].dout \in 1..Len(program)
  BY <1>1, BatchTypes DEF Places
<1> QED
  BY <1>1, <1>3, <1>4, <1>5 DEF Line, AluEn, Batch

\* one clock edge of the request side, with its inputs
ClockEdge(push, almfull, ready, gsync) ==
  /\ push \in BOOLEAN /\ almfull \in BOOLEAN /\ ready \in BOOLEAN /\ gsync \in BOOLEAN
  /\ Inputs(push, gsync) /\ Clock(push, almfull, ready, gsync)

\* and no batch comes behind a store
RqstEdge(push, almfull, ready, gsync) ==
  /\ push \in BOOLEAN /\ almfull \in BOOLEAN /\ ready \in BOOLEAN /\ gsync \in BOOLEAN
  /\ Inputs(push, gsync) /\ Clock(push, almfull, ready, gsync)
  /\ ~behind'

-----------------------------------------------------------------------------
(* rqstQ and the buffers *)

LEMMA FillTypes ==
  ASSUME TypeOK, FillInv, NEW push \in BOOLEAN, NEW almfull,
         push => issued < Len(program), Fill(push, almfull)
  PROVE  /\ issued \in Nat /\ taken \in Nat /\ Len(program) \in Nat
         /\ program' = program
         /\ issued' \in Places /\ issued' \in {issued, issued + 1} /\ taken' \in 0..issued'
         /\ st_fill' \in {"fill_buf0", "fill_buf1"}
         /\ FillInv'
         /\ Filled(almfull) \in {{}, Lower, Upper}
         /\ Filled(almfull) # {} => taken < issued /\ taken + 1 \in 1..Len(program)
         /\ \A i \in Filled(almfull) : ~Full(i)
<1>1. issued \in Nat /\ issued <= Len(program) /\ taken \in Nat /\ taken <= issued
      /\ Len(program) \in Nat
  BY BatchTypes DEF TypeOK, Places
<1>2. Lower # Upper /\ Lower # {} /\ Upper # {}
  BY LaneSets
<1>3. \/ /\ Filled(almfull) = Lower /\ st_fill = "fill_buf0" /\ taken < issued
         /\ \A i \in Lower : ~Full(i)
      \/ Filled(almfull) = Upper /\ st_fill = "fill_buf1" /\ \A i \in Upper : ~Full(i)
      \/ Filled(almfull) = {}
  BY DEF Filled, Waiting
<1>4. Filled(almfull) # {} => taken < issued
  BY <1>3 DEF FillInv
<1>5. program' = program
  BY DEF Fill
<1>6. issued' \in Places /\ issued' \in {issued, issued + 1}
  BY <1>1, <1>5 DEF Fill, Places
<1>7. taken' \in 0..issued'
  BY <1>1, <1>2, <1>4, <1>6 DEF Fill
<1>8. st_fill' = IF Filled(almfull) = Lower THEN "fill_buf1"
                 ELSE IF Filled(almfull) = Upper THEN "fill_buf0" ELSE st_fill
  BY <1>2 DEF Fill
<1>9. FillInv'
  <2>1. CASE Filled(almfull) = Lower
    BY <1>1, <1>2, <1>4, <1>6, <2>1 DEF Fill, FillInv
  <2>2. CASE Filled(almfull) = Upper
    BY <1>2, <1>8, <2>2 DEF FillInv
  <2>3. CASE Filled(almfull) = {}
    BY <1>1, <1>2, <1>6, <1>8, <2>3 DEF Fill, FillInv
  <2> QED
    BY <1>3, <2>1, <2>2, <2>3
<1> QED
  BY <1>1, <1>3, <1>4, <1>5, <1>6, <1>7, <1>8, <1>9 DEF TypeOK

LEMMA PutStep ==
  ASSUME TypeOK, FillInv, NEW push \in BOOLEAN, NEW almfull,
         push => issued < Len(program), Fill(push, almfull), NEW i \in Lanes
  PROVE  /\ Put(i) \in Nat /\ Put(i) <= issued /\ Put(i) \in {taken, taken + 1}
         /\ i \in Filled(almfull) => Put(i) = taken /\ Put(i)' = taken + 1
         /\ i \notin Filled(almfull) => Put(i)' = Put(i)
<1>1. issued \in Nat /\ taken \in Nat /\ taken <= issued /\ (st_fill = "fill_buf1" => taken < issued)
  BY FillTypes DEF FillInv, TypeOK, Places
<1>2. Lower # Upper /\ Lower # {} /\ Upper # {} /\ (i \in Lower <=> i \notin Upper)
  BY LaneSets
<1>3. CASE Filled(almfull) = Lower
  <2>1. st_fill = "fill_buf0" /\ st_fill' = "fill_buf1" /\ taken' = taken
    BY <1>2, <1>3 DEF Filled, Fill
  <2> QED
    BY <1>1, <1>3, <2>1 DEF Put
<1>4. CASE Filled(almfull) = Upper
  <2>1. st_fill = "fill_buf1" /\ st_fill' = "fill_buf0" /\ taken' = taken + 1
    BY <1>2, <1>4 DEF Filled, Fill
  <2> QED
    BY <1>1, <1>2, <1>4, <2>1 DEF Put
<1>5. CASE Filled(almfull) = {}
  <2>1. st_fill' = st_fill /\ taken' = taken
    BY <1>2, <1>5 DEF Fill
  <2> QED
    BY <1>1, <1>5, <2>1 DEF Put
<1> QED
  BY <1>3, <1>4, <1>5, FillTypes

\* a lane gives up an entry
Gives(i) == i \in buf_deq /\ ~Empty(i)

LEMMA Quiet ==
  ASSUME RInv, NEW almfull, Writing
  PROVE  Filled(almfull) = {}
<1>1. st_fill = "fill_buf0" /\ taken = issued
  BY DEF RInv, StoreInv
<1> QED
  BY <1>1, BatchTypes DEF Filled, Waiting, RInv, TypeOK, Places

LEMMA EmptyGetsNothing ==
  ASSUME RInv, NEW almfull, NEW i \in buf_deq, Empty(i)
  PROVE  i \notin Filled(almfull)
<1>1. CASE st_cv_side = "send_rd_rqst"
  <2>1. i \in nserved
    BY <1>1 DEF buf_deq
  <2> QED
    BY <2>1 DEF RInv, ServeInv
<1>2. CASE Writing
  BY <1>2, Quiet
<1>3. CASE st_cv_side = "get_addr"
  BY <1>3 DEF buf_deq
<1> QED
  BY <1>1, <1>2, <1>3 DEF RInv, TypeOK, Writing

LEMMA LaneStep ==
  ASSUME RInv, NEW push, NEW almfull, NEW ready, NEW gsync, RqstEdge(push, almfull, ready, gsync),
         NEW i \in Lanes
  PROVE  /\ buf'[i] \in [dout : Places, fifo : Places, count : 0..2]
         /\ Out(i) \in Nat /\ Out(i)' \in Nat
         /\ Out(i)' = IF Gives(i) THEN Out(i) + 1 ELSE Out(i)
         /\ buf'[i].count >= 1 => buf'[i].dout = Out(i)' + 1
         /\ buf'[i].count = 2 => buf'[i].fifo = Out(i)' + 2
         /\ i \notin Filled(almfull) => buf'[i].count = IF Gives(i) THEN buf[i].count - 1
                                                                    ELSE buf[i].count
         /\ ~Gives(i) /\ ~Empty(i) => buf'[i].count # 0 /\ buf'[i].dout = buf[i].dout
<1> DEFINE enq == i \in Filled(almfull)
           deq == i \in buf_deq
           w   == taken + 1
           f   == buf[i]
           g   == buf'[i]
<1>1. /\ f.dout \in Places /\ f.fifo \in Places /\ f.count \in 0..2
      /\ f = [dout |-> f.dout, fifo |-> f.fifo, count |-> f.count]
  BY LaneTypes DEF RInv
<1>2. /\ TypeOK /\ FillInv /\ push \in BOOLEAN /\ (push => issued < Len(program))
      /\ Fill(push, almfull)
  BY DEF RInv, RqstEdge, Inputs, Clock
<1>3. /\ taken \in Nat /\ w \in Nat /\ (enq => w \in Places) /\ Len(program) \in Nat
      /\ (enq => f.count # 2)
  BY <1>2, FillTypes DEF Places, Full
<1>4. deq /\ f.count = 0 => ~enq
  BY EmptyGetsNothing DEF Empty
<1>5. g = Fifo2Edge(f, enq, deq, w)
  BY DEF RqstEdge, Clock
<1>6. /\ Put(i) \in Nat /\ (enq => Put(i) = taken /\ Put(i)' = taken + 1)
      /\ (~enq => Put(i)' = Put(i))
  BY <1>2, PutStep
<1>7. /\ Out(i) = Put(i) - f.count /\ Out(i) >= 0 /\ (f.count >= 1 => f.dout = Out(i) + 1)
      /\ (f.count = 2 => f.fifo = Out(i) + 2)
  BY DEF Out, RInv, BufInv
<1>8. Out(i)' = Put(i)' - g.count
  BY DEF Out
<1>9. Gives(i) <=> deq /\ f.count # 0
  BY DEF Gives, Empty
<1>10. Places' = Places
  BY <1>2, FillTypes DEF Places
<1>11. enq \in BOOLEAN /\ deq \in BOOLEAN
  OBVIOUS
<1> HIDE DEF enq, deq, w, f, g
<1>12. /\ g.dout \in Places /\ g.fifo \in Places /\ g.count \in 0..2
       /\ g = [dout |-> g.dout, fifo |-> g.fifo, count |-> g.count]
       /\ g.count = f.count + (IF enq THEN 1 ELSE 0) - (IF deq /\ f.count # 0 THEN 1 ELSE 0)
       /\ f.count # 0 /\ ~deq => g.dout = f.dout
       /\ f.count # 0 /\ deq /\ g.count = 1 /\ f.count = 2 => g.dout = f.fifo
       /\ enq /\ g.count = 1 => g.dout = w
       /\ enq /\ g.count = 2 => g.fifo = w
       /\ ~enq /\ ~deq => g.fifo = f.fifo
       /\ ~enq /\ ~deq => g.dout = f.dout
  <2> DEFINE d == f.dout
             h == f.fifo
             n == f.count
  <2>1. g = Fifo2Edge([dout |-> d, fifo |-> h, count |-> n], enq, deq, w)
    BY <1>1, <1>5
  <2>2. d \in Places /\ h \in Places /\ n \in 0..2
    BY <1>1
  <2> HIDE DEF d, h, n
  <2>3. enq => n # 2
    BY <1>3 DEF n
  <2>4. deq /\ n = 0 => ~enq
    BY <1>4 DEF n
  <2> DEFINE e == Fifo2Edge([dout |-> d, fifo |-> h, count |-> n], enq, deq, w)
  <2>5. w \in Nat /\ (enq => w \in Places)
    BY <1>3
  <2>6. /\ e.dout \in Places /\ e.fifo \in Places /\ e.count \in 0..2
        /\ e = [dout |-> e.dout, fifo |-> e.fifo, count |-> e.count]
        /\ e.count = n + (IF enq THEN 1 ELSE 0) - (IF deq /\ n # 0 THEN 1 ELSE 0)
        /\ n # 0 /\ ~deq => e.dout = d
        /\ n # 0 /\ deq /\ e.count = 1 /\ n = 2 => e.dout = h
        /\ enq /\ e.count = 1 => e.dout = w
        /\ enq /\ e.count = 2 => e.fifo = w
        /\ ~enq /\ ~deq => e.fifo = h
        /\ ~enq /\ ~deq => e.dout = d
    BY <1>11, <2>2, <2>3, <2>4, <2>5 DEF e, Fifo2Edge
  <2> QED
    BY <2>1, <2>6 DEF d, h, n
<1>13. w = taken + 1
  BY DEF w
<1>14. Out(i)' = IF Gives(i) THEN Out(i) + 1 ELSE Out(i)
  BY <1>1, <1>3, <1>6, <1>7, <1>8, <1>9, <1>12
<1>15. Out(i) \in Nat
  BY <1>1, <1>6, <1>7
<1>16. g.count >= 1 => g.dout = Out(i)' + 1
  <2>1. CASE enq /\ deq
    BY <1>1, <1>3, <1>4, <1>6, <1>7, <1>9, <1>12, <1>13, <1>14, <1>15, <2>1
  <2>2. CASE enq /\ ~deq
    BY <1>1, <1>3, <1>6, <1>7, <1>9, <1>12, <1>13, <1>14, <1>15, <2>2
  <2>3. CASE ~enq
    BY <1>1, <1>6, <1>7, <1>9, <1>12, <1>14, <1>15, <2>3
  <2> QED
    BY <2>1, <2>2, <2>3
<1>17. g.count = 2 => g.fifo = Out(i)' + 2
  <2>1. CASE enq
    BY <1>1, <1>3, <1>4, <1>6, <1>7, <1>9, <1>12, <1>13, <1>14, <1>15, <2>1
  <2>2. CASE ~enq
    BY <1>1, <1>6, <1>7, <1>9, <1>12, <1>14, <1>15, <2>2
  <2> QED
    BY <2>1, <2>2
<1>18. ~enq => g.count = IF Gives(i) THEN f.count - 1 ELSE f.count
  BY <1>1, <1>9, <1>12
<1>19. ~Gives(i) /\ ~Empty(i) => g.count # 0 /\ g.dout = f.dout
  <2>1. Empty(i) <=> f.count = 0
    BY DEF Empty, f
  <2> QED
    BY <1>1, <1>9, <1>12, <2>1
<1>20. Out(i)' \in Nat
  BY <1>14, <1>15
<1> QED
  BY <1>12, <1>14, <1>15, <1>16, <1>17, <1>18, <1>19, <1>20 DEF enq, f, g

LEMMA Shown ==
  ASSUME RInv, NEW i \in Lanes, ~Empty(i)
  PROVE  /\ buf[i].dout = Out(i) + 1 /\ Out(i) + 1 \in 1..issued /\ Out(i) \in Nat
         /\ issued \in 1..Len(program)
         /\ Re(i) = program[Out(i) + 1].re /\ Line(i) = program[Out(i) + 1].line[i]
         /\ AluEn(i) <=> i \in program[Out(i) + 1].en
<1>1. buf[i].count \in {1, 2}
  <2>1. buf[i].count \in 0..2 /\ buf[i].count # 0
    BY LaneTypes DEF RInv, Empty
  <2> QED
    BY <2>1
<1>2. /\ issued \in Nat /\ taken \in Nat /\ taken <= issued /\ Len(program) \in Nat
      /\ (st_fill = "fill_buf1" => taken < issued) /\ issued <= Len(program)
  BY BatchTypes DEF RInv, FillInv, TypeOK, Places
<1>3. Put(i) \in Nat /\ Put(i) <= issued
  BY <1>2 DEF Put
<1>4. Out(i) \in Nat /\ buf[i].dout = Out(i) + 1 /\ Out(i) + 1 \in 1..issued
  <2>1. Out(i) >= 0 /\ (buf[i].count >= 1 => buf[i].dout = Out(i) + 1)
    BY DEF RInv, BufInv
  <2>2. Out(i) = Put(i) - buf[i].count
    BY DEF Out
  <2> QED
    BY <1>1, <1>2, <1>3, <2>1, <2>2
<1>5. Batch(buf[i].dout) = program[Out(i) + 1]
  BY <1>4 DEF Batch
<1> QED
  BY <1>2, <1>4, <1>5 DEF Re, Line, AluEn

LEMMA BufStep ==
  ASSUME RInv, NEW push, NEW almfull, NEW ready, NEW gsync, RqstEdge(push, almfull, ready, gsync)
  PROVE  /\ BufInv' /\ FillInv'
         /\ buf' \in [Lanes -> [dout : Places, fifo : Places, count : 0..2]]
         /\ program' = program /\ issued' \in Places /\ taken' \in 0..issued'
         /\ issued' \in {issued, issued + 1} /\ issued \in Nat
         /\ st_fill' \in {"fill_buf0", "fill_buf1"}
<1>1. /\ TypeOK /\ FillInv /\ push \in BOOLEAN /\ (push => issued < Len(program))
      /\ Fill(push, almfull)
  BY DEF RInv, RqstEdge, Inputs, Clock
<1>2. /\ FillInv' /\ program' = program /\ issued' \in Places /\ taken' \in 0..issued'
      /\ issued' \in {issued, issued + 1} /\ issued \in Nat
      /\ st_fill' \in {"fill_buf0", "fill_buf1"}
  BY <1>1, FillTypes
<1>3. BufInv'
  <2> SUFFICES ASSUME NEW i \in Lanes
               PROVE  /\ Out(i)' >= 0
                      /\ buf'[i].count >= 1 => buf'[i].dout = Out(i)' + 1
                      /\ buf'[i].count = 2 => buf'[i].fifo = Out(i)' + 2
    BY DEF BufInv
  <2> QED
    BY LaneStep
<1>4. buf' \in [Lanes -> [dout : Places, fifo : Places, count : 0..2]]
  <2>1. buf' = [i \in Lanes |-> buf'[i]]
    BY DEF RqstEdge, Clock
  <2> QED
    BY <2>1, LaneStep
<1> QED
  BY <1>2, <1>3, <1>4

\* what a lane shows stays, unless the lane gives it up
LEMMA ShownStays ==
  ASSUME RInv, NEW push, NEW almfull, NEW ready, NEW gsync, RqstEdge(push, almfull, ready, gsync),
         NEW i \in Lanes, ~Gives(i), ~Empty(i)
  PROVE  ~Empty(i)' /\ Re(i)' = Re(i) /\ AluEn(i)' = AluEn(i) /\ Line(i)' = Line(i)
<1>1. buf'[i].count # 0 /\ buf'[i].dout = buf[i].dout /\ program' = program
  BY LaneStep, BufStep
<1> QED
  BY <1>1 DEF Empty, Re, AluEn, Line, Batch, Zero

LEMMA WhatGives ==
  ASSUME RInv, NEW i \in Lanes
  PROVE  /\ st_cv_side \in {"get_addr", "get_wr_addr"} => ~Gives(i)
         /\ st_cv_side = "send_rd_rqst" =>
              /\ Gives(i) => ~doutQ_full /\ i \in nserved /\ (AluEn(i) => Line(i) = slctd)
              /\ ~doutQ_full /\ i \in nserved /\ ~AluEn(i) => Gives(i)
              /\ Gives(i) <=> i \in buf_deq
         /\ st_cv_side = "send_wr_rqst" =>
              (Gives(i) <=> ~Empty(i) /\ (AluEn(i) => ~Re(i) /\ Line(i) = slctd))
<1>1. CASE st_cv_side \in {"get_addr", "get_wr_addr"}
  BY <1>1 DEF Gives, buf_deq
<1>2. CASE st_cv_side = "send_rd_rqst"
  BY <1>2 DEF Gives, buf_deq, OfLine, RInv, ServeInv
<1>3. CASE st_cv_side = "send_wr_rqst"
  BY <1>3 DEF Gives, buf_deq, OfLine, Stores
<1> QED
  BY <1>1, <1>2, <1>3 DEF RInv, TypeOK

-----------------------------------------------------------------------------
(* st_cv_side *)

\* when a write begins
LEMMA WriteBegins ==
  ASSUME RInv, ~Writing, nserved = {}, \A i \in Lanes : ~Empty(i), ~Re(0)
  PROVE  /\ issued \in 1..Len(program) /\ taken = issued /\ st_fill = "fill_buf0"
         /\ ~program[issued].re
         /\ \A i \in Lanes : Out(i) = issued - 1 /\ ~Re(i)
<1>1. 0 \in Lanes /\ CV_SIZE \in Lanes /\ CV_SIZE \notin Lower
  BY LaneSets
<1>2. /\ issued \in 1..Len(program) /\ Out(0) + 1 \in 1..issued /\ ~program[Out(0) + 1].re
      /\ Out(0) \in Nat /\ Len(program) \in Nat
  BY <1>1, Shown, BatchTypes DEF RInv
<1>3. Out(0) + 1 = issued
  <2>1. ~(Out(0) + 1 < issued)
    BY <1>1, <1>2 DEF RInv, StoreInv
  <2> QED
    BY <1>2, <2>1
<1>4. ASSUME NEW i \in Lanes
      PROVE  Out(i) = issued - 1 /\ ~Re(i)
  <2>1. Out(i) = Out(0)
    BY <1>1 DEF RInv, ServeInv
  <2>2. Re(i) = program[Out(i) + 1].re
    BY Shown
  <2> QED
    BY <1>2, <1>3, <2>1, <2>2
<1>5. taken = issued
  <2>1. Put(CV_SIZE) = taken /\ Out(CV_SIZE) = issued - 1 /\ Out(CV_SIZE) = taken - buf[CV_SIZE].count
    BY <1>1, <1>4 DEF Put, Out
  <2>2. buf[CV_SIZE].count \in 0..2 /\ buf[CV_SIZE].count # 0
    BY <1>1, LaneTypes DEF RInv, Empty
  <2>3. taken \in Nat /\ taken <= issued
    BY <1>2 DEF RInv, TypeOK
  <2> QED
    BY <1>2, <2>1, <2>2, <2>3
<1>6. st_fill = "fill_buf0"
  BY <1>2, <1>5 DEF RInv, TypeOK, FillInv
<1> QED
  BY <1>2, <1>3, <1>4, <1>5, <1>6

\* while a store is on its way, no batch comes
LEMMA StoreAlone ==
  ASSUME RInv, NEW push, NEW almfull, NEW ready, NEW gsync, RqstEdge(push, almfull, ready, gsync),
         taken = issued, st_fill = "fill_buf0", issued # 0, ~program[issued].re,
         st_cv_side # "get_addr" \/ \E i \in Lanes : ~Empty(i)
  PROVE  /\ issued' = issued /\ taken' = taken /\ st_fill' = st_fill /\ Filled(almfull) = {}
<1>1. issued' = issued
  <2>1. StoreOnItsWay
    BY DEF StoreOnItsWay
  <2>2. ~push
    BY <2>1 DEF RqstEdge, Clock
  <2> QED
    BY <2>2 DEF RqstEdge, Clock, Fill
<1>2. Filled(almfull) = {}
  BY BatchTypes DEF Filled, Waiting, RInv, TypeOK, Places
<1>3. Lower # {} /\ Upper # {}
  BY LaneSets
<1> QED
  BY <1>1, <1>2, <1>3 DEF RqstEdge, Clock, Fill

LEMMA ServeStep ==
  ASSUME RInv, NEW push, NEW almfull, NEW ready, NEW gsync, RqstEdge(push, almfull, ready, gsync)
  PROVE  ServeInv' /\ nserved' \subseteq Lanes
<1> DEFINE Spread == \A i, j \in Lanes :
                       /\ (i \in nserved <=> j \in nserved) => Out(i) = Out(j)
                       /\ i \in nserved /\ j \notin nserved => Out(j) = Out(i) + 1
<1>0. nserved \subseteq Lanes /\ 0 \in Lanes
  BY LaneSets DEF RInv, TypeOK
<1>1. GetAddr \/ SendRead \/ SendWrite \/ GetWriteAddr
  BY DEF RqstEdge, Clock
<1>2. \A i \in Lanes : Out(i)' = IF Gives(i) THEN Out(i) + 1 ELSE Out(i)
  BY LaneStep
<1>3. \A i \in Lanes : ~Gives(i) /\ ~Empty(i) => ~Empty(i)' /\ Re(i)' = Re(i)
  BY ShownStays
<1>4. CASE GetAddr
  <2>1. \A i \in Lanes : ~Gives(i)
    BY <1>4, WhatGives DEF GetAddr
  <2>2. ~Writing
    BY <1>4 DEF GetAddr, Writing
  <2>3. CASE nserved # {}
    <3>1. nserved' = nserved /\ st_cv_side' = "send_rd_rqst"
      BY <1>4, <2>3 DEF GetAddr
    <3>2. Spread /\ \A i \in nserved : ~Empty(i) /\ Re(i)
      BY <2>2 DEF RInv, ServeInv
    <3>3. Spread'
      BY <1>2, <2>1, <3>1, <3>2
    <3> QED
      BY <1>0, <1>3, <2>1, <2>3, <3>1, <3>2, <3>3 DEF ServeInv
  <2>4. CASE nserved = {} /\ (\A i \in Lanes : ~Empty(i)) /\ Re(0)
    <3>1. nserved' = Lanes /\ st_cv_side' = "send_rd_rqst"
      BY <1>4, <2>4 DEF GetAddr
    <3>2. \A i, j \in Lanes : Out(i) = Out(j)
      BY <2>2, <2>4 DEF RInv, ServeInv
    <3>3. \A i \in Lanes : Re(i)
      BY <1>0, <2>4, <3>2, Shown
    <3>4. \A i, j \in Lanes : Out(i)' = Out(j)'
      BY <1>2, <2>1, <3>2
    <3> QED
      BY <1>0, <1>3, <2>1, <2>4, <3>1, <3>3, <3>4 DEF ServeInv
  <2>5. CASE nserved = {} /\ ~((\A i \in Lanes : ~Empty(i)) /\ Re(0))
    <3>1. nserved' = {} /\ st_cv_side' # "send_rd_rqst"
      BY <1>4, <2>5 DEF GetAddr
    <3>2. \A i, j \in Lanes : Out(i)' = Out(j)'
      BY <1>2, <2>1, <2>2, <2>5 DEF RInv, ServeInv
    <3> QED
      BY <3>1, <3>2 DEF ServeInv
  <2> QED
    BY <2>3, <2>4, <2>5
<1>5. CASE SendRead
  <2>1. st_cv_side = "send_rd_rqst" /\ ~Writing
    BY <1>5 DEF SendRead, Writing
  <2>2. Spread /\ \A i \in nserved : ~Empty(i) /\ Re(i)
    BY <2>1 DEF RInv, ServeInv
  <2>3. nserved # {}
    BY <2>1 DEF RInv, ServeInv
  <2>4. CASE doutQ_full
    <3>1. nserved' = nserved /\ \A i \in Lanes : ~Gives(i)
      BY <1>5, <2>1, <2>4, WhatGives DEF SendRead
    <3>2. Spread'
      BY <1>2, <2>2, <3>1
    <3> QED
      BY <1>0, <1>3, <2>2, <2>3, <3>1, <3>2 DEF ServeInv
  <2>5. CASE ~doutQ_full
    <3>1. nserved' = nserved \ buf_deq /\ st_cv_side' = "get_addr"
      BY <1>5, <2>5 DEF SendRead
    <3>2. \A i \in Lanes : (Gives(i) <=> i \in buf_deq) /\ (Gives(i) => i \in nserved)
      BY <2>1, WhatGives
    <3>3. \A i \in Lanes : i \in nserved' <=> i \in nserved /\ ~Gives(i)
      BY <3>1, <3>2
    <3>4. Spread'
      <4> SUFFICES ASSUME NEW i \in Lanes, NEW j \in Lanes
                   PROVE  /\ (i \in nserved' <=> j \in nserved') => Out(i)' = Out(j)'
                          /\ i \in nserved' /\ j \notin nserved' => Out(j)' = Out(i)' + 1
        OBVIOUS
      <4>1. /\ (i \in nserved <=> j \in nserved) => Out(i) = Out(j)
            /\ i \in nserved /\ j \notin nserved => Out(j) = Out(i) + 1
            /\ j \in nserved /\ i \notin nserved => Out(i) = Out(j) + 1
        BY <2>2
      <4> QED
        BY <1>2, <3>2, <3>3, <4>1
    <3> QED
      BY <1>0, <1>3, <2>2, <3>1, <3>3, <3>4 DEF ServeInv
  <2> QED
    BY <2>4, <2>5
<1>6. CASE SendWrite \/ GetWriteAddr
  <2>1. Writing /\ nserved = {} /\ nserved' = {} /\ st_cv_side' # "send_rd_rqst"
    BY <1>6 DEF SendWrite, GetWriteAddr, Writing, RInv, StoreInv
  <2>2. ASSUME ~Writing'
        PROVE  \A i, j \in Lanes : Out(i)' = Out(j)'
    <3>1. st_cv_side = "send_wr_rqst" /\ ~mem_rqsts_valid
      BY <1>6, <2>1, <2>2 DEF SendWrite, GetWriteAddr, Writing
    <3>2. Stores = {}
      BY <3>1 DEF RInv, SelectInv
    <3> SUFFICES ASSUME NEW i \in Lanes PROVE Out(i)' = issued
      OBVIOUS
    <3>3. CASE Empty(i)
      <4>1. Out(i)' = Out(i)
        BY <1>2, <3>3 DEF Gives
      <4>2. Out(i) = taken - buf[i].count /\ taken = issued /\ buf[i].count = 0 /\ taken \in Nat
        BY <2>1, <3>3 DEF Out, Put, RInv, StoreInv, Empty, TypeOK
      <4> QED
        BY <4>1, <4>2
    <3>4. CASE ~Empty(i)
      <4>1. Out(i) \in {issued - 1, issued} /\ Out(i) + 1 \in 1..issued /\ ~program[issued].re
        BY <2>1, <3>4, Shown DEF RInv, StoreInv
      <4>2. Out(i) + 1 = issued /\ ~Re(i)
        <5>1. issued \in Nat /\ Out(i) \in Nat
          BY <3>4, BufStep, Shown
        <5>2. Out(i) + 1 = issued
          BY <4>1, <5>1
        <5> QED
          BY <3>4, <4>1, <5>2, Shown
      <4>3. ~AluEn(i)
        BY <3>2, <3>4, <4>2 DEF Stores
      <4>4. Gives(i)
        BY <3>1, <3>4, <4>3, WhatGives
      <4> QED
        BY <1>2, <4>2, <4>4
    <3> QED
      BY <3>3, <3>4
  <2> QED
    BY <2>1, <2>2 DEF ServeInv
<1> QED
  BY <1>1, <1>4, <1>5, <1>6

LEMMA StoreStep ==
  ASSUME RInv, NEW push, NEW almfull, NEW ready, NEW gsync, RqstEdge(push, almfull, ready, gsync)
  PROVE  StoreInv'
<1>1. GetAddr \/ SendRead \/ SendWrite \/ GetWriteAddr
  BY DEF RqstEdge, Clock
<1>2. \A i \in Lanes : /\ Out(i) \in Nat
                       /\ Out(i)' = IF Gives(i) THEN Out(i) + 1 ELSE Out(i)
  BY LaneStep
<1>3. program' = program /\ issued \in Nat /\ issued' \in {issued, issued + 1}
  BY BufStep
<1>4. ASSUME Writing'
      PROVE  /\ nserved' = {} /\ ~last_rd_addr_v'
             /\ st_fill' = "fill_buf0" /\ taken' = issued' /\ issued' # 0 /\ ~program'[issued'].re
             /\ \A i \in Lanes : Out(i)' \in {issued' - 1, issued'}
  <2>1. CASE ~Writing
    <3>1. /\ GetAddr /\ st_cv_side = "get_addr" /\ st_cv_side' = "send_wr_rqst"
          /\ nserved = {} /\ nserved' = {} /\ (\A i \in Lanes : ~Empty(i)) /\ ~Re(0)
      BY <1>1, <1>4, <2>1 DEF GetAddr, SendRead, SendWrite, GetWriteAddr, Writing
    <3>2. /\ issued # 0 /\ taken = issued /\ st_fill = "fill_buf0" /\ ~program[issued].re
          /\ \A i \in Lanes : Out(i) = issued - 1
      <4>1. issued \in 1..Len(program)
        BY <2>1, <3>1, WriteBegins
      <4> QED
        BY <1>3, <2>1, <3>1, <4>1, WriteBegins
    <3>3. \E i \in Lanes : ~Empty(i)
      BY <3>1, LaneSets
    <3>4. issued' = issued /\ taken' = taken /\ st_fill' = st_fill
      BY <3>2, <3>3, StoreAlone
    <3>5. ~last_rd_addr_v'
      BY <3>1 DEF RqstEdge, Clock, LastAsked
    <3>6. \A i \in Lanes : Out(i)' = Out(i)
      BY <1>2, <3>1, WhatGives
    <3> QED
      BY <1>3, <3>1, <3>2, <3>4, <3>5, <3>6
  <2>2. CASE Writing
    <3>1. /\ nserved = {} /\ ~last_rd_addr_v
          /\ st_fill = "fill_buf0" /\ taken = issued /\ issued # 0 /\ ~program[issued].re
          /\ \A i \in Lanes : Out(i) \in {issued - 1, issued}
      BY <2>2 DEF RInv, StoreInv
    <3>2. st_cv_side # "get_addr"
      BY <2>2 DEF Writing
    <3>3. issued' = issued /\ taken' = taken /\ st_fill' = st_fill
      BY <3>1, <3>2, StoreAlone
    <3>4. nserved' = {} /\ ~AskFor
      BY <1>1, <2>2, <3>1 DEF GetAddr, SendRead, SendWrite, GetWriteAddr, Writing, AskFor
    <3>5. ~last_rd_addr_v'
      BY <3>1, <3>4 DEF RqstEdge, Clock, LastAsked
    <3>6. ASSUME NEW i \in Lanes
          PROVE  Out(i)' \in {issued - 1, issued}
      <4>1. Gives(i) => Out(i) + 1 <= issued
        BY <1>3, Shown DEF Gives
      <4> QED
        BY <1>2, <1>3, <3>1, <4>1
    <3> QED
      BY <1>3, <3>1, <3>3, <3>4, <3>5, <3>6
  <2> QED
    BY <2>1, <2>2
<1>5. ASSUME NEW b \in 1..issued', b < issued', ~program'[b].re, NEW i \in Lanes
      PROVE  Out(i)' >= b
  <2>1. CASE b < issued
    <3>1. Out(i) >= b
      BY <1>3, <1>5, <2>1 DEF RInv, StoreInv
    <3> QED
      BY <1>2, <3>1
  <2>2. CASE ~(b < issued)
    <3>1. issued' # issued /\ b = issued /\ issued # 0
      BY <1>3, <1>5, <2>2
    <3>2. ~StoreOnItsWay
      BY <3>1 DEF RqstEdge, Clock, Fill
    <3>3. taken = issued /\ Empty(i)
      <4>1. ~Waiting /\ Empty(i)
        BY <1>3, <1>5, <3>1, <3>2 DEF StoreOnItsWay
      <4> QED
        BY <1>3, <4>1 DEF Waiting, RInv, TypeOK
    <3>4. Out(i) = issued
      BY <1>3, <3>3 DEF Out, Put, Empty, RInv, FillInv
    <3> QED
      BY <1>2, <1>3, <3>1, <3>4
  <2> QED
    BY <2>1, <2>2
<1> QED
  BY <1>4, <1>5 DEF StoreInv

LEMMA SelectStep ==
  ASSUME RInv, NEW push, NEW almfull, NEW ready, NEW gsync, RqstEdge(push, almfull, ready, gsync)
  PROVE  SelectInv'
<1>0. nserved \subseteq Lanes /\ 0 \in Lanes
  BY LaneSets DEF RInv, TypeOK
<1>1. \A i \in Lanes : ~Gives(i) /\ ~Empty(i) => ~Empty(i)' /\ Re(i)' = Re(i) /\ AluEn(i)' = AluEn(i)
  BY ShownStays
<1>2. CASE GetAddr
  <2> DEFINE s == {i \in Lanes : ~Empty(i) /\ AluEn(i) /\ (nserved = {} \/ i \in nserved)}
  <2>1. /\ st_cv_side = "get_addr" /\ \A i \in Lanes : ~Gives(i)
    BY <1>2, WhatGives DEF GetAddr
  <2>2. /\ mem_rqsts_valid' = (s # {})
        /\ rnw' = IF s = {} THEN rnw ELSE Re(First(s))
    BY <1>2 DEF GetAddr, SelectFrom
  <2>3. s # {} => First(s) \in s
    BY FirstIn
  <2>4. ~Writing
    BY <2>1 DEF Writing
  <2>5. CASE st_cv_side' = "send_rd_rqst"
    <3>1. /\ nserved' = IF nserved = {} THEN Lanes ELSE nserved
          /\ nserved = {} => (\A i \in Lanes : ~Empty(i)) /\ Re(0)
      BY <1>2, <2>5 DEF GetAddr
    <3>2. nserved = {} => \A i \in Lanes : Re(i)
      <4> SUFFICES ASSUME nserved = {}, NEW i \in Lanes PROVE Re(i)
        OBVIOUS
      <4>1. Out(i) = Out(0)
        BY <1>0, <2>4 DEF RInv, ServeInv
      <4> QED
        BY <1>0, <3>1, <4>1, Shown
    <3>3. \A i \in nserved' : i \in Lanes /\ ~Empty(i) /\ Re(i)
      BY <1>0, <3>1, <3>2 DEF RInv, ServeInv
    <3>4. \A i \in nserved' : AluEn(i)' => mem_rqsts_valid'
      <4> SUFFICES ASSUME NEW i \in nserved', AluEn(i)' PROVE i \in s
        BY <2>2
      <4>1. AluEn(i)
        BY <1>1, <2>1, <3>3
      <4> QED
        BY <3>1, <3>3, <4>1
    <3>5. mem_rqsts_valid' => rnw'
      <4>1. s # {} => First(s) \in nserved'
        BY <2>3, <3>1
      <4> QED
        BY <2>2, <3>3, <4>1
    <3> QED
      BY <2>5, <3>4, <3>5 DEF SelectInv
  <2>6. CASE st_cv_side' = "send_wr_rqst"
    <3>1. nserved = {} /\ (\A i \in Lanes : ~Empty(i)) /\ ~Re(0)
      BY <1>2, <2>6 DEF GetAddr
    <3>2. \A i \in Lanes : ~Re(i)
      BY <2>4, <3>1, WriteBegins
    <3>3. mem_rqsts_valid' => ~rnw'
      BY <2>2, <2>3, <3>2
    <3>4. ~mem_rqsts_valid' => Stores' = {}
      <4> SUFFICES ASSUME s = {}, NEW i \in Lanes PROVE ~AluEn(i)'
        BY <2>2 DEF Stores
      <4>1. ~AluEn(i)
        BY <3>1
      <4> QED
        BY <1>1, <2>1, <3>1, <4>1
    <3> QED
      BY <2>6, <3>3, <3>4 DEF SelectInv
  <2>7. CASE st_cv_side' \notin {"send_rd_rqst", "send_wr_rqst"}
    <3>1. st_cv_side' = "get_addr"
      BY <1>2, <2>7 DEF GetAddr
    <3> QED
      BY <3>1 DEF SelectInv
  <2> QED
    BY <2>5, <2>6, <2>7
<1>3. CASE SendRead
  <2>1. st_cv_side = "send_rd_rqst" /\ UNCHANGED <<mem_rqsts_valid, slctd, rnw, match>>
    BY <1>3 DEF SendRead
  <2>2. CASE doutQ_full
    <3>1. nserved' = nserved /\ st_cv_side' = st_cv_side
      BY <1>3, <2>2 DEF SendRead
    <3>2. \A i \in nserved : ~Empty(i) /\ ~Gives(i)
      BY <1>0, <2>1, <2>2, WhatGives DEF RInv, ServeInv
    <3>3. \A i \in nserved : AluEn(i)' = AluEn(i)
      BY <1>0, <1>1, <3>2
    <3> QED
      BY <2>1, <3>1, <3>3 DEF SelectInv, RInv
  <2>3. CASE ~doutQ_full
    <3>1. st_cv_side' = "get_addr"
      BY <1>3, <2>3 DEF SendRead
    <3> QED
      BY <3>1 DEF SelectInv
  <2> QED
    BY <2>2, <2>3
<1>4. CASE SendWrite
  <2>1. st_cv_side = "send_wr_rqst" /\ UNCHANGED <<mem_rqsts_valid, slctd, rnw>>
    BY <1>4 DEF SendWrite
  <2>2. CASE mem_rqsts_valid
    <3>1. st_cv_side' = "get_wr_addr" /\ ~rnw
      BY <1>4, <2>1, <2>2 DEF SendWrite, RInv, SelectInv
    <3>2. ASSUME NEW s \in match'
          PROVE  program'[s[2]].line[s[1]] = slctd'
      <4>1. PICK i \in Stores : s = <<i, buf[i].dout>> /\ OfLine(i)
        BY <1>4 DEF SendWrite
      <4>2. i \in Lanes /\ AluEn(i) /\ Line(i) = slctd
        BY <4>1 DEF Stores, OfLine
      <4>3. Line(i) = program[buf[i].dout].line[i]
        BY <4>2, LaneTypes DEF RInv
      <4> QED
        BY <2>1, <4>1, <4>2, <4>3, BufStep
    <3> QED
      BY <2>1, <3>1, <3>2 DEF SelectInv
  <2>3. CASE ~mem_rqsts_valid
    <3>1. st_cv_side' = "get_addr"
      BY <1>4, <2>3 DEF SendWrite
    <3> QED
      BY <3>1 DEF SelectInv
  <2> QED
    BY <2>2, <2>3
<1>5. CASE GetWriteAddr
  <2>1. st_cv_side = "get_wr_addr" /\ ~rnw /\ match' = match
    BY <1>5 DEF GetWriteAddr, RInv, SelectInv
  <2>2. CASE SendWr
    <3>1. st_cv_side' = "send_wr_rqst" /\ ~rnw' /\ mem_rqsts_valid' = (Stores # {})
      BY <1>5, <2>1, <2>2 DEF GetWriteAddr, SelectFrom
    <3>2. ASSUME Stores = {} PROVE Stores' = {}
      <4> SUFFICES ASSUME NEW i \in Lanes, ~Empty(i)', ~Re(i)', AluEn(i)' PROVE FALSE
        BY DEF Stores
      <4>1. ~Gives(i)
        BY <2>1, WhatGives
      <4>2. CASE ~Empty(i)
        <5>1. Re(i)' = Re(i) /\ AluEn(i)' = AluEn(i)
          BY <1>1, <4>1, <4>2
        <5> QED
          BY <3>2, <4>2, <5>1 DEF Stores
      <4>3. CASE Empty(i)
        <5>1. i \notin Filled(almfull)
          BY <2>1, Quiet DEF Writing
        <5>2. buf'[i].count = buf[i].count
          BY <4>1, <5>1, LaneStep
        <5> QED
          BY <4>3, <5>2 DEF Empty
      <4> QED
        BY <4>2, <4>3
    <3> QED
      BY <3>1, <3>2 DEF SelectInv
  <2>3. CASE ~SendWr
    <3>1. UNCHANGED <<mem_rqsts_valid, slctd, rnw, st_cv_side>>
      BY <1>5, <2>3 DEF GetWriteAddr
    <3>2. program' = program
      BY BufStep
    <3> QED
      BY <2>1, <3>1, <3>2 DEF SelectInv, RInv
  <2> QED
    BY <2>2, <2>3
<1> QED
  BY <1>2, <1>3, <1>4, <1>5 DEF RqstEdge, Clock
\* what is asked for is a load's line, and only stores are written
LEMMA AskedRight ==
  ASSUME RInv
  PROVE  /\ AskFor => rnw /\ ~Writing
         /\ SendWr => ~rnw /\ Writing
         /\ ~(AskFor /\ SendWr)
BY DEF AskFor, SendWr, RInv, SelectInv, Writing

LEMMA FreshStep ==
  ASSUME RInv, NEW push, NEW almfull, NEW ready, NEW gsync, RqstEdge(push, almfull, ready, gsync)
  PROVE  FreshInv'
<1> SUFFICES ASSUME last_rd_addr_v' PROVE fresh' = slctd3'
  BY DEF FreshInv
<1>1. ~gsync /\ (AskFor \/ last_rd_addr_v)
  BY DEF RqstEdge, Clock, LastAsked
<1>2. fresh' = IF AskFor /\ rnw THEN slctd
               ELSE IF gsync \/ SendWr \/ AskFor THEN None ELSE fresh
  BY DEF RqstEdge, Clock, Requests
<1>3. slctd3' = IF AskFor THEN slctd ELSE slctd3
  <2>1. AskFor => st_cv_side = "send_rd_rqst"
    BY DEF AskFor
  <2> QED
    BY <2>1 DEF RqstEdge, Clock, GetAddr, SendRead, SendWrite, GetWriteAddr
<1>4. CASE AskFor
  BY <1>2, <1>3, <1>4, AskedRight
<1>5. CASE ~AskFor
  <2>1. ~Writing /\ fresh = slctd3
    BY <1>1, <1>5 DEF RInv, StoreInv, FreshInv
  <2> QED
    BY <1>1, <1>2, <1>3, <1>5, <2>1, AskedRight
<1> QED
  BY <1>4, <1>5

LEMMA AskedStep ==
  ASSUME RInv, NEW push, NEW almfull, NEW ready, NEW gsync, ClockEdge(push, almfull, ready, gsync),
         NEW i \in buf_deq, i \in Lanes, ~Empty(i), AluEn(i), Re(i)
  PROVE  Line(i) \in {fresh, fresh'}
<1>0. Gives(i)
  BY DEF Gives
<1>1. st_cv_side = "send_rd_rqst"
  BY <1>0, WhatGives DEF RInv, TypeOK
<1>2. ~doutQ_full /\ i \in nserved /\ Line(i) = slctd
  BY <1>0, <1>1, WhatGives
<1>3. mem_rqsts_valid /\ rnw
  BY <1>1, <1>2 DEF RInv, SelectInv
<1>4. fresh' = IF AskFor /\ rnw THEN slctd
               ELSE IF gsync \/ SendWr \/ AskFor THEN None ELSE fresh
  BY DEF ClockEdge, Clock, Requests
<1>5. ~AskFor => fresh = slctd
  BY <1>1, <1>2, <1>3 DEF AskFor, RInv, FreshInv
<1> QED
  BY <1>2, <1>3, <1>4, <1>5

-----------------------------------------------------------------------------
(* The queues to the memory controller *)

Rqsts == [line : Lines, rnw : BOOLEAN]

WritesIn(q, k) == Cardinality({j \in 1..k : ~q[j].rnw})

IsWrite(r) == IF r.rnw THEN 0 ELSE 1

LEMMA WritesCount ==
  ASSUME NEW q
  PROVE  /\ WritesIn(q, 0) = 0
         /\ WritesIn(q, 1) = IsWrite(q[1])
         /\ WritesIn(q, 2) = IsWrite(q[1]) + IsWrite(q[2])
<1> DEFINE W(k) == {j \in 1..k : ~q[j].rnw}
           i == 1
           n == 2
<1>0. i = 1 /\ n = 2
  OBVIOUS
<1> HIDE DEF i, n
<1>1. Cardinality({}) = 0 /\ Cardinality({i}) = 1 /\ Cardinality({n}) = 1
  BY FS_EmptySet, FS_Singleton
<1>2. Cardinality({i, n}) = 2
  <2>0. n \notin {i}
    BY <1>0
  <2>1. IsFiniteSet({i})
    BY FS_Singleton
  <2>2. Cardinality({i} \cup {n}) = Cardinality({i}) + 1
    BY <2>0, <2>1, FS_AddElement
  <2>3. {i} \cup {n} = {i, n}
    OBVIOUS
  <2> QED
    BY <1>1, <2>2, <2>3
<1>3. W(0) = {}
  OBVIOUS
<1>4. W(1) = IF q[1].rnw THEN {} ELSE {i}
  BY <1>0
<1>5. W(2) = IF q[1].rnw THEN IF q[2].rnw THEN {} ELSE {n}
                         ELSE IF q[2].rnw THEN {i} ELSE {i, n}
  BY <1>0
<1>6. \A k : WritesIn(q, k) = Cardinality(W(k))
  BY DEF WritesIn
<1> HIDE DEF W
<1> QED
  BY <1>1, <1>2, <1>3, <1>4, <1>5, <1>6 DEF IsWrite

\* the data d waits in the order of the writes among the requests q
InStep(q, d) ==
  /\ Len(d) = WritesIn(q, Len(q))
  /\ \A k \in DOMAIN q :
       ~q[k].rnw => \A s \in d[WritesIn(q, k)] : program[s[2]].line[s[1]] = q[k].line

LEMMA InStepGive ==
  ASSUME NEW q \in Seq(Rqsts), NEW d \in Seq(SUBSET Slots), Len(q) <= 2, InStep(q, d), q # << >>
  PROVE  /\ ~Head(q).rnw => d # << >>
         /\ InStep(Tail(q), IF ~Head(q).rnw THEN Tail(d) ELSE d)
<1>1. /\ Head(q) = q[1] /\ Tail(q) \in Seq(Rqsts) /\ Len(Tail(q)) = Len(q) - 1
      /\ \A i \in 1..Len(Tail(q)) : Tail(q)[i] = q[i + 1]
      /\ Len(q) \in {1, 2} /\ DOMAIN q = 1..Len(q) /\ DOMAIN Tail(q) = 1..Len(Tail(q))
  <2>1. /\ Tail(q) \in Seq(Rqsts) /\ Len(Tail(q)) = Len(q) - 1
        /\ \A i \in 1..Len(Tail(q)) : Tail(q)[i] = q[i + 1]
    BY HeadTailProperties
  <2>2. Len(q) \in Nat \ {0}
    BY EmptySeq
  <2>3. Len(q) \in {1, 2}
    <3> DEFINE n == Len(q)
    <3>1. n \in Nat \ {0} /\ n <= 2
      BY <2>2
    <3> HIDE DEF n
    <3>2. n \in {1, 2}
      BY <3>1
    <3> QED
      BY <3>2 DEF n
  <2>4. DOMAIN q = 1..Len(q) /\ DOMAIN Tail(q) = 1..Len(Tail(q))
    BY <2>1, LenProperties
  <2>5. Head(q) = q[1]
    OBVIOUS
  <2> QED
    BY <2>1, <2>3, <2>4, <2>5
<1>2. Len(d) \in Nat /\ (Len(d) = 0 <=> d = << >>)
  BY LenProperties, EmptySeq
<1>3. d # << >> => /\ Len(Tail(d)) = Len(d) - 1
                   /\ \A i \in 1..Len(Tail(d)) : Tail(d)[i] = d[i + 1]
  BY HeadTailProperties
<1>4. IsWrite(q[1]) \in {0, 1} /\ (Len(q) = 2 => IsWrite(q[2]) \in {0, 1})
  BY DEF IsWrite
<1>5. ~Head(q).rnw => d # << >>
  <2>1. CASE Len(q) = 1
    BY <1>1, <1>2, <2>1, WritesCount DEF InStep, IsWrite
  <2>2. CASE Len(q) = 2
    BY <1>1, <1>2, <1>4, <2>2, WritesCount DEF InStep, IsWrite
  <2> QED
    BY <1>1, <2>1, <2>2
<1> DEFINE t == Tail(q)
           e == IF ~Head(q).rnw THEN Tail(d) ELSE d
<1>6. Len(t) = Len(q) - 1 /\ DOMAIN t = 1..Len(t) /\ \A i \in 1..Len(t) : t[i] = q[i + 1]
  BY <1>1, Zenon
<1>7. CASE Len(q) = 1
  <2>1. Len(t) = 0 /\ DOMAIN t = {}
    <3> HIDE DEF t
    <3> QED
      BY <1>7, <1>6
  <2>2. Len(d) = IsWrite(q[1])
    BY <1>7, WritesCount DEF InStep
  <2>3. Len(e) = 0
    BY <1>1, <1>3, <1>5, <2>2 DEF IsWrite
  <2>4. WritesIn(t, 0) = 0
    BY WritesCount
  <2> HIDE DEF t, e
  <2>5. InStep(t, e)
    BY <2>1, <2>3, <2>4 DEF InStep
  <2> QED
    BY <1>5, <2>5 DEF t, e
<1>8. CASE Len(q) = 2
  <2>1. Len(t) = 1 /\ DOMAIN t = {1} /\ t[1] = q[2]
    <3> HIDE DEF t
    <3> QED
      BY <1>8, <1>6
  <2>2. Len(d) = IsWrite(q[1]) + IsWrite(q[2])
    BY <1>8, WritesCount DEF InStep
  <2>3. WritesIn(t, 1) = IsWrite(q[2])
    BY <2>1, WritesCount
  <2>4. Len(e) = IsWrite(q[2])
    BY <1>1, <1>3, <1>4, <1>5, <1>8, <2>2 DEF IsWrite
  <2>5. ~q[2].rnw => e[1] = d[IsWrite(q[1]) + 1]
    BY <1>1, <1>3, <1>5, <2>4 DEF IsWrite
  <2>6. ~q[2].rnw => \A s \in d[IsWrite(q[1]) + 1] : program[s[2]].line[s[1]] = q[2].line
    <3>1. WritesIn(q, 2) = IsWrite(q[1]) + IsWrite(q[2]) /\ 2 \in DOMAIN q
      BY <1>1, <1>8, WritesCount
    <3> QED
      BY <1>4, <3>1 DEF InStep, IsWrite
  <2> HIDE DEF t, e
  <2>7. InStep(t, e)
    BY <2>1, <2>3, <2>4, <2>5, <2>6 DEF InStep, IsWrite
  <2> QED
    BY <1>5, <2>7 DEF t, e
<1> QED
  BY <1>1, <1>7, <1>8

LEMMA InStepTake ==
  ASSUME NEW q \in Seq(Rqsts), NEW d \in Seq(SUBSET Slots), Len(q) <= 1, InStep(q, d),
         NEW r \in Rqsts, NEW m \in SUBSET Slots,
         ~r.rnw => \A s \in m : program[s[2]].line[s[1]] = r.line
  PROVE  InStep(q \o <<r>>, d \o (IF r.rnw THEN << >> ELSE <<m>>))
<1> DEFINE p == q \o <<r>>
           e == d \o (IF r.rnw THEN << >> ELSE <<m>>)
<1>0. Len(q) \in Nat /\ Len(d) \in Nat /\ DOMAIN q = 1..Len(q)
  BY LenProperties
<1>1. <<r>> \in Seq(Rqsts) /\ <<m>> \in Seq(SUBSET Slots) /\ << >> \in Seq(SUBSET Slots)
      /\ Len(q) \in {0, 1} /\ Len(d) \in Nat /\ DOMAIN q = 1..Len(q)
  BY <1>0
<1>2. /\ p \in Seq(Rqsts) /\ Len(p) = Len(q) + 1 /\ p[Len(q) + 1] = r
      /\ \A i \in 1..Len(q) : p[i] = q[i]
  BY <1>1, ConcatProperties
<1>3. /\ Len(e) = Len(d) + IsWrite(r) /\ (~r.rnw => e[Len(d) + 1] = m)
      /\ \A i \in 1..Len(d) : e[i] = d[i]
  BY <1>1, ConcatProperties DEF IsWrite
<1>4. DOMAIN p = 1..Len(p)
  BY <1>2, LenProperties
<1> HIDE DEF p, e
<1>5. CASE Len(q) = 0
  <2>1. Len(d) = 0 /\ Len(p) = 1 /\ DOMAIN p = {1} /\ p[1] = r /\ WritesIn(p, 1) = IsWrite(r)
    BY <1>1, <1>2, <1>4, <1>5, WritesCount DEF InStep
  <2>2. InStep(p, e)
    BY <1>3, <2>1 DEF InStep, IsWrite
  <2> QED
    BY <2>2 DEF p, e
<1>6. CASE Len(q) = 1
  <2>1. /\ Len(d) = IsWrite(q[1]) /\ Len(p) = 2 /\ DOMAIN p = {1, 2} /\ p[1] = q[1] /\ p[2] = r
        /\ WritesIn(p, 1) = IsWrite(q[1]) /\ WritesIn(p, 2) = IsWrite(q[1]) + IsWrite(r)
        /\ WritesIn(q, 1) = IsWrite(q[1]) /\ 1 \in DOMAIN q
    BY <1>1, <1>2, <1>4, <1>6, WritesCount DEF InStep
  <2>2. ~q[1].rnw => /\ e[1] = d[1]
                     /\ \A s \in d[1] : program[s[2]].line[s[1]] = q[1].line
    BY <1>3, <2>1 DEF InStep, IsWrite
  <2>3. ~r.rnw => e[IsWrite(q[1]) + 1] = m
    BY <1>3, <2>1
  <2>4. InStep(p, e)
    <3> SUFFICES ASSUME NEW k \in {1, 2}, ~p[k].rnw
                 PROVE  \A s \in e[WritesIn(p, k)] : program[s[2]].line[s[1]] = p[k].line
      BY <1>3, <2>1 DEF InStep, IsWrite
    <3>1. CASE k = 1
      BY <2>1, <2>2, <3>1 DEF IsWrite
    <3>2. CASE k = 2
      BY <2>1, <2>3, <3>2 DEF IsWrite
    <3> QED
      BY <3>1, <3>2
  <2> QED
    BY <2>4 DEF p, e
<1> QED
  BY <1>1, <1>5, <1>6

LEMMA QueueStep ==
  ASSUME RInv, NEW push, NEW almfull, NEW ready, NEW gsync, RqstEdge(push, almfull, ready, gsync)
  PROVE  /\ InStep(doutQ', dout_wrQ')
         /\ doutQ_deq(ready) /\ ~Head(doutQ).rnw => dout_wrQ # << >>
<1> DEFINE q == IF doutQ_deq(ready) THEN Tail(doutQ) ELSE doutQ
           d == IF dout_wrQ_deq(ready) THEN Tail(dout_wrQ) ELSE dout_wrQ
           r == [line |-> slctd, rnw |-> rnw]
<1>1. /\ doutQ \in Seq(Rqsts) /\ Len(doutQ) <= 2 /\ Len(doutQ) \in Nat
      /\ dout_wrQ \in Seq(SUBSET Slots) /\ slctd \in Lines /\ rnw \in BOOLEAN /\ match \subseteq Slots
  BY LenProperties DEF RInv, TypeOK, Rqsts
<1>2. InStep(doutQ, dout_wrQ)
  BY DEF RInv, DataOfItsRequest, InStep, Writes, WritesIn
<1>3. /\ q \in Seq(Rqsts) /\ d \in Seq(SUBSET Slots) /\ Len(q) <= 2 /\ InStep(q, d)
      /\ ~doutQ_full => Len(q) <= 1
      /\ doutQ_deq(ready) /\ ~Head(doutQ).rnw => dout_wrQ # << >>
  <2>1. CASE doutQ_deq(ready)
    <3>1. doutQ # << >>
      BY <2>1 DEF doutQ_deq
    <3>2. /\ ~Head(doutQ).rnw => dout_wrQ # << >>
          /\ InStep(Tail(doutQ), IF ~Head(doutQ).rnw THEN Tail(dout_wrQ) ELSE dout_wrQ)
      BY <1>1, <1>2, <3>1, InStepGive
    <3>3. Tail(doutQ) \in Seq(Rqsts) /\ Len(Tail(doutQ)) = Len(doutQ) - 1
      BY <1>1, <3>1, HeadTailProperties
    <3>4. dout_wrQ # << >> => Tail(dout_wrQ) \in Seq(SUBSET Slots)
      BY <1>1, HeadTailProperties
    <3>5. q = Tail(doutQ) /\ d = IF ~Head(doutQ).rnw THEN Tail(dout_wrQ) ELSE dout_wrQ
      BY <2>1, <3>2 DEF dout_wrQ_deq
    <3>6. Len(q) = Len(doutQ) - 1
      BY <3>3, <3>5, Zenon
    <3>7. q \in Seq(Rqsts) /\ d \in Seq(SUBSET Slots) /\ InStep(q, d)
      BY <1>1, <3>2, <3>3, <3>4, <3>5, Zenon
    <3> HIDE DEF q, d
    <3> QED
      BY <1>1, <3>2, <3>6, <3>7
  <2>2. CASE ~doutQ_deq(ready)
    <3>1. q = doutQ /\ d = dout_wrQ
      BY <2>2 DEF dout_wrQ_deq
    <3> DEFINE n == Len(doutQ)
    <3>2. n \in Nat /\ n <= 2 /\ (~doutQ_full => n # 2)
      BY <1>1 DEF doutQ_full
    <3>3. Len(q) = n
      BY <3>1
    <3> HIDE DEF n, q, d
    <3>4. ~doutQ_full => Len(q) <= 1
      BY <3>2, <3>3
    <3> QED
      BY <1>1, <1>2, <2>2, <3>1, <3>4
  <2> QED
    BY <2>1, <2>2
<1>4. /\ doutQ' = q \o (IF AskFor \/ SendWr THEN <<r>> ELSE << >>)
      /\ dout_wrQ' = d \o (IF SendWr THEN <<match>> ELSE << >>)
  BY DEF RqstEdge, Clock, Requests
<1>5. r \in Rqsts /\ r.rnw = rnw /\ r.line = slctd
  BY <1>1 DEF Rqsts
<1> HIDE DEF q, d, r
<1>6. InStep(doutQ', dout_wrQ')
  <2>1. CASE AskFor \/ SendWr
    <3>1. ~doutQ_full /\ (AskFor <=> rnw) /\ (SendWr <=> ~rnw)
      BY <2>1, AskedRight DEF AskFor, SendWr
    <3>2. ~rnw => \A s \in match : program[s[2]].line[s[1]] = slctd
      BY <3>1 DEF SendWr, RInv, SelectInv
    <3>3. doutQ' = q \o <<r>> /\ dout_wrQ' = d \o (IF r.rnw THEN << >> ELSE <<match>>)
      BY <1>4, <1>5, <2>1, <3>1
    <3>4. InStep(q \o <<r>>, d \o (IF r.rnw THEN << >> ELSE <<match>>))
      BY <1>1, <1>3, <1>5, <3>1, <3>2, InStepTake
    <3> QED
      BY <3>3, <3>4
  <2>2. CASE ~(AskFor \/ SendWr)
    <3>1. doutQ' = q /\ dout_wrQ' = d
      BY <1>3, <1>4, <2>2, ConcatEmptySeq
    <3> QED
      BY <1>3, <3>1
  <2> QED
    BY <2>1, <2>2
<1> QED
  BY <1>3, <1>6

-----------------------------------------------------------------------------
(* What the registers hold, whatever comes *)

LEMMA DoutStep ==
  ASSUME BaseInv, NEW push, NEW almfull, NEW ready, NEW gsync, ClockEdge(push, almfull, ready, gsync)
  PROVE  /\ doutQ' \in Seq(Rqsts) /\ Len(doutQ') <= 2
         /\ dout_wrQ' \in Seq(SUBSET Slots) /\ Len(dout_wrQ') <= 2
<1> DEFINE q == IF doutQ_deq(ready) THEN Tail(doutQ) ELSE doutQ
           d == IF dout_wrQ_deq(ready) THEN Tail(dout_wrQ) ELSE dout_wrQ
           r == [line |-> slctd, rnw |-> rnw]
<1>1. /\ doutQ \in Seq(Rqsts) /\ Len(doutQ) <= 2 /\ Len(doutQ) \in Nat
      /\ dout_wrQ \in Seq(SUBSET Slots) /\ Len(dout_wrQ) <= 2 /\ Len(dout_wrQ) \in Nat
      /\ r \in Rqsts /\ match \in SUBSET Slots
  BY LenProperties DEF BaseInv, TypeOK, Rqsts
<1>2. /\ doutQ_deq(ready) => doutQ # << >>
      /\ dout_wrQ_deq(ready) => dout_wrQ # << >>
      /\ AskFor \/ SendWr => Len(doutQ) # 2
      /\ SendWr => Len(dout_wrQ) # 2
  BY DEF doutQ_deq, dout_wrQ_deq, AskFor, SendWr, doutQ_full, dout_wrQ_full
<1>3. q \in Seq(Rqsts) /\ Len(q) \in Nat /\ Len(q) <= Len(doutQ)
  <2>1. CASE doutQ_deq(ready)
    BY <1>1, <1>2, <2>1, HeadTailProperties, LenProperties
  <2> QED
    BY <1>1, <2>1
<1>4. d \in Seq(SUBSET Slots) /\ Len(d) \in Nat /\ Len(d) <= Len(dout_wrQ)
  <2>1. CASE dout_wrQ_deq(ready)
    BY <1>1, <1>2, <2>1, HeadTailProperties, LenProperties
  <2> QED
    BY <1>1, <2>1
<1>5. /\ doutQ' = q \o (IF AskFor \/ SendWr THEN <<r>> ELSE << >>)
      /\ dout_wrQ' = d \o (IF SendWr THEN <<match>> ELSE << >>)
  BY DEF ClockEdge, Clock, Requests
<1> DEFINE k == Len(doutQ)
           n == Len(dout_wrQ)
<1>6. /\ AskFor \/ SendWr => Len(q) <= 1
      /\ SendWr => Len(d) <= 1
      /\ Len(q) <= 2 /\ Len(d) <= 2
  <2> DEFINE x == Len(q)
             y == Len(d)
  <2>1. /\ k \in Nat /\ k <= 2 /\ x \in Nat /\ x <= k /\ (AskFor \/ SendWr => k # 2)
        /\ n \in Nat /\ n <= 2 /\ y \in Nat /\ y <= n /\ (SendWr => n # 2)
    BY <1>1, <1>2, <1>3, <1>4
  <2> HIDE DEF x, y, k, n
  <2>2. /\ AskFor \/ SendWr => x <= 1
        /\ SendWr => y <= 1
        /\ x <= 2 /\ y <= 2
    BY <2>1
  <2> QED
    BY <2>2 DEF x, y
<1> HIDE DEF q, d, r
<1>7. doutQ' \in Seq(Rqsts) /\ Len(doutQ') <= 2
  <2>1. CASE AskFor \/ SendWr
    <3>1. doutQ' = q \o <<r>> /\ <<r>> \in Seq(Rqsts) /\ Len(<<r>>) = 1
      BY <1>1, <1>5, <2>1
    <3>2. doutQ' \in Seq(Rqsts) /\ Len(doutQ') = Len(q) + 1
      BY <1>3, <3>1, ConcatProperties
    <3> QED
      BY <1>3, <1>6, <2>1, <3>2
  <2>2. CASE ~(AskFor \/ SendWr)
    <3>1. doutQ' = q
      BY <1>3, <1>5, <2>2, ConcatEmptySeq
    <3> QED
      BY <1>3, <1>6, <3>1
  <2> QED
    BY <2>1, <2>2
<1>8. dout_wrQ' \in Seq(SUBSET Slots) /\ Len(dout_wrQ') <= 2
  <2>1. CASE SendWr
    <3>1. dout_wrQ' = d \o <<match>> /\ <<match>> \in Seq(SUBSET Slots) /\ Len(<<match>>) = 1
      BY <1>1, <1>5, <2>1
    <3>2. dout_wrQ' \in Seq(SUBSET Slots) /\ Len(dout_wrQ') = Len(d) + 1
      BY <1>4, <3>1, ConcatProperties
    <3> QED
      BY <1>4, <1>6, <2>1, <3>2
  <2>2. CASE ~SendWr
    <3>1. dout_wrQ' = d
      BY <1>4, <1>5, <2>2, ConcatEmptySeq
    <3> QED
      BY <1>4, <1>6, <3>1
  <2> QED
    BY <2>1, <2>2
<1> QED
  BY <1>7, <1>8

\* a fifo2 holds what it held or what it is given
LEMMA FifoTypes ==
  ASSUME NEW S, NEW f \in [dout : S, fifo : S, count : 0..2], NEW enq \in BOOLEAN,
         NEW deq \in BOOLEAN, NEW w, enq => w \in S
  PROVE  Fifo2Edge(f, enq, deq, w) \in [dout : S, fifo : S, count : 0..2]
<1> DEFINE n == f.count
<1>1. n \in 0..2 /\ f.dout \in S /\ f.fifo \in S
  OBVIOUS
<1>2. (IF deq /\ ~enq /\ n # 0 THEN n - 1 ELSE IF enq /\ ~deq /\ n # 2 THEN n + 1 ELSE n) \in 0..2
  <2> HIDE DEF n
  <2> QED
    BY <1>1
<1> QED
  BY <1>1, <1>2 DEF Fifo2Edge

LEMMA TypeStep ==
  ASSUME BaseInv, NEW push, NEW almfull, NEW ready, NEW gsync, ClockEdge(push, almfull, ready, gsync)
  PROVE  BaseInv' /\ program' = program
<1>0. TypeOK /\ FillInv
  BY DEF BaseInv
<1>1. GetAddr \/ SendRead \/ SendWrite \/ GetWriteAddr
  BY DEF ClockEdge, Clock
<1>2. /\ st_cv_side' \in {"get_addr", "send_rd_rqst", "send_wr_rqst", "get_wr_addr"}
      /\ mem_rqsts_valid' \in BOOLEAN /\ slctd' \in Lines /\ rnw' \in BOOLEAN
  <2>1. \A s \in SUBSET Lanes : s # {} => Line(First(s)) \in Lines /\ First(s) \in Lanes
    BY <1>0, FirstIn, LaneTypes
  <2>2. \A i \in Lanes : Re(i) \in BOOLEAN
    BY <1>0, BatchTypes, LaneTypes DEF Re, Batches
  <2>3. CASE GetAddr
    <3> DEFINE s == {i \in Lanes : ~Empty(i) /\ AluEn(i) /\ (nserved = {} \/ i \in nserved)}
    <3>1. /\ mem_rqsts_valid' = (s # {}) /\ slctd' = IF s = {} THEN slctd ELSE Line(First(s))
          /\ rnw' = IF s = {} THEN rnw ELSE Re(First(s))
      BY <2>3 DEF GetAddr, SelectFrom
    <3>2. s \in SUBSET Lanes
      OBVIOUS
    <3> HIDE DEF s
    <3>3. st_cv_side' \in {"get_addr", "send_rd_rqst", "send_wr_rqst"}
      BY <2>3 DEF GetAddr
    <3> QED
      BY <1>0, <2>1, <2>2, <3>1, <3>2, <3>3 DEF TypeOK
  <2>4. CASE SendRead
    BY <1>0, <2>4 DEF SendRead, TypeOK
  <2>5. CASE SendWrite
    BY <1>0, <2>5 DEF SendWrite, TypeOK
  <2>6. CASE GetWriteAddr
    <3>1. Stores \in SUBSET Lanes
      BY DEF Stores
    <3>2. CASE SendWr
      <4>1. /\ mem_rqsts_valid' = (Stores # {})
            /\ slctd' = IF Stores = {} THEN slctd ELSE Line(First(Stores))
            /\ rnw' = IF Stores = {} THEN rnw ELSE FALSE
            /\ st_cv_side' = "send_wr_rqst"
        BY <2>6, <3>2 DEF GetWriteAddr, SelectFrom
      <4> QED
        BY <1>0, <2>1, <3>1, <4>1 DEF TypeOK
    <3>3. CASE ~SendWr
      BY <1>0, <2>6, <3>3 DEF GetWriteAddr, TypeOK
    <3> QED
      BY <3>2, <3>3
  <2> QED
    BY <1>1, <2>3, <2>4, <2>5, <2>6
<1>3. slctd3' \in Lines /\ last_rd_addr_v' \in BOOLEAN /\ fresh' \in Lines \cup {None}
  <2>1. slctd3' \in {slctd, slctd3}
    BY <1>1 DEF GetAddr, SendRead, SendWrite, GetWriteAddr
  <2>2. last_rd_addr_v' \in BOOLEAN
    BY <1>0 DEF ClockEdge, Clock, LastAsked, TypeOK, AskFor
  <2>3. fresh' \in {slctd, None, fresh}
    BY DEF ClockEdge, Clock, Requests
  <2> QED
    BY <1>0, <2>1, <2>2, <2>3 DEF TypeOK
<1>4. nserved' \subseteq Lanes
  BY <1>0, <1>1 DEF GetAddr, SendRead, SendWrite, GetWriteAddr, TypeOK
<1>5. push => issued < Len(program)
  BY DEF ClockEdge, Inputs
<1>6. /\ FillInv' /\ program' = program /\ issued' \in Places /\ taken' \in 0..issued'
      /\ st_fill' \in {"fill_buf0", "fill_buf1"}
      /\ Filled(almfull) # {} => taken + 1 \in Places
  BY <1>0, <1>5, FillTypes DEF ClockEdge, Clock, Places
<1>7. Places' = Places /\ Slots' = Slots
  BY <1>6 DEF Places, Slots
<1>8. buf' \in [Lanes -> [dout : Places, fifo : Places, count : 0..2]]
  <2>1. buf' = [i \in Lanes |-> Fifo2Edge(buf[i], i \in Filled(almfull), i \in buf_deq, taken + 1)]
    BY DEF ClockEdge, Clock
  <2>2. \A i \in Lanes : buf[i] \in [dout : Places, fifo : Places, count : 0..2]
    BY <1>0 DEF TypeOK
  <2>3. ASSUME NEW i \in Lanes
        PROVE  Fifo2Edge(buf[i], i \in Filled(almfull), i \in buf_deq, taken + 1)
                 \in [dout : Places, fifo : Places, count : 0..2]
    <3> DEFINE enq == i \in Filled(almfull)
               deq == i \in buf_deq
    <3>1. enq \in BOOLEAN /\ deq \in BOOLEAN /\ (enq => taken + 1 \in Places)
      BY <1>6
    <3> HIDE DEF enq, deq
    <3>2. Fifo2Edge(buf[i], enq, deq, taken + 1) \in [dout : Places, fifo : Places, count : 0..2]
      BY <2>2, <3>1, FifoTypes
    <3> QED
      BY <3>2 DEF enq, deq
  <2> QED
    BY <2>1, <2>3
<1>9. match' \subseteq Slots
  <2>1. \A i \in Stores : i \in Lanes /\ <<i, buf[i].dout>> \in Slots
    BY <1>0, LaneTypes DEF Stores, Slots
  <2>2. match' \in {match, {<<i, buf[i].dout>> : i \in {j \in Stores : OfLine(j)}}}
    BY <1>1 DEF GetAddr, SendRead, SendWrite, GetWriteAddr
  <2> QED
    BY <1>0, <2>1, <2>2 DEF TypeOK
<1>10. sent' \subseteq Slots /\ behind' \in BOOLEAN
  BY <1>0 DEF ClockEdge, Clock, Requests, TypeOK
<1>11. /\ doutQ' \in Seq([line : Lines, rnw : BOOLEAN]) /\ Len(doutQ') <= 2
       /\ dout_wrQ' \in Seq(SUBSET Slots) /\ Len(dout_wrQ') <= 2
  BY DoutStep DEF Rqsts
<1>12. TypeOK'
  BY <1>0, <1>2, <1>3, <1>4, <1>6, <1>7, <1>8, <1>9, <1>10, <1>11 DEF TypeOK
<1> QED
  BY <1>6, <1>12 DEF BaseInv

LEMMA RqstStep ==
  ASSUME RInv, NEW push, NEW almfull, NEW ready, NEW gsync, RqstEdge(push, almfull, ready, gsync)
  PROVE  RInv'
<1>1. DataOfItsRequest'
  <2>1. InStep(doutQ', dout_wrQ') /\ program' = program
    BY QueueStep, BufStep
  <2> QED
    BY <2>1 DEF InStep, DataOfItsRequest, Writes, WritesIn
<1>2. TypeOK'
  BY TypeStep DEF RInv, BaseInv, RqstEdge, ClockEdge
<1>3. ~behind'
  BY DEF RqstEdge
<1> QED
  BY <1>1, <1>2, <1>3, BufStep, ServeStep, StoreStep, SelectStep, FreshStep DEF RInv

LEMMA CuStep ==
  ASSUME CuInv, NEW push, NEW almfull, NEW ready, NEW gsync, ClockEdge(push, almfull, ready, gsync)
  PROVE  CuInv'
<1>1. BaseInv'
  BY TypeStep DEF CuInv
<1>2. CASE behind'
  BY <1>1, <1>2 DEF CuInv
<1>3. CASE ~behind'
  <2>1. ~behind /\ RqstEdge(push, almfull, ready, gsync)
    BY <1>3 DEF ClockEdge, RqstEdge, Clock
  <2>2. RInv'
    BY <2>1, RqstStep DEF CuInv
  <2> QED
    BY <1>1, <2>2 DEF CuInv
<1> QED
  BY <1>2, <1>3

LEMMA InitCu == Init => CuInv
<1> SUFFICES ASSUME Init PROVE CuInv
  OBVIOUS
<1>1. Line0 \in Lines
  BY LinesAssumption DEF Line0
<1>2. program \in Programs /\ Len(program) \in Nat /\ 0 \in Places
  <2>1. program \in Seq(Batches) /\ program \in Programs
    BY ProgramsAssumption DEF Init
  <2> QED
    BY <2>1, LenProperties DEF Places
<1>3. \A i \in Lanes : /\ buf[i].count = 0
                       /\ buf[i] \in [dout : Places, fifo : Places, count : 0..2]
  BY <1>2 DEF Init
<1>4. TypeOK
  <2>1. buf \in [Lanes -> [dout : Places, fifo : Places, count : 0..2]]
    BY <1>2 DEF Init
  <2>2. doutQ \in Seq([line : Lines, rnw : BOOLEAN]) /\ Len(doutQ) = 0
    BY EmptySeq DEF Init
  <2>3. dout_wrQ \in Seq(SUBSET Slots) /\ Len(dout_wrQ) = 0
    BY EmptySeq DEF Init
  <2>4. Len(doutQ) <= 2 /\ Len(dout_wrQ) <= 2
    BY <2>2, <2>3
  <2>5. issued \in Places /\ taken \in 0..issued
    BY <1>2 DEF Init
  <2> QED
    BY <1>1, <1>2, <2>1, <2>2, <2>3, <2>4, <2>5 DEF Init, TypeOK
<1>5. \A i \in Lanes : Out(i) = 0
  BY <1>3 DEF Out, Put, Init
<1>6. FillInv /\ BufInv /\ ServeInv /\ StoreInv /\ SelectInv /\ FreshInv
  BY <1>3, <1>5 DEF FillInv, BufInv, ServeInv, StoreInv, SelectInv, FreshInv, Init, Writing
<1>7. DataOfItsRequest
  <2>1. InStep(<< >>, << >>)
    BY WritesCount, EmptySeq DEF InStep
  <2> QED
    BY <2>1 DEF InStep, DataOfItsRequest, Writes, WritesIn, Init
<1> QED
  BY <1>4, <1>6, <1>7 DEF CuInv, BaseInv, RInv, Init

LEMMA StutterCu == CuInv /\ UNCHANGED vars => CuInv'
<1> SUFFICES ASSUME CuInv, UNCHANGED vars PROVE CuInv'
  OBVIOUS
<1>1. UNCHANGED <<program, issued, taken, st_fill, buf, st_cv_side, nserved, mem_rqsts_valid, slctd,
                  rnw, slctd3, last_rd_addr_v, match, doutQ, dout_wrQ, sent, fresh, behind>>
  BY DEF vars, rqstVars, cvVars, outVars
<1>2. Places' = Places /\ Slots' = Slots
  BY <1>1 DEF Places, Slots
<1>3. TypeOK'
  BY <1>1, <1>2 DEF CuInv, BaseInv, TypeOK
<1>4. \A i \in Lanes : /\ Out(i)' = Out(i) /\ Empty(i)' = Empty(i) /\ Re(i)' = Re(i)
                       /\ AluEn(i)' = AluEn(i)
  BY <1>1 DEF Out, Put, Empty, Re, AluEn, Batch, Zero
<1>5. FillInv'
  BY <1>1 DEF CuInv, BaseInv, FillInv
<1>6. ASSUME RInv PROVE RInv'
  <2>1. BufInv' /\ FreshInv' /\ Writing' = Writing /\ Stores' = Stores
    BY <1>1, <1>4, <1>6 DEF RInv, BufInv, FreshInv, Writing, Stores
  <2>2. nserved \subseteq Lanes
    BY <1>6 DEF RInv, TypeOK
  <2>3. ServeInv' /\ StoreInv'
    BY <1>1, <1>4, <1>6, <2>1, <2>2 DEF RInv, ServeInv, StoreInv
  <2>4. SelectInv'
    BY <1>1, <1>4, <1>6, <2>1, <2>2 DEF RInv, SelectInv
  <2>5. DataOfItsRequest'
    BY <1>1, <1>6 DEF RInv, DataOfItsRequest, Writes
  <2> QED
    BY <1>1, <1>3, <1>5, <1>6, <2>1, <2>3, <2>4, <2>5 DEF RInv
<1> QED
  BY <1>1, <1>3, <1>5, <1>6 DEF CuInv, BaseInv

-----------------------------------------------------------------------------
(* One clock edge of both sides *)

LoadEdge(push, gmem_ready, gsync, show, ready) ==
  /\ ClockEdge(push, metaQ_almfull, gmem_ready, gsync)
  /\ show \in BOOLEAN /\ ready \in BOOLEAN
  /\ LoadClock(push, gmem_ready, gsync, show, ready)

LEMMA LoadEdges ==
  ASSUME LoadNext
  PROVE  \E push, gmem_ready, gsync, show, ready : LoadEdge(push, gmem_ready, gsync, show, ready)
<1>1. metaQ_almfull \in BOOLEAN
  BY DEF metaQ_almfull
<1> QED
  BY <1>1 DEF LoadNext, StepWhere, LoadEdge, ClockEdge, LoadInputs, LoadClock

-----------------------------------------------------------------------------
(* metaQ *)

LEMMA MetaTypes ==
  ASSUME BaseInv, LInv
  PROVE  /\ metaQ \in Seq(1..Len(program)) /\ Len(metaQ) \in Nat
         /\ metaQ # << >> => /\ Head(metaQ) \in 1..Len(program) /\ Meta \in Batches
                             /\ Meta.en \subseteq Lanes /\ Meta.simd \in BOOLEAN
         /\ metaQ_enq \in Seq(1..Len(program)) /\ Len(metaQ_enq) \in {0, 1}
<1>1. metaQ \in Seq(1..Len(program)) /\ Len(metaQ) \in Nat
  BY LenProperties DEF LInv, LoadTypeOK
<1>2. metaQ # << >> => Head(metaQ) \in 1..Len(program) /\ Meta \in Batches
  BY <1>1, HeadTailProperties, BatchTypes DEF BaseInv, Meta
<1>3. metaQ_enq \in Seq(1..Len(program)) /\ Len(metaQ_enq) \in {0, 1}
  <2>1. CASE metaQ_enq = << >>
    BY <2>1, EmptySeq
  <2>2. ASSUME NEW b \in 1..Len(program), metaQ_enq = <<b>>
        PROVE  metaQ_enq \in Seq(1..Len(program)) /\ Len(metaQ_enq) = 1
    BY <2>2
  <2> QED
    BY <2>1, <2>2 DEF LInv, LoadTypeOK
<1> QED
  BY <1>1, <1>2, <1>3 DEF Batches

LEMMA Deqs ==
  ASSUME NEW ready
  PROVE  /\ metaQ_deq(ready) => Updating
         /\ dataQ_deq(ready) => Updating /\ dataQ_valid
BY DEF metaQ_deq, dataQ_deq, Updating

\* a load is put into metaQ when its batch is taken, and leaves it in its turn
LEMMA MetaStep ==
  ASSUME BaseInv, LInv, NEW push, NEW gmem_ready, NEW gsync, NEW show, NEW ready,
         LoadEdge(push, gmem_ready, gsync, show, ready)
  PROVE  /\ metaQ' \in Seq(1..Len(program)) /\ Len(metaQ') <= MetaAlmFull + 1 /\ MetaInv'
         /\ metaQ_enq' \in {<< >>} \cup {<<b>> : b \in 1..Len(program)}
         /\ metaQ # << >> /\ ~metaQ_deq(ready) => metaQ' # << >> /\ Head(metaQ') = Head(metaQ)
         /\ \A b \in Queued : b \in Queued' \/ (metaQ_deq(ready) /\ b = Head(metaQ))
         /\ taken' \in {taken, taken + 1} /\ taken \in Nat
         /\ taken' # taken /\ program[taken'].re => taken' \in Queued'
<1> DEFINE S == 1..Len(program)
           F == Filled(metaQ_almfull)
           q == IF metaQ_deq(ready) THEN Tail(metaQ) ELSE metaQ
           e == metaQ_enq
           f == metaQ_enq'
<1>1. /\ metaQ \in Seq(S) /\ Len(metaQ) \in Nat /\ e \in Seq(S) /\ Len(e) \in {0, 1}
      /\ metaQ_deq(ready) => metaQ # << >>
  BY MetaTypes, Deqs DEF LInv, UpdatingInv
<1>2. /\ metaQ' = q \o e
      /\ f = IF F = Upper /\ program[taken + 1].re THEN <<taken + 1>> ELSE << >>
  BY DEF LoadEdge, LoadClock, MetaQ, Oldest
<1>3. Fill(push, metaQ_almfull) /\ push \in BOOLEAN /\ (push => issued < Len(program))
  BY DEF LoadEdge, ClockEdge, Clock, Inputs
<1>4. /\ F \in {{}, Lower, Upper} /\ (F # {} => taken + 1 \in S) /\ taken \in Nat
      /\ taken' = IF F = Upper THEN taken + 1 ELSE taken
  BY <1>3, FillTypes DEF BaseInv, Fill
<1>5. Lower # {} /\ Upper # {} /\ Lower # Upper
  BY LaneSets
<1>6. /\ q \in Seq(S) /\ Len(q) \in Nat /\ Len(q) <= Len(metaQ)
      /\ \A i \in 1..Len(metaQ) : \/ metaQ[i] = Head(metaQ) /\ metaQ_deq(ready)
                                  \/ \E j \in 1..Len(q) : q[j] = metaQ[i]
  <2>1. CASE metaQ_deq(ready)
    <3>1. /\ Tail(metaQ) \in Seq(S) /\ Len(Tail(metaQ)) = Len(metaQ) - 1
          /\ \A i \in 1..Len(Tail(metaQ)) : Tail(metaQ)[i] = metaQ[i + 1]
      BY <1>1, <2>1, HeadTailProperties
    <3>2. q = Tail(metaQ) /\ Head(metaQ) = metaQ[1]
      BY <2>1
    <3>3. /\ q \in Seq(S) /\ Len(q) = Len(metaQ) - 1
          /\ \A i \in 1..Len(q) : q[i] = metaQ[i + 1]
      BY <3>1, <3>2, Zenon
    <3>4. Len(q) \in Nat
      BY <3>3, LenProperties
    <3> HIDE DEF q
    <3>5. ASSUME NEW i \in 1..Len(metaQ), i # 1
          PROVE  i - 1 \in 1..Len(q) /\ q[i - 1] = metaQ[i]
      BY <1>1, <3>3, <3>4, <3>5
    <3>6. \A i \in 1..Len(metaQ) : i # 1 => \E j \in 1..Len(q) : q[j] = metaQ[i]
      BY <3>5
    <3>7. Len(q) <= Len(metaQ)
      BY <1>1, <3>3
    <3> QED
      BY <2>1, <3>2, <3>3, <3>4, <3>6, <3>7, Zenon
  <2>2. CASE ~metaQ_deq(ready)
    BY <1>1, <2>2
  <2> QED
    BY <2>1, <2>2
<1>7. f \in Seq(S) /\ Len(f) \in {0, 1} /\ f \in {<< >>} \cup {<<b>> : b \in S}
  <2> HIDE DEF S, F, f
  <2>1. CASE f = << >>
    BY <2>1, EmptySeq
  <2>2. CASE f # << >>
    <3>1. f = <<taken + 1>> /\ taken + 1 \in S
      BY <1>2, <1>4, <1>5, <2>2
    <3> QED
      BY <3>1
  <2> QED
    BY <2>1, <2>2
<1> HIDE DEF q, S, e, f
<1>8. /\ metaQ' \in Seq(S) /\ Len(metaQ') = Len(q) + Len(e)
      /\ \A i \in 1..Len(q) + Len(e) : metaQ'[i] = IF i <= Len(q) THEN q[i] ELSE e[i - Len(q)]
  BY <1>1, <1>2, <1>6, ConcatProperties
<1>9. /\ metaQ' \o f \in Seq(S) /\ Len(metaQ' \o f) = Len(metaQ') + Len(f)
      /\ \A i \in 1..Len(metaQ') + Len(f) : (metaQ' \o f)[i] = IF i <= Len(metaQ') THEN metaQ'[i]
                                                             ELSE f[i - Len(metaQ')]
  BY <1>7, <1>8, ConcatProperties
<1>10. /\ metaQ \o e \in Seq(S) /\ Len(metaQ \o e) = Len(metaQ) + Len(e)
       /\ \A i \in 1..Len(metaQ) + Len(e) : (metaQ \o e)[i] = IF i <= Len(metaQ) THEN metaQ[i]
                                                             ELSE e[i - Len(metaQ)]
  BY <1>1, ConcatProperties
<1>11. Queued' = {(metaQ' \o f)[i] : i \in 1..Len(metaQ') + Len(f)}
  <2>1. DOMAIN (metaQ' \o f) = 1..Len(metaQ') + Len(f)
    BY <1>9, LenProperties
  <2> QED
    BY <2>1 DEF Queued, ToSet, f
<1>12. Queued = {(metaQ \o e)[i] : i \in 1..Len(metaQ) + Len(e)}
  <2>1. DOMAIN (metaQ \o e) = 1..Len(metaQ) + Len(e)
    BY <1>10, LenProperties
  <2> QED
    BY <2>1 DEF Queued, ToSet, e
<1>13. Len(metaQ') \in Nat
  BY <1>8, LenProperties
<1>14. \A i \in 1..Len(q) + Len(e) : metaQ'[i] \in Queued'
  BY <1>7, <1>8, <1>9, <1>11, <1>13
<1>15. ASSUME NEW b \in Queued
       PROVE  b \in Queued' \/ (metaQ_deq(ready) /\ b = Head(metaQ))
  <2>1. PICK i \in 1..Len(metaQ) + Len(e) : b = (metaQ \o e)[i]
    BY <1>12
  <2>2. CASE i <= Len(metaQ)
    <3>1. b = metaQ[i] /\ i \in 1..Len(metaQ)
      BY <1>1, <1>10, <2>1, <2>2
    <3>2. ASSUME NEW j \in 1..Len(q), q[j] = b
          PROVE  b \in Queued'
      <4>1. j \in 1..Len(q) + Len(e) /\ metaQ'[j] = b
        BY <1>1, <1>6, <1>8, <3>2
      <4> QED
        BY <1>14, <4>1
    <3> QED
      BY <1>6, <3>1, <3>2
  <2>3. CASE ~(i <= Len(metaQ))
    <3>1. b = e[1] /\ Len(e) = 1
      BY <1>1, <1>10, <2>1, <2>3
    <3>2. metaQ'[Len(q) + 1] = b /\ Len(q) + 1 \in 1..Len(q) + Len(e)
      BY <1>6, <1>8, <3>1
    <3> QED
      BY <1>14, <3>2
  <2> QED
    BY <2>2, <2>3
<1>16. ASSUME taken' # taken, program[taken'].re
       PROVE  taken' \in Queued'
  <2>1. taken' = taken + 1 /\ f = <<taken'>> /\ Len(f) = 1 /\ f[1] = taken'
    BY <1>2, <1>4, <1>16
  <2>2. (metaQ' \o f)[Len(metaQ') + 1] = taken' /\ Len(metaQ') + 1 \in 1..Len(metaQ') + Len(f)
    BY <1>9, <1>13, <2>1
  <2> QED
    BY <1>11, <2>2
<1>17. ASSUME metaQ # << >>, ~metaQ_deq(ready)
       PROVE  metaQ' # << >> /\ Head(metaQ') = Head(metaQ)
  <2>1. q = metaQ /\ Len(metaQ) # 0
    BY <1>1, <1>17, EmptySeq DEF q
  <2>2. Len(metaQ') # 0 /\ metaQ'[1] = metaQ[1]
    BY <1>1, <1>8, <2>1
  <2> QED
    BY <1>8, <1>17, <2>2, EmptySeq
<1>18. MetaInv'
  <2> DEFINE n == Len(metaQ)
             k == Len(metaQ')
             x == Len(e)
             y == Len(f)
             l == Len(q)
  <2>1. /\ n \in Nat /\ k \in Nat /\ x \in {0, 1} /\ y \in {0, 1} /\ l \in Nat
        /\ l <= n /\ k = l + x
    BY <1>1, <1>6, <1>7, <1>8, <1>13, Zenon
  <2>2. n + x <= IF st_fill = "fill_buf1" THEN MetaAlmFull ELSE MetaAlmFull + 1
    BY DEF LInv, MetaInv, e
  <2>3. MetaAlmFull \in Nat
    BY MetaAssumption
  <2>4. F # Upper => y = 0
    BY <1>2
  <2>5. F = Lower => st_fill' = "fill_buf1" /\ ~(n >= MetaAlmFull)
    BY <1>3, <1>5 DEF Fill, Filled, metaQ_almfull
  <2>6. F = Upper => st_fill = "fill_buf1" /\ st_fill' = "fill_buf0"
    BY <1>3, <1>5 DEF Fill, Filled
  <2>7. F = {} => st_fill' = st_fill
    BY <1>3, <1>5 DEF Fill
  <2> HIDE DEF n, k, x, y, l, F
  <2>8. k + y <= IF st_fill' = "fill_buf1" THEN MetaAlmFull ELSE MetaAlmFull + 1
    <3>1. CASE F = Lower
      BY <1>5, <2>1, <2>3, <2>4, <2>5, <3>1
    <3>2. CASE F = Upper
      BY <2>1, <2>2, <2>3, <2>6, <3>2
    <3>3. CASE F = {}
      BY <1>5, <2>1, <2>2, <2>3, <2>4, <2>7, <3>3
    <3> QED
      BY <1>4, <3>1, <3>2, <3>3
  <2> QED
    BY <2>8 DEF MetaInv, k, y, f
<1>19. Len(metaQ') <= MetaAlmFull + 1
  <2>1. Len(metaQ') + Len(f) <= MetaAlmFull + 1 /\ MetaAlmFull \in Nat
    BY <1>7, <1>13, <1>18, MetaAssumption DEF MetaInv, f
  <2> QED
    BY <1>7, <1>13, <2>1
<1> QED
  BY <1>4, <1>7, <1>8, <1>15, <1>16, <1>17, <1>18, <1>19 DEF S, f

-----------------------------------------------------------------------------
(* The memory *)

LEMMA MemoryStep ==
  ASSUME BaseInv, LInv, NEW push, NEW gmem_ready, NEW gsync, NEW show, NEW ready,
         LoadEdge(push, gmem_ready, gsync, show, ready)
  PROVE  /\ lines' \in Seq(Contents) /\ memory' \in [Lines -> SUBSET Slots]
         /\ dataQ_valid' \in BOOLEAN /\ (dataQ_valid' => lines' # << >>)
         /\ dataQ_valid => dataQ_rdData \in Contents
         /\ dataQ_valid /\ ~dataQ_deq(ready) => dataQ_valid' /\ dataQ_rdData' = dataQ_rdData
<1> DEFINE rest == IF dataQ_deq(ready) THEN Tail(lines) ELSE lines
           r == Head(doutQ)
           x == [line |-> r.line, stores |-> memory[r.line]]
<1>1. /\ lines \in Seq(Contents) /\ memory \in [Lines -> SUBSET Slots] /\ dataQ_valid \in BOOLEAN
      /\ dataQ_valid => lines # << >>
  BY DEF LInv, LoadTypeOK
<1>2. doutQ # << >> => r \in Rqsts
  BY HeadTailProperties DEF BaseInv, TypeOK, Rqsts
<1>3. doutQ # << >> => r.line \in Lines /\ x \in Contents
  BY <1>1, <1>2 DEF Contents, Rqsts
<1>4. /\ lines' = IF doutQ_deq(gmem_ready) /\ r.rnw THEN Append(rest, x) ELSE rest
      /\ memory' = IF dout_wrQ_deq(gmem_ready)
                   THEN [memory EXCEPT ![r.line] = @ \cup Head(dout_wrQ)] ELSE memory
      /\ show => rest # << >>
      /\ dataQ_valid' = IF dataQ_deq(ready) \/ ~dataQ_valid THEN show ELSE TRUE
      /\ show \in BOOLEAN
  BY DEF LoadEdge, LoadClock, Memory
<1>5. dataQ_deq(ready) => dataQ_valid /\ lines # << >>
  BY <1>1, Deqs
<1>6. rest \in Seq(Contents)
  <2>1. dataQ_deq(ready) => Tail(lines) \in Seq(Contents)
    BY <1>1, <1>5, HeadTailProperties
  <2> QED
    BY <1>1, <2>1
<1>7. doutQ_deq(gmem_ready) => doutQ # << >>
  BY DEF doutQ_deq
<1>8. lines' \in Seq(Contents) /\ (rest # << >> => lines' # << >> /\ Head(lines') = Head(rest))
  <2> HIDE DEF rest, x, r
  <2>1. CASE doutQ_deq(gmem_ready) /\ r.rnw
    <3>1. x \in Contents
      BY <1>3, <1>7, <2>1
    <3>2. Append(rest, x) \in Seq(Contents) /\ Len(Append(rest, x)) = Len(rest) + 1
          /\ Append(rest, x) # << >>
          /\ (rest # << >> => Append(rest, x)[1] = rest[1])
      BY <1>6, <3>1, AppendProperties, EmptySeq
    <3> QED
      BY <1>4, <1>6, <2>1, <3>2
  <2>2. CASE ~(doutQ_deq(gmem_ready) /\ r.rnw)
    BY <1>4, <1>6, <2>2
  <2> QED
    BY <2>1, <2>2
<1>9. memory' \in [Lines -> SUBSET Slots]
  <2>1. CASE dout_wrQ_deq(gmem_ready)
    <3>1. r.line \in Lines /\ dout_wrQ # << >>
      BY <1>3, <1>7, <2>1 DEF dout_wrQ_deq
    <3>2. Head(dout_wrQ) \in SUBSET Slots
      BY <3>1, HeadTailProperties DEF BaseInv, TypeOK
    <3> QED
      BY <1>1, <1>4, <2>1, <3>1, <3>2
  <2>2. CASE ~dout_wrQ_deq(gmem_ready)
    BY <1>1, <1>4, <2>2
  <2> QED
    BY <2>1, <2>2
<1>10. dataQ_valid => dataQ_rdData \in Contents
  BY <1>1, HeadTailProperties DEF dataQ_rdData
<1>11. dataQ_valid /\ ~dataQ_deq(ready) => rest = lines /\ rest # << >>
  BY <1>1
<1>12. dataQ_rdData' = Head(lines') /\ dataQ_rdData = Head(lines)
  BY DEF dataQ_rdData
<1> HIDE DEF rest, x, r
<1>13. dataQ_valid' => lines' # << >>
  BY <1>4, <1>8, <1>11
<1> QED
  BY <1>4, <1>8, <1>9, <1>10, <1>11, <1>12, <1>13

-----------------------------------------------------------------------------
(* st_regFile_int *)

\* nothing found, or a load is served: the findings are forgotten
Forgets == write_back' = {} /\ data_received' = {} /\ write_back_simd' = {}

\* the load at the head of metaQ is compared with the lines
Finds ==
  /\ st_regFile_int = "compare_addr" /\ metaQ # << >>
  /\ data_serverd' = data_serverd \cup (Lanes \ Meta.en)
  /\ write_back' = {i \in Meta.en \ data_serverd :
                      regFile_wrData_v /\ Meta.line[i] = ltch.line}
  /\ data_received' = {i \in Lanes : dataQ_valid /\ Meta.line[i] = dataQ_rdData.line}
  /\ write_back_simd' = (IF write_back' # {} THEN {0} ELSE {})
                          \cup (IF data_received' # {} THEN {1} ELSE {})
  /\ st_regFile_int' \in {"compare_addr", IF Meta.simd THEN "update_simd" ELSE "update"}

\* the load stays, for the next line or the register file is not there
Waits(ready) ==
  /\ st_regFile_int = "update" /\ st_regFile_int' = "update"
  /\ ~metaQ_deq(ready) /\ ~dataQ_deq(ready)
  /\ UNCHANGED <<write_back, data_received, data_serverd>> /\ write_back_simd' = {}

LEMMA FsmCases ==
  ASSUME BaseInv, LInv, NEW push, NEW gmem_ready, NEW gsync, NEW show, NEW ready,
         LoadEdge(push, gmem_ready, gsync, show, ready)
  PROVE  \/ /\ st_regFile_int = "compare_addr" /\ st_regFile_int' = "compare_addr" /\ Forgets
            /\ data_serverd' = data_serverd
            /\ metaQ = << >> \/ ~(dataQ_valid \/ regFile_wrData_v)
         \/ Finds
         \/ Waits(ready)
         \/ /\ st_regFile_int = "update" /\ st_regFile_int' = "compare_addr" /\ Forgets
            /\ data_serverd' = IF metaQ_deq(ready) THEN {}
                               ELSE data_serverd \cup data_received \cup write_back
         \/ /\ st_regFile_int = "update_simd" /\ st_regFile_int' = "compare_addr" /\ Forgets
            /\ data_serverd' = IF metaQ_deq(ready) THEN {}
                               ELSE IF 0 \in write_back_simd THEN data_serverd \cup write_back
                               ELSE IF write_back_simd = {1} THEN data_serverd \cup data_received
                               ELSE data_serverd
<1>1. CompareAddr(ready) \/ Update(ready) \/ UpdateSimd
  BY DEF LoadEdge, LoadClock
<1>2. CASE CompareAddr(ready)
  BY <1>2 DEF CompareAddr, Forgets, Finds
<1>3. CASE Update(ready)
  BY <1>3 DEF Update, Forgets, Waits, metaQ_deq, dataQ_deq
<1>4. CASE UpdateSimd
  <2>1. metaQ_deq(TRUE) <=> metaQ_deq(ready)
    BY <1>4 DEF UpdateSimd, metaQ_deq
  <2> DEFINE d == metaQ_deq(TRUE)
             a == 0 \in write_back_simd
             b == write_back_simd = {1}
             x == data_serverd \cup write_back
             y == data_serverd \cup data_received
  <2>2. data_serverd' = CASE d -> {} [] ~d /\ a -> x [] ~d /\ b -> y [] OTHER -> data_serverd
    BY <1>4 DEF UpdateSimd
  <2>3. b => ~a
    OBVIOUS
  <2> HIDE DEF d, a, b, x, y
  <2>4. data_serverd' = IF d THEN {} ELSE IF a THEN x ELSE IF b THEN y ELSE data_serverd
    BY <2>2, <2>3
  <2>5. /\ st_regFile_int = "update_simd" /\ st_regFile_int' = "compare_addr"
        /\ write_back' = {} /\ data_received' = {} /\ write_back_simd' = {}
    BY <1>4 DEF UpdateSimd
  <2> QED
    BY <2>1, <2>4, <2>5 DEF Forgets, d, a, b, x, y
<1> QED
  BY <1>1, <1>2, <1>3, <1>4

\* what the head of metaQ, its line and the lines found are after the edge
LEMMA KeptStep ==
  ASSUME BaseInv, LInv, NEW push, NEW gmem_ready, NEW gsync, NEW show, NEW ready,
         LoadEdge(push, gmem_ready, gsync, show, ready)
  PROVE  /\ metaQ # << >> /\ ~metaQ_deq(ready) =>
              metaQ' # << >> /\ Head(metaQ') = Head(metaQ) /\ Meta' = Meta
         /\ dataQ_valid /\ ~dataQ_deq(ready) => dataQ_valid' /\ dataQ_rdData' = dataQ_rdData
         /\ ~dataQ_deq(ready) => ltch' = ltch
         /\ ltch' \in Contents /\ regFile_wrData_v' \in BOOLEAN
<1>1. /\ dataQ_valid /\ ~dataQ_deq(ready) => dataQ_valid' /\ dataQ_rdData' = dataQ_rdData
      /\ dataQ_valid => dataQ_rdData \in Contents
  BY MemoryStep
<1>2. program' = program
  BY DEF LoadEdge, LoadClock, Clock, Fill
<1>3. Latch(ready, gsync)
  BY DEF LoadEdge, LoadClock
<1>4. ltch' = IF dataQ_deq(ready) THEN dataQ_rdData ELSE ltch
  BY <1>3 DEF Latch
<1>5. ltch \in Contents /\ regFile_wrData_v \in BOOLEAN /\ gsync \in BOOLEAN
  BY DEF LInv, LoadTypeOK, LoadEdge, ClockEdge
<1>6. dataQ_deq(ready) => dataQ_valid
  BY Deqs
<1>7. regFile_wrData_v' \in BOOLEAN
  <2> DEFINE a == dataQ_deq(ready)
             b == st_regFile_int = "update_simd" /\ LanesLeft /\ ~dataQ_valid
             c == regFile_wrData_v /\ ~gsync
  <2>1. regFile_wrData_v' = CASE a -> TRUE [] b -> FALSE [] OTHER -> c
    BY <1>3 DEF Latch
  <2>2. a \in BOOLEAN /\ b \in BOOLEAN /\ c \in BOOLEAN
    BY <1>5 DEF dataQ_deq
  <2>3. a => ~b
    BY Deqs
  <2> HIDE DEF a, b, c
  <2> QED
    BY <2>1, <2>2, <2>3
<1>8. metaQ # << >> /\ ~metaQ_deq(ready) => metaQ' # << >> /\ Head(metaQ') = Head(metaQ)
  BY MetaStep
<1>9. Meta' = program'[Head(metaQ')] /\ Meta = program[Head(metaQ)]
  BY DEF Meta
<1> QED
  BY <1>1, <1>2, <1>4, <1>5, <1>6, <1>7, <1>8, <1>9

LEMMA MatchStep ==
  ASSUME BaseInv, LInv, NEW push, NEW gmem_ready, NEW gsync, NEW show, NEW ready,
         LoadEdge(push, gmem_ready, gsync, show, ready)
  PROVE  /\ MatchInv'
         /\ data_serverd' \subseteq Lanes /\ data_received' \subseteq Lanes
         /\ write_back' \subseteq Lanes /\ write_back_simd' \subseteq {0, 1}
         /\ st_regFile_int' \in {"compare_addr", "update", "update_simd"}
<1>1. /\ data_serverd \subseteq Lanes /\ data_received \subseteq Lanes
      /\ write_back \subseteq Lanes /\ write_back_simd \subseteq {0, 1}
      /\ st_regFile_int \in {"compare_addr", "update", "update_simd"}
  BY DEF LInv, LoadTypeOK
<1>2. MatchInv /\ UpdatingInv
  BY DEF LInv
<1>3. metaQ # << >> => Meta.en \subseteq Lanes
  BY MetaTypes
<1>4. /\ metaQ # << >> /\ ~metaQ_deq(ready) => metaQ' # << >> /\ Meta' = Meta
      /\ dataQ_valid /\ ~dataQ_deq(ready) => dataQ_valid' /\ dataQ_rdData' = dataQ_rdData
      /\ ~dataQ_deq(ready) => ltch' = ltch
  BY KeptStep
<1>5. /\ metaQ_deq(ready) => Updating
      /\ dataQ_deq(ready) => Updating
  BY Deqs
<1>6. CASE Forgets /\ (metaQ' = << >> => data_serverd' = {}) /\ data_serverd' \subseteq Lanes
                   /\ st_regFile_int' = "compare_addr"
  BY <1>6 DEF Forgets, MatchInv
<1>7. CASE Finds
  <2>1. ~metaQ_deq(ready) /\ ~dataQ_deq(ready)
    BY <1>5, <1>7 DEF Updating, Finds
  <2>2. metaQ' # << >> /\ Meta' = Meta /\ ltch' = ltch
    BY <1>4, <1>7, <2>1 DEF Finds
  <2>3. \A i \in write_back' : i \in Meta'.en /\ i \notin data_serverd' /\ Meta'.line[i] = ltch'.line
    BY <1>3, <1>7, <2>2 DEF Finds
  <2>4. \A i \in data_received' : dataQ_valid' /\ Meta'.line[i] = dataQ_rdData'.line
    BY <1>4, <1>7, <2>1, <2>2 DEF Finds
  <2>5. /\ 0 \in write_back_simd' => write_back' # {}
        /\ 1 \in write_back_simd' => data_received' # {}
        /\ write_back_simd' \subseteq {0, 1}
    BY <1>7 DEF Finds
  <2>6. MatchInv'
    BY <2>2, <2>3, <2>4, <2>5 DEF MatchInv
  <2> QED
    BY <1>1, <1>3, <1>7, <2>5, <2>6 DEF Finds
<1>8. CASE Waits(ready)
  <2>1. metaQ # << >>
    BY <1>2, <1>8 DEF UpdatingInv, Updating, Waits
  <2>2. metaQ' # << >> /\ Meta' = Meta /\ ltch' = ltch
    BY <1>4, <1>8, <2>1 DEF Waits
  <2>3. \A i \in write_back' : i \in Meta'.en /\ i \notin data_serverd' /\ Meta'.line[i] = ltch'.line
    BY <1>2, <1>8, <2>2 DEF MatchInv, Waits
  <2>4. \A i \in data_received' : dataQ_valid' /\ Meta'.line[i] = dataQ_rdData'.line
    BY <1>2, <1>4, <1>8, <2>2 DEF MatchInv, Waits
  <2> QED
    BY <1>1, <1>8, <2>2, <2>3, <2>4 DEF MatchInv, Waits
<1>9. \/ Forgets /\ (metaQ' = << >> => data_serverd' = {}) /\ data_serverd' \subseteq Lanes
                 /\ st_regFile_int' = "compare_addr"
      \/ Finds
      \/ Waits(ready)
  <2>1. metaQ' = << >> => metaQ = << >> \/ metaQ_deq(ready)
    BY <1>4
  <2>2. metaQ = << >> => data_serverd = {} /\ ~Updating
    BY <1>2 DEF MatchInv, UpdatingInv
  <2>3. ASSUME st_regFile_int' = "compare_addr", Forgets,
               \/ st_regFile_int = "compare_addr" /\ data_serverd' = data_serverd
               \/ data_serverd' = {}
               \/ Updating /\ ~metaQ_deq(ready) /\ data_serverd' \subseteq Lanes
        PROVE  Forgets /\ (metaQ' = << >> => data_serverd' = {}) /\ data_serverd' \subseteq Lanes
                       /\ st_regFile_int' = "compare_addr"
    BY <1>1, <1>5, <2>1, <2>2, <2>3 DEF Updating
  <2>4. \/ st_regFile_int = "compare_addr" /\ data_serverd' = data_serverd
        \/ data_serverd' = {}
        \/ Updating /\ ~metaQ_deq(ready) /\ data_serverd' \subseteq Lanes
        \/ ~(st_regFile_int' = "compare_addr" /\ Forgets)
        \/ Finds \/ Waits(ready)
    BY <1>1, FsmCases DEF Updating
  <2> QED
    BY <2>3, <2>4, FsmCases
<1> QED
  BY <1>6, <1>7, <1>8, <1>9

-----------------------------------------------------------------------------
(* The register file *)

\* the lanes written next, by what becomes of the load
LEMMA WeCases ==
  ASSUME NEW ready
  PROVE  /\ metaQ_deq(ready) /\ st_regFile_int = "update" => we_n(ready) = Meta.en
         /\ metaQ_deq(ready) /\ st_regFile_int = "update_simd" =>
              we_n(ready) = Lanes \ data_serverd
         /\ ~metaQ_deq(ready) => we_n(ready) =
              IF st_regFile_int # "update_simd" THEN {}
              ELSE IF 0 \in write_back_simd THEN write_back \ data_serverd
              ELSE IF write_back_simd = {1} THEN data_received \ data_serverd ELSE {}
<1> DEFINE d == metaQ_deq(ready)
           u == st_regFile_int = "update"
           a == st_regFile_int = "update_simd" /\ 0 \in write_back_simd
           b == st_regFile_int = "update_simd" /\ write_back_simd = {1}
           e == Meta.en
           f == Lanes \ data_serverd
           x == write_back \ data_serverd
           y == data_received \ data_serverd
           w == we_n(ready)
<1>1. w = CASE d -> IF u THEN e ELSE f [] ~d /\ a -> x [] ~d /\ b -> y [] OTHER -> {}
  BY DEF we_n
<1>2. (b => ~a) /\ (u => st_regFile_int # "update_simd")
  OBVIOUS
<1>3. /\ d /\ u => w = e
      /\ d /\ ~u => w = f
      /\ ~d => w = IF a THEN x ELSE IF b THEN y ELSE {}
  <2> HIDE DEF d, u, a, b, e, f, x, y, w
  <2> QED
    BY <1>1, <1>2
<1> QED
  BY <1>2, <1>3

LEMMA RegStep ==
  ASSUME BaseInv, LInv, NEW push, NEW gmem_ready, NEW gsync, NEW show, NEW ready,
         LoadEdge(push, gmem_ready, gsync, show, ready)
  PROVE  /\ regFile_we' = IF regFile_we_latch THEN regFile_we ELSE we_n(ready)
         /\ regFile_we_latch' => Updating
         /\ regFile_we_latch \in BOOLEAN /\ regFile_we_latch' \in BOOLEAN
         /\ \A i \in Lanes : regFile_wrData_i'[i] = IF i \in write_back THEN ltch
                                                    ELSE IF i \in data_received THEN dataQ_rdData
                                                    ELSE regFile_wrData_i[i]
         /\ regFile_wrData_wide' = IF 0 \in write_back_simd THEN ltch
                                   ELSE IF 1 \in write_back_simd THEN dataQ_rdData
                                   ELSE regFile_wrData_wide
         /\ mem_regFile_wrAddr_d0' = regFile_wrAddr
         /\ Updating => regFile_wrAddr = Head(metaQ) /\ regFile_wrAddr' = Head(metaQ)
         /\ metaQ # << >> => regFile_wrAddr' = Head(metaQ)
         /\ got' = got \cup {<<i, mem_regFile_wrAddr_d0>> : i \in regFile_we}
         /\ program' = program
<1>1. RegFile(ready)
  BY DEF LoadEdge, LoadClock
<1>2. /\ regFile_wrData_i \in [Lanes -> Contents] /\ regFile_we_latch \in BOOLEAN
      /\ UpdatingInv
  BY DEF LInv, LoadTypeOK
<1>3. regFile_we_latch' => Updating
  BY <1>1, Deqs DEF RegFile, Updating
<1>4. regFile_we_latch' \in BOOLEAN
  BY <1>1 DEF RegFile
<1>5. Updating => metaQ # << >> /\ regFile_wrAddr = Head(metaQ)
  BY <1>2 DEF UpdatingInv
<1>6. metaQ # << >> => regFile_wrAddr' = Head(metaQ)
  BY <1>1, <1>5 DEF RegFile, Updating
<1>7. program' = program
  BY DEF LoadEdge, LoadClock, Clock, Fill
<1> QED
  BY <1>1, <1>2, <1>3, <1>4, <1>5, <1>6, <1>7 DEF RegFile

LEMMA UpdatingStep ==
  ASSUME BaseInv, LInv, NEW push, NEW gmem_ready, NEW gsync, NEW show, NEW ready,
         LoadEdge(push, gmem_ready, gsync, show, ready)
  PROVE  UpdatingInv'
<1>1. CASE Finds
  <2>1. ~metaQ_deq(ready)
    BY <1>1, Deqs DEF Finds, Updating
  <2>2. metaQ' # << >> /\ Head(metaQ') = Head(metaQ) /\ Meta' = Meta
    BY <1>1, <2>1, KeptStep DEF Finds
  <2>3. regFile_wrAddr' = Head(metaQ')
    BY <1>1, <2>2, RegStep DEF Finds
  <2>4. /\ Lanes \ Meta.en \subseteq data_serverd'
        /\ write_back' # {} => 0 \in write_back_simd'
        /\ data_received' # {} => 1 \in write_back_simd'
        /\ st_regFile_int' \in {"compare_addr", IF Meta.simd THEN "update_simd" ELSE "update"}
    BY <1>1 DEF Finds
  <2>5. Meta.simd \in BOOLEAN
    BY <1>1, MetaTypes DEF Finds
  <2> QED
    BY <2>2, <2>3, <2>4, <2>5 DEF UpdatingInv, Updating
<1>2. CASE Waits(ready)
  <2>1. Updating /\ UpdatingInv
    BY <1>2 DEF Waits, Updating, LInv
  <2>2. metaQ' # << >> /\ Head(metaQ') = Head(metaQ) /\ Meta' = Meta
    BY <1>2, <2>1, KeptStep DEF Waits, UpdatingInv
  <2>3. regFile_wrAddr' = Head(metaQ')
    BY <2>1, <2>2, RegStep
  <2>4. ~Meta.simd
    BY <1>2, <2>1 DEF Waits, UpdatingInv
  <2> QED
    BY <1>2, <2>1, <2>2, <2>3, <2>4 DEF UpdatingInv, Updating, Waits
<1>3. CASE st_regFile_int' = "compare_addr"
  BY <1>3 DEF UpdatingInv, Updating
<1> QED
  BY <1>1, <1>2, <1>3, FsmCases

LEMMA LatchStep ==
  ASSUME BaseInv, LInv, NEW push, NEW gmem_ready, NEW gsync, NEW show, NEW ready,
         LoadEdge(push, gmem_ready, gsync, show, ready)
  PROVE  LatchInv'
<1> SUFFICES ASSUME regFile_we_latch'
             PROVE  LatchInv'
  BY DEF LatchInv
<1>1. Updating
  BY RegStep
<1>2. ~Waits(ready)
  <2> SUFFICES ASSUME Waits(ready)
               PROVE  FALSE
    OBVIOUS
  <2>1. RegFile(ready)
    BY DEF LoadEdge, LoadClock
  <2> QED
    BY <2>1 DEF Waits, RegFile
<1>3. st_regFile_int' = "compare_addr" /\ Forgets
  BY <1>1, <1>2, FsmCases DEF Finds, Updating
<1>4. regFile_wrAddr' = mem_regFile_wrAddr_d0'
  BY <1>1, RegStep
<1> QED
  BY <1>3, <1>4 DEF LatchInv, Forgets

\* what a lane that was served holds is kept until its load leaves metaQ
LEMMA ServedStep ==
  ASSUME BaseInv, LInv, NEW push, NEW gmem_ready, NEW gsync, NEW show, NEW ready,
         LoadEdge(push, gmem_ready, gsync, show, ready)
  PROVE  ServedInv'
<1>1. /\ MatchInv /\ UpdatingInv /\ ServedInv /\ LatchInv
      /\ data_serverd \subseteq Lanes /\ data_received \subseteq Lanes /\ write_back \subseteq Lanes
  BY DEF LInv, LoadTypeOK
<1>2. metaQ # << >> => Meta.en \subseteq Lanes /\ Meta.simd \in BOOLEAN
  BY MetaTypes
<1>3. CASE data_serverd' = {}
  BY <1>3 DEF ServedInv
<1>4. CASE metaQ # << >> /\ ~metaQ_deq(ready)
  <2>1. metaQ' # << >> /\ Head(metaQ') = Head(metaQ) /\ Meta' = Meta
    BY <1>4, KeptStep
  <2>2. ASSUME NEW i \in data_serverd' \cap Meta.en, Meta.simd
        PROVE  \/ <<i, Head(metaQ)>> \in got'
               \/ i \in regFile_we' /\ mem_regFile_wrAddr_d0' = Head(metaQ)
    <3>1. CASE i \in data_serverd
      BY <1>1, <1>4, <2>2, <3>1, RegStep DEF ServedInv
    <3>2. CASE i \notin data_serverd
      <4>1. st_regFile_int = "update_simd" /\ Updating
        <5>1. Updating
          BY <1>4, <2>2, <3>2, FsmCases DEF Finds, Waits, Updating
        <5> QED
          BY <1>1, <2>2, <5>1 DEF UpdatingInv
      <4>2. i \in we_n(ready)
        <5>1. data_serverd' = IF 0 \in write_back_simd THEN data_serverd \cup write_back
                              ELSE IF write_back_simd = {1} THEN data_serverd \cup data_received
                              ELSE data_serverd
          BY <1>4, <4>1, FsmCases DEF Finds, Waits
        <5> QED
          BY <1>4, <2>2, <3>2, <4>1, <5>1, WeCases
      <4>3. ~regFile_we_latch
        BY <1>1, <4>1 DEF LatchInv
      <4> QED
        BY <4>1, <4>2, <4>3, RegStep
    <3> QED
      BY <3>1, <3>2
  <2>3. ASSUME NEW i \in data_serverd' \cap Meta.en, ~Meta.simd
        PROVE  regFile_wrData_i'[i].line = Meta.line[i]
    <3>1. i \in data_serverd \/ i \in write_back \/ i \in data_received
      <4>1. st_regFile_int # "update_simd"
        BY <1>1, <2>3 DEF UpdatingInv, Updating
      <4> QED
        BY <1>4, <2>3, <4>1, FsmCases DEF Finds, Waits
    <3>2. i \in Lanes
      BY <1>2, <1>4
    <3>3. CASE i \in write_back
      BY <1>1, <3>2, <3>3, RegStep DEF MatchInv
    <3>4. CASE i \notin write_back /\ i \in data_received
      BY <1>1, <3>2, <3>4, RegStep DEF MatchInv
    <3>5. CASE i \notin write_back /\ i \notin data_received
      <4>1. i \in data_serverd \cap Meta.en /\ regFile_wrData_i'[i] = regFile_wrData_i[i]
        BY <3>1, <3>2, <3>5, RegStep
      <4> QED
        BY <1>1, <1>4, <2>3, <4>1 DEF ServedInv
    <3> QED
      BY <3>3, <3>4, <3>5
  <2> QED
    BY <2>1, <2>2, <2>3 DEF ServedInv
<1>5. CASE metaQ = << >> \/ metaQ_deq(ready)
  <2>1. data_serverd' = {}
    BY <1>1, <1>5, Deqs, FsmCases DEF Finds, Waits, MatchInv, UpdatingInv, Updating
  <2> QED
    BY <1>3, <2>1
<1> QED
  BY <1>4, <1>5

\* a lane whose register is written is one of the load that is served
LEMMA WrittenNext ==
  ASSUME BaseInv, LInv, NEW push, NEW gmem_ready, NEW gsync, NEW show, NEW ready,
         LoadEdge(push, gmem_ready, gsync, show, ready),
         ~regFile_we_latch, NEW i \in regFile_we'
  PROVE  /\ Updating /\ metaQ # << >> /\ i \in Lanes /\ i \in Meta.en
         /\ mem_regFile_wrAddr_d0' = Head(metaQ)
         /\ IF Meta.simd THEN regFile_wrData_wide'.line = Meta.line[i]
                         ELSE regFile_wrData_i'[i].line = Meta.line[i]
<1>1. /\ MatchInv /\ UpdatingInv /\ ServedInv
      /\ data_serverd \subseteq Lanes /\ data_received \subseteq Lanes
      /\ write_back \subseteq Lanes /\ write_back_simd \subseteq {0, 1}
  BY DEF LInv, LoadTypeOK
<1>2. i \in we_n(ready)
  BY RegStep
<1>3. Updating
  BY <1>2, Deqs, WeCases DEF Updating
<1>4. metaQ # << >> /\ Meta.en \subseteq Lanes /\ mem_regFile_wrAddr_d0' = Head(metaQ)
  BY <1>1, <1>3, MetaTypes, RegStep DEF UpdatingInv
<1>5. CASE st_regFile_int = "update"
  <2>1. /\ metaQ_deq(ready) /\ i \in Meta.en
        /\ i \in data_serverd \/ i \in data_received \/ i \in write_back
    <3>1. metaQ_deq(ready)
      BY <1>2, <1>5, WeCases
    <3>2. i \in Meta.en
      BY <1>2, <1>5, <3>1, WeCases
    <3> QED
      BY <1>4, <1>5, <3>1, <3>2 DEF metaQ_deq
  <2>2. ~Meta.simd
    BY <1>1, <1>3, <1>5 DEF UpdatingInv
  <2>3. regFile_wrData_i'[i].line = Meta.line[i]
    <3>1. CASE i \in write_back
      BY <1>1, <3>1, RegStep DEF MatchInv
    <3>2. CASE i \notin write_back /\ i \in data_received
      BY <1>1, <3>2, RegStep DEF MatchInv
    <3>3. CASE i \notin write_back /\ i \notin data_received
      <4>1. i \in data_serverd \cap Meta.en /\ regFile_wrData_i'[i] = regFile_wrData_i[i]
        BY <1>4, <2>1, <3>3, RegStep
      <4> QED
        BY <1>1, <1>4, <2>2, <4>1 DEF ServedInv
    <3> QED
      BY <3>1, <3>2, <3>3
  <2> QED
    BY <1>3, <1>4, <2>1, <2>2, <2>3
<1>6. CASE st_regFile_int = "update_simd"
  <2>1. /\ Meta.simd /\ Lanes \ Meta.en \subseteq data_serverd
        /\ write_back # {} => 0 \in write_back_simd
        /\ data_received # {} => 1 \in write_back_simd
    BY <1>1, <1>3, <1>6 DEF UpdatingInv
  <2>2. i \in Lanes /\ i \notin data_serverd
    BY <1>1, <1>2, <1>6, WeCases
  <2>3. i \in Meta.en
    BY <2>1, <2>2
  <2>4. \/ i \in write_back
        \/ i \in data_received /\ (write_back # {} => write_back \subseteq data_received)
    <3>1. CASE metaQ_deq(ready)
      <4>1. \/ data_serverd \cup write_back = Lanes
            \/ data_serverd \cup data_received = Lanes
        BY <1>6, <3>1 DEF metaQ_deq
      <4>2. \A j \in write_back : j \in Lanes /\ j \notin data_serverd
        BY <1>1 DEF MatchInv
      <4> QED
        BY <2>2, <4>1, <4>2
    <3>2. CASE ~metaQ_deq(ready) /\ 0 \in write_back_simd
      BY <1>2, <1>6, <3>2, WeCases
    <3>3. CASE ~metaQ_deq(ready) /\ 0 \notin write_back_simd
      <4>1. i \in data_received
        BY <1>2, <1>6, <3>3, WeCases
      <4>2. write_back = {}
        BY <2>1, <3>3
      <4> QED
        BY <4>1, <4>2
    <3> QED
      BY <3>1, <3>2, <3>3
  <2>5. CASE i \in write_back
    BY <1>1, <1>3, <1>4, <2>1, <2>2, <2>3, <2>5, RegStep DEF MatchInv
  <2>6. CASE i \in data_received /\ write_back = {}
    <3>1. 0 \notin write_back_simd /\ 1 \in write_back_simd
      BY <1>1, <2>1, <2>6 DEF MatchInv
    <3>2. regFile_wrData_wide' = dataQ_rdData
      BY <3>1, RegStep
    <3> QED
      BY <1>1, <1>3, <1>4, <2>1, <2>2, <2>3, <2>6, <3>2 DEF MatchInv
  <2>7. ASSUME i \in data_received, NEW j \in write_back, j \in data_received
        PROVE  regFile_wrData_wide'.line = Meta.line[i]
    <3>1. regFile_wrData_wide' = ltch
      BY <2>1, RegStep
    <3>2. /\ Meta.line[j] = ltch.line /\ Meta.line[j] = dataQ_rdData.line
          /\ Meta.line[i] = dataQ_rdData.line
      BY <1>1, <2>7 DEF MatchInv
    <3> QED
      BY <3>1, <3>2
  <2> QED
    BY <1>3, <1>4, <2>1, <2>2, <2>3, <2>4, <2>5, <2>6, <2>7
<1> QED
  BY <1>3, <1>5, <1>6 DEF Updating

LEMMA LanesStep ==
  ASSUME BaseInv, LInv, NEW push, NEW gmem_ready, NEW gsync, NEW show, NEW ready,
         LoadEdge(push, gmem_ready, gsync, show, ready)
  PROVE  LanesGetTheirLine' /\ WeInv' /\ regFile_we' \subseteq Lanes
<1>1. LanesGetTheirLine /\ WeInv /\ LatchInv /\ regFile_we \subseteq Lanes
  BY DEF LInv, LoadTypeOK
<1>2. program' = program
  BY RegStep
<1>3. CASE regFile_we_latch
  <2>1. /\ write_back = {} /\ data_received = {} /\ write_back_simd = {}
        /\ regFile_wrAddr = mem_regFile_wrAddr_d0
    BY <1>1, <1>3 DEF LatchInv
  <2>2. /\ regFile_we' = regFile_we /\ mem_regFile_wrAddr_d0' = mem_regFile_wrAddr_d0
        /\ regFile_wrData_wide' = regFile_wrData_wide
        /\ \A i \in Lanes : regFile_wrData_i'[i] = regFile_wrData_i[i]
    BY <1>3, <2>1, RegStep
  <2>3. Loaded' = Loaded
    BY <1>2, <2>2 DEF Loaded
  <2>4. \A i \in regFile_we' : i \in Loaded'.en /\ Written(i)'.line = Loaded'.line[i]
    BY <1>1, <2>2, <2>3 DEF LanesGetTheirLine, Written
  <2> QED
    BY <1>1, <1>2, <2>2, <2>4 DEF LanesGetTheirLine, WeInv
<1>4. CASE ~regFile_we_latch
  <2>1. ASSUME NEW i \in regFile_we'
        PROVE  /\ i \in Lanes /\ mem_regFile_wrAddr_d0' \in 1..Len(program')
               /\ i \in Loaded'.en /\ Written(i)'.line = Loaded'.line[i]
    <3>1. /\ metaQ # << >> /\ i \in Lanes /\ i \in Meta.en
          /\ mem_regFile_wrAddr_d0' = Head(metaQ)
          /\ IF Meta.simd THEN regFile_wrData_wide'.line = Meta.line[i]
                          ELSE regFile_wrData_i'[i].line = Meta.line[i]
      BY <1>4, WrittenNext
    <3>2. Loaded' = Meta
      BY <1>2, <3>1 DEF Loaded, Meta
    <3>3. Head(metaQ) \in 1..Len(program)
      BY <3>1, MetaTypes
    <3> QED
      BY <1>2, <3>1, <3>2, <3>3 DEF Written
  <2> QED
    BY <2>1 DEF LanesGetTheirLine, WeInv
<1>5. regFile_we_latch \in BOOLEAN
  BY RegStep
<1> QED
  BY <1>3, <1>4, <1>5

LEMMA LeftStep ==
  ASSUME BaseInv, LInv, NEW push, NEW gmem_ready, NEW gsync, NEW show, NEW ready,
         LoadEdge(push, gmem_ready, gsync, show, ready)
  PROVE  LeftInv'
<1>1. /\ LeftInv /\ UpdatingInv /\ ServedInv /\ LatchInv
      /\ program' = program /\ taken \in Nat
  BY RegStep, MetaStep DEF LInv
<1>2. ASSUME NEW b \in (1..taken') \ Queued', program[b].re, NEW i \in program[b].en
      PROVE  <<i, b>> \in got' \/ (i \in regFile_we' /\ b = mem_regFile_wrAddr_d0')
  <2>1. taken' \in {taken, taken + 1} /\ (taken' # taken => b # taken')
    BY <1>2, MetaStep
  <2>2. b \in 1..taken
    BY <1>1, <2>1
  <2>3. CASE b \notin Queued
    <3>1. <<i, b>> \in got \/ (i \in regFile_we /\ b = mem_regFile_wrAddr_d0)
      BY <1>1, <1>2, <2>2, <2>3 DEF LeftInv
    <3> QED
      BY <3>1, RegStep
  <2>4. CASE b \in Queued
    <3>1. metaQ_deq(ready) /\ b = Head(metaQ)
      BY <1>2, <2>4, MetaStep
    <3>2. Updating /\ metaQ # << >> /\ ~regFile_we_latch
      BY <1>1, <3>1, Deqs DEF UpdatingInv, LatchInv, Updating
    <3>3. mem_regFile_wrAddr_d0' = b /\ i \in Meta.en /\ i \in Lanes
      BY <1>2, <3>1, <3>2, MetaTypes, RegStep DEF Meta
    <3>4. CASE st_regFile_int = "update"
      BY <3>1, <3>2, <3>3, <3>4, RegStep, WeCases
    <3>5. CASE st_regFile_int = "update_simd" /\ i \notin data_serverd
      BY <3>1, <3>2, <3>3, <3>5, RegStep, WeCases
    <3>6. CASE st_regFile_int = "update_simd" /\ i \in data_serverd
      <4>1. Meta.simd
        BY <1>1, <3>2, <3>6 DEF UpdatingInv
      <4>2. <<i, b>> \in got \/ (i \in regFile_we /\ mem_regFile_wrAddr_d0 = b)
        BY <1>1, <3>1, <3>2, <3>3, <3>6, <4>1 DEF ServedInv
      <4> QED
        BY <4>2, RegStep
    <3> QED
      BY <3>2, <3>4, <3>5, <3>6 DEF Updating
  <2> QED
    BY <2>3, <2>4
<1> QED
  BY <1>1, <1>2 DEF LeftInv

-----------------------------------------------------------------------------
(* Together *)

LEMMA LoadTypeStep ==
  ASSUME BaseInv, LInv, NEW push, NEW gmem_ready, NEW gsync, NEW show, NEW ready,
         LoadEdge(push, gmem_ready, gsync, show, ready)
  PROVE  LoadTypeOK'
<1>1. TypeOK'
  BY TypeStep DEF LoadEdge, BaseInv
<1>2. program' = program /\ Contents' = Contents /\ Slots' = Slots /\ Places' = Places
  BY RegStep DEF Contents, Slots, Places
<1>3. /\ regFile_we \subseteq Lanes /\ ltch \in Contents
      /\ regFile_wrData_i \in [Lanes -> Contents] /\ regFile_wrData_wide \in Contents
      /\ regFile_wrAddr \in Places /\ mem_regFile_wrAddr_d0 \in Places /\ got \subseteq Slots
      /\ MatchInv /\ WeInv
  BY DEF LInv, LoadTypeOK
<1>4. data_received # {} => dataQ_rdData \in Contents
  BY <1>3, MemoryStep DEF MatchInv
<1>5. RegFile(ready)
  BY DEF LoadEdge, LoadClock
<1>6. regFile_wrData_i' \in [Lanes -> Contents]
  <2>1. regFile_wrData_i' = [i \in Lanes |-> IF i \in write_back THEN ltch
                                             ELSE IF i \in data_received THEN dataQ_rdData
                                             ELSE regFile_wrData_i[i]]
    BY <1>5 DEF RegFile
  <2>2. ASSUME NEW i \in Lanes
        PROVE  (IF i \in write_back THEN ltch
                ELSE IF i \in data_received THEN dataQ_rdData
                ELSE regFile_wrData_i[i]) \in Contents
    BY <1>3, <1>4
  <2> QED
    BY <2>1, <2>2
<1>7. regFile_wrData_wide' \in Contents
  BY <1>3, <1>4, RegStep DEF MatchInv
<1>8. got' \subseteq Slots
  <2>1. \A i \in regFile_we : <<i, mem_regFile_wrAddr_d0>> \in Slots
    BY <1>3 DEF WeInv, Slots
  <2> QED
    BY <1>3, <2>1, RegStep
<1>9. regFile_wrAddr' \in Places /\ mem_regFile_wrAddr_d0' \in Places
  <2>1. regFile_wrAddr' \in {regFile_wrAddr, Head(metaQ)}
        /\ (metaQ = << >> => regFile_wrAddr' = regFile_wrAddr)
    BY <1>5 DEF RegFile
  <2>2. metaQ # << >> => Head(metaQ) \in Places
    BY MetaTypes DEF Places
  <2> QED
    BY <1>3, <2>1, <2>2, RegStep
<1>10. /\ regFile_we_latch' \in BOOLEAN /\ regFile_we' \subseteq Lanes
       /\ cntrl_idle' \in BOOLEAN
  BY RegStep, LanesStep DEF LoadEdge, LoadClock, Idle
<1>11. /\ metaQ_enq' \in {<< >>} \cup {<<b>> : b \in 1..Len(program')}
       /\ metaQ' \in Seq(1..Len(program')) /\ Len(metaQ') <= MetaAlmFull + 1
  BY <1>2, MetaStep
<1>12. /\ lines' \in Seq(Contents') /\ memory' \in [Lines -> SUBSET Slots']
       /\ dataQ_valid' \in BOOLEAN /\ (dataQ_valid' => lines' # << >>)
  BY <1>2, MemoryStep
<1>13. /\ st_regFile_int' \in {"compare_addr", "update", "update_simd"}
       /\ data_serverd' \subseteq Lanes /\ data_received' \subseteq Lanes
       /\ write_back' \subseteq Lanes /\ write_back_simd' \subseteq {0, 1}
  BY MatchStep
<1>14. regFile_wrData_v' \in BOOLEAN /\ ltch' \in Contents'
  BY <1>2, KeptStep
<1> QED
  BY <1>1, <1>2, <1>6, <1>7, <1>8, <1>9, <1>10, <1>11, <1>12, <1>13, <1>14 DEF LoadTypeOK

\* what cntrl_idle overlooks does not come while it is up
LEMMA IdleStep ==
  ASSUME BaseInv, LInv, NEW push, NEW gmem_ready, NEW gsync, NEW show, NEW ready,
         LoadEdge(push, gmem_ready, gsync, show, ready)
  PROVE  IdleInv'
<1> SUFFICES ASSUME cntrl_idle'
             PROVE  /\ metaQ_enq' = << >>
                    /\ Selected' # {} => dout_wrQ_full'
  BY DEF IdleInv
<1>1. Idle
  BY DEF LoadEdge, LoadClock
<1>2. metaQ_enq' = << >>
  <2>1. ~Waiting /\ (st_fill = "fill_buf1" => Waiting)
    BY <1>1 DEF Idle, BaseInv, FillInv, Waiting
  <2>2. Filled(metaQ_almfull) = {}
    BY <2>1 DEF Filled
  <2>3. Upper # {}
    BY LaneSets
  <2> QED
    BY <2>2, <2>3 DEF LoadEdge, LoadClock, MetaQ
<1>3. ASSUME Selected' # {} PROVE dout_wrQ_full'
  <2>1. st_cv_side' = "get_wr_addr" /\ match' # {}
    BY <1>3 DEF Selected
  <2>2. Stores = {}
    BY <1>1 DEF Idle, Stores
  <2>3. GetWriteAddr /\ ~SendWr
    BY <2>1, <2>2 DEF LoadEdge, LoadClock, Clock, GetAddr, SendRead, SendWrite, GetWriteAddr
  <2>4. doutQ = << >> /\ ~doutQ_full
    BY <1>1 DEF Idle, doutQ_full
  <2>5. dout_wrQ_full
    BY <2>3, <2>4 DEF GetWriteAddr, SendWr
  <2>6. dout_wrQ' = dout_wrQ
    <3>1. ~dout_wrQ_deq(gmem_ready)
      BY <2>4 DEF dout_wrQ_deq, doutQ_deq
    <3>2. dout_wrQ' = dout_wrQ \o << >>
      BY <2>3, <3>1 DEF LoadEdge, LoadClock, Clock, Requests
    <3>3. dout_wrQ \in Seq(SUBSET Slots)
      BY DEF BaseInv, TypeOK
    <3> QED
      BY <3>2, <3>3, ConcatEmptySeq
  <2> QED
    BY <2>5, <2>6 DEF dout_wrQ_full
<1> QED
  BY <1>2, <1>3

LEMMA InitLoad == LoadInit => CuInv /\ LInv
<1> SUFFICES ASSUME LoadInit PROVE CuInv /\ LInv
  OBVIOUS
<1>1. CuInv /\ TypeOK
  BY InitCu DEF LoadInit, CuInv, BaseInv
<1>2. Line_0 \in Contents /\ 0 \in Places /\ Len(program) \in Nat
  BY <1>1, BatchTypes DEF Line_0, Contents, Places
<1>3. metaQ = << >> /\ metaQ_enq = << >> /\ lines = << >>
  BY DEF LoadInit
<1>4. Len(metaQ) = 0 /\ Len(metaQ_enq) = 0 /\ metaQ \in Seq(1..Len(program))
      /\ lines \in Seq(Contents)
  BY <1>3, EmptySeq
<1>5. LoadTypeOK
  <2>1. /\ metaQ_enq \in {<< >>} \cup {<<b>> : b \in 1..Len(program)}
        /\ metaQ \in Seq(1..Len(program)) /\ Len(metaQ) <= MetaAlmFull + 1
    BY <1>3, <1>4, MetaAssumption
  <2>2. /\ lines \in Seq(Contents) /\ memory \in [Lines -> SUBSET Slots]
        /\ dataQ_valid \in BOOLEAN /\ (dataQ_valid => lines # << >>)
    BY <1>4 DEF LoadInit
  <2>3. /\ st_regFile_int \in {"compare_addr", "update", "update_simd"}
        /\ data_serverd \subseteq Lanes /\ data_received \subseteq Lanes
        /\ write_back \subseteq Lanes /\ write_back_simd \subseteq {0, 1}
        /\ regFile_wrData_v \in BOOLEAN /\ ltch \in Contents
    BY <1>2 DEF LoadInit
  <2>4. /\ regFile_wrData_i \in [Lanes -> Contents] /\ regFile_wrData_wide \in Contents
        /\ regFile_we \subseteq Lanes /\ regFile_we_latch \in BOOLEAN
        /\ regFile_wrAddr \in Places /\ mem_regFile_wrAddr_d0 \in Places /\ cntrl_idle \in BOOLEAN
        /\ got \subseteq Slots
    BY <1>2 DEF LoadInit
  <2> QED
    BY <1>1, <2>1, <2>2, <2>3, <2>4 DEF LoadTypeOK
<1>6. MetaInv
  BY <1>4, MetaAssumption DEF MetaInv, LoadInit, Init
<1>7. MatchInv /\ UpdatingInv /\ ServedInv /\ LatchInv /\ WeInv /\ LanesGetTheirLine
  BY DEF LoadInit, MatchInv, UpdatingInv, Updating, ServedInv, LatchInv, WeInv, LanesGetTheirLine
<1>8. LeftInv /\ IdleInv
  BY DEF LoadInit, Init, LeftInv, IdleInv, Selected
<1> QED
  BY <1>1, <1>5, <1>6, <1>7, <1>8 DEF LInv

LEMMA NextLoad == CuInv /\ LInv /\ [LoadNext]_allVars => (CuInv /\ LInv)'
<1> SUFFICES ASSUME CuInv, LInv, [LoadNext]_allVars PROVE (CuInv /\ LInv)'
  OBVIOUS
<1>0. BaseInv
  BY DEF CuInv
<1>1. CASE LoadNext
  <2>1. PICK push, gmem_ready, gsync, show, ready :
          LoadEdge(push, gmem_ready, gsync, show, ready)
    BY <1>1, LoadEdges
  <2>2. CuInv'
    BY <2>1, CuStep DEF LoadEdge
  <2>3. LoadTypeOK'
    BY <1>0, <2>1, LoadTypeStep
  <2>4. MetaInv'
    BY <1>0, <2>1, MetaStep
  <2>5. MatchInv'
    BY <1>0, <2>1, MatchStep
  <2>6. UpdatingInv'
    BY <1>0, <2>1, UpdatingStep
  <2>7. ServedInv'
    BY <1>0, <2>1, ServedStep
  <2>8. LatchInv'
    BY <1>0, <2>1, LatchStep
  <2>9. LeftInv'
    BY <1>0, <2>1, LeftStep
  <2>10. WeInv' /\ LanesGetTheirLine'
    BY <1>0, <2>1, LanesStep
  <2>11. IdleInv'
    BY <1>0, <2>1, IdleStep
  <2> QED
    BY <2>2, <2>3, <2>4, <2>5, <2>6, <2>7, <2>8, <2>9, <2>10, <2>11 DEF LInv
<1>2. CASE UNCHANGED allVars
  <2>1. UNCHANGED <<vars, metaQ_enq, metaQ, lines, dataQ_valid, memory, st_regFile_int,
                    data_serverd, data_received, write_back, write_back_simd, regFile_wrData_v,
                    ltch, regFile_wrData_i, regFile_wrData_wide, regFile_we, regFile_we_latch,
                    regFile_wrAddr, mem_regFile_wrAddr_d0, cntrl_idle, got>>
    BY <1>2 DEF allVars, memVars, fsmVars, regVars
  <2>2. CuInv' /\ TypeOK'
    BY <2>1, StutterCu DEF CuInv, BaseInv
  <2>3. /\ UNCHANGED <<program, taken, st_fill, st_cv_side, match, doutQ, dout_wrQ>>
        /\ program' = program /\ taken' = taken /\ st_fill' = st_fill
    BY <2>1 DEF vars, rqstVars, cvVars, outVars
  <2>4. Slots' = Slots /\ Places' = Places /\ Contents' = Contents
    BY <2>3 DEF Slots, Places, Contents
  <2>5. LoadTypeOK'
    BY <2>1, <2>2, <2>3, <2>4 DEF LInv, LoadTypeOK
  <2>6. /\ Meta' = Meta /\ dataQ_rdData' = dataQ_rdData /\ Queued' = Queued /\ Loaded' = Loaded
        /\ \A i \in Lanes : Written(i)' = Written(i)
    BY <2>1, <2>3 DEF Meta, dataQ_rdData, Queued, Loaded, Written
  <2>7. MetaInv' /\ MatchInv' /\ UpdatingInv' /\ LatchInv' /\ WeInv'
    BY <2>1, <2>3, <2>6 DEF LInv, MetaInv, MatchInv, UpdatingInv, Updating, LatchInv, WeInv
  <2>8. ServedInv' /\ LeftInv'
    BY <2>1, <2>3, <2>6 DEF LInv, ServedInv, LeftInv
  <2>9. LanesGetTheirLine'
    <3>1. regFile_we \subseteq Lanes
      BY DEF LInv, LoadTypeOK
    <3> QED
      BY <2>1, <2>6, <3>1 DEF LInv, LanesGetTheirLine
  <2>10. IdleInv'
    BY <2>1, <2>3 DEF LInv, IdleInv, Selected, dout_wrQ_full
  <2> QED
    BY <2>2, <2>5, <2>7, <2>8, <2>9, <2>10 DEF LInv
<1> QED
  BY <1>1, <1>2

-----------------------------------------------------------------------------
(* The theorems *)

\* In every state the registers of both sides hold what they can hold, and metaQ never has
\* more than one entry above the level at which it says it is almost full, although a batch
\* is on its way into it while the level is looked at (CU_mem_cntrl.vhd, metaQ_almfull).
THEOREM TypeCorrect == LoadSpec => []LoadTypeOK
<1>1. LInv => LoadTypeOK
  BY DEF LInv
<1> QED
  BY <1>1, InitLoad, NextLoad, PTL DEF LoadSpec

\* The data in dout_wrQ is that of the write requests in doutQ, in their order and for their
\* lines, although the two queues are emptied by different conditions, as long as no batch
\* came while a store was on its way.
THEOREM DataFollows == LoadSpec => []DataOfItsRequest
<1>1. CuInv => DataOfItsRequest
  BY DEF CuInv, RInv, DataOfItsRequest
<1> QED
  BY <1>1, InitLoad, NextLoad, PTL DEF LoadSpec

\* As long as no batch came while a store was on its way, no step takes a lane's load out of
\* its buffer unless its line was the last one asked for, with no write request and no barrier
\* between: last_rd_addr_v is never stale.
THEOREM LoadsAsked == LoadSpec => EveryLoadAsked
<1> DEFINE Asked == \A i \in buf_deq : ~behind /\ ~Empty(i) /\ AluEn(i) /\ Re(i)
                                        => Line(i) \in {fresh, fresh'}
<1>1. CuInv /\ LInv /\ [LoadNext]_allVars => [Asked]_vars
  <2> SUFFICES ASSUME CuInv, LInv, [LoadNext]_allVars PROVE Asked \/ UNCHANGED vars
    OBVIOUS
  <2>1. CASE LoadNext
    <3>1. PICK push, gmem_ready, gsync, show, ready :
            LoadEdge(push, gmem_ready, gsync, show, ready)
      BY <2>1, LoadEdges
    <3>2. ClockEdge(push, metaQ_almfull, gmem_ready, gsync)
      BY <3>1 DEF LoadEdge
    <3>3. buf_deq \subseteq Lanes
      <4>1. nserved \subseteq Lanes
        BY DEF CuInv, BaseInv, TypeOK
      <4>2. Stores \subseteq Lanes
        BY DEF Stores
      <4> QED
        BY <4>1, <4>2 DEF buf_deq
    <3>4. ~behind => RInv
      BY DEF CuInv
    <3> QED
      BY <3>2, <3>3, <3>4, AskedStep
  <2>2. CASE UNCHANGED allVars
    BY <2>2 DEF allVars
  <2> QED
    BY <2>1, <2>2
<1> QED
  BY <1>1, InitLoad, NextLoad, PTL DEF LoadSpec, EveryLoadAsked

\* Whatever is written into a lane's register, in either of the two cycles, is the line this
\* lane's load asked for: keeping a line for later loads, serving a load from two lines and
\* the register file's waiting mix nothing up.
THEOREM LanesRight == LoadSpec => []LanesGetTheirLine
<1>1. LInv => LanesGetTheirLine
  BY DEF LInv
<1> QED
  BY <1>1, InitLoad, NextLoad, PTL DEF LoadSpec

\* A load leaves metaQ only when each of its lanes has been written or is being written: a
\* line that serves some of the lanes does not end the load.
THEOREM LanesWritten == LoadSpec => []EveryLaneWritten
<1>1. LInv => EveryLaneWritten
  BY DEF LInv, LeftInv, EveryLaneWritten, InRegisters
<1> QED
  BY <1>1, InitLoad, NextLoad, PTL DEF LoadSpec

\* When cntrl_idle is up for a second cycle, every load that came is in its registers or being
\* written, and no store waits to be sent unless stores that came behind a store have blocked
\* dout_wrQ: what the flag does not look at can be there only in its first cycle.
THEOREM IdleIsTrueTwice == LoadSpec => IdleTwice
<1> DEFINE Quiet2 == cntrl_idle /\ cntrl_idle' =>
                       /\ \A b \in 1..issued : InRegisters(b)
                       /\ Selected # {} => behind /\ dout_wrQ_full
<1>1. CuInv /\ LInv /\ [LoadNext]_allVars => [Quiet2]_allVars
  <2> SUFFICES ASSUME CuInv, LInv, LoadNext, cntrl_idle, cntrl_idle'
               PROVE  /\ \A b \in 1..issued : InRegisters(b)
                      /\ Selected # {} => behind /\ dout_wrQ_full
    OBVIOUS
  <2>1. Idle
    <3>1. PICK push, gmem_ready, gsync, show, ready :
            LoadEdge(push, gmem_ready, gsync, show, ready)
      BY LoadEdges
    <3> QED
      BY <3>1 DEF LoadEdge, LoadClock
  <2>2. taken = issued /\ metaQ = << >> /\ doutQ = << >>
    BY <2>1, BatchTypes DEF Idle, Waiting, CuInv, BaseInv, TypeOK, Places
  <2>3. metaQ_enq = << >> /\ (Selected # {} => dout_wrQ_full)
    BY <2>2 DEF LInv, IdleInv
  <2>4. Queued = {}
    BY <2>2, <2>3, ConcatEmptySeq, EmptySeq DEF Queued, ToSet
  <2>5. \A b \in 1..issued : InRegisters(b)
    BY <2>2, <2>4 DEF LInv, LeftInv, InRegisters
  <2>6. ~behind => ~dout_wrQ_full
    <3> SUFFICES ASSUME ~behind PROVE Len(dout_wrQ) = 0
      BY DEF dout_wrQ_full
    <3>1. Len(dout_wrQ) = Writes(Len(doutQ))
      BY DEF CuInv, RInv, DataOfItsRequest
    <3>2. Len(doutQ) = 0
      BY <2>2
    <3>3. Writes(0) = WritesIn(doutQ, 0)
      BY DEF Writes, WritesIn
    <3> QED
      BY <3>1, <3>2, <3>3, WritesCount
  <2> QED
    BY <2>3, <2>5, <2>6
<1> QED
  BY <1>1, InitLoad, NextLoad, PTL DEF LoadSpec, IdleTwice
=============================================================================
