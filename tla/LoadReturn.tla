----------------------------- MODULE LoadReturn ------------------------------
(***************************************************************************)
(* The memory controller of a compute unit with its return side            *)
(* (RTL/CU_mem_cntrl.vhd): CuRequests asks for the lines of the loads, a   *)
(* memory that keeps the order answers, and st_regFile_int hands the lines *)
(* to the lanes of the loads in metaQ.                                     *)
(*                                                                         *)
(* The return side does not know what was asked for.  It keeps the last    *)
(* line, serves from it the lanes that want it, and takes the next line    *)
(* when lanes are left over.  That a lane gets its line rests on both      *)
(* sides coming to the same lines in the same order.                       *)
(*                                                                         *)
(* One step is one clock edge.  The inputs are those of CuRequests, when   *)
(* the next line is there, and when the register file is ready.            *)
(***************************************************************************)
EXTENDS CuRequests, SequencesExt

CONSTANT MetaAlmFull   \* metaQ says it is almost full

ASSUME MetaAssumption == MetaAlmFull \in Nat \ {0}

VARIABLES
  metaQ_enq,         \* the load put into metaQ at this edge
  metaQ,             \* loads not yet served, by their place
  lines,             \* lines read and not taken, oldest first (see ReadReorder)
  dataQ_valid,       \* the oldest is shown
  memory,            \* the stores done to each line
  st_regFile_int,
  data_serverd, data_received, write_back,
  write_back_simd,   \* the bits that are set
  regFile_wrData_v, ltch,   \* the last line: regFile_wrData_ltch with addr_ltch
  regFile_wrData_i, regFile_wrData_wide,
  regFile_we, regFile_we_latch,
  regFile_wrAddr, mem_regFile_wrAddr_d0,   \* the place of a load is its register
  cntrl_idle,        \* told to the finish FSM of the kernel (KernelControl)
  got                \* history: lane and load of what was written into registers

memVars == <<metaQ_enq, metaQ, lines, dataQ_valid, memory>>
fsmVars == <<st_regFile_int, data_serverd, data_received, write_back, write_back_simd>>
regVars == <<regFile_wrData_v, ltch, regFile_wrData_i, regFile_wrData_wide, regFile_we,
             regFile_we_latch, regFile_wrAddr, mem_regFile_wrAddr_d0, cntrl_idle, got>>
allVars == <<vars, memVars, fsmVars, regVars>>

Line_0 == [line |-> Line0, stores |-> {}]

LoadInit ==
  /\ Init
  /\ metaQ_enq = << >> /\ metaQ = << >>
  /\ lines = << >> /\ dataQ_valid = FALSE
  /\ memory = [l \in Lines |-> {}]
  /\ st_regFile_int = "compare_addr"
  /\ data_serverd = {} /\ data_received = {} /\ write_back = {} /\ write_back_simd = {}
  /\ regFile_wrData_v = FALSE /\ ltch = Line_0
  /\ regFile_wrData_i = [i \in Lanes |-> Line_0] /\ regFile_wrData_wide = Line_0
  /\ regFile_we = {} /\ regFile_we_latch = FALSE
  /\ regFile_wrAddr = 0 /\ mem_regFile_wrAddr_d0 = 0
  /\ cntrl_idle = TRUE /\ got = {}

-----------------------------------------------------------------------------
(* The return side.  ready: rreg_ready or vreg_ready, and no lmem load.     *)

metaQ_almfull == Len(metaQ) >= MetaAlmFull
Meta == program[Head(metaQ)]
dataQ_rdData == Head(lines)

LanesLeft == write_back \cup data_serverd # Lanes

\* the line that is shown is kept and taken out of dataQ
dataQ_deq(ready) == /\ LanesLeft /\ dataQ_valid
                    /\ \/ st_regFile_int = "update" /\ ready
                       \/ st_regFile_int = "update_simd"

\* a vector load ends with lanes that all get the same line
metaQ_deq(ready) ==
  \/ /\ st_regFile_int = "update" /\ ready
     /\ data_serverd \cup data_received \cup write_back = Lanes
  \/ /\ st_regFile_int = "update_simd"
     /\ \/ data_serverd \cup write_back = Lanes
        \/ data_serverd \cup data_received = Lanes

\* fault: a lane served before is served again
CompareAddrAgain(ready) ==
  /\ st_regFile_int = "compare_addr"
  /\ IF metaQ = << >> \/ ~(dataQ_valid \/ regFile_wrData_v)
     THEN /\ data_received' = {} /\ write_back' = {} /\ write_back_simd' = {}
          /\ UNCHANGED <<st_regFile_int, data_serverd>>
     ELSE /\ data_serverd' = data_serverd \cup (Lanes \ Meta.en)
          /\ write_back' = IF regFile_wrData_v THEN Meta.en ELSE {}
          /\ data_received' = {i \in Lanes : dataQ_valid /\ Meta.line[i] = dataQ_rdData.line}
          /\ write_back_simd' = (IF write_back' # {} THEN {0} ELSE {})
                                  \cup (IF data_received' # {} THEN {1} ELSE {})
          /\ st_regFile_int' = IF ~ready THEN "compare_addr"
                               ELSE IF Meta.simd THEN "update_simd" ELSE "update"

CompareAddr(ready) ==
  /\ st_regFile_int = "compare_addr"
  /\ IF metaQ = << >> \/ ~(dataQ_valid \/ regFile_wrData_v)
     THEN /\ data_received' = {} /\ write_back' = {} /\ write_back_simd' = {}
          /\ UNCHANGED <<st_regFile_int, data_serverd>>
     ELSE /\ data_serverd' = data_serverd \cup (Lanes \ Meta.en)
          /\ write_back' = {i \in Meta.en \ data_serverd :
                              regFile_wrData_v /\ Meta.line[i] = ltch.line}
          /\ data_received' = {i \in Lanes : dataQ_valid /\ Meta.line[i] = dataQ_rdData.line}
          /\ write_back_simd' = (IF write_back' # {} THEN {0} ELSE {})
                                  \cup (IF data_received' # {} THEN {1} ELSE {})
          /\ st_regFile_int' = IF ~ready THEN "compare_addr"
                               ELSE IF Meta.simd THEN "update_simd" ELSE "update"

Update(ready) ==
  /\ st_regFile_int = "update"
  /\ IF ready /\ (metaQ_deq(ready) \/ dataQ_valid)
     THEN /\ write_back' = {} /\ data_received' = {}
          /\ data_serverd' = IF metaQ_deq(ready) THEN {}
                             ELSE data_serverd \cup data_received \cup write_back
          /\ st_regFile_int' = "compare_addr"
     ELSE UNCHANGED <<write_back, data_received, data_serverd, st_regFile_int>>
  /\ write_back_simd' = {}

\* fault: the lanes of both lines count as served
UpdateSimdBoth ==
  /\ st_regFile_int = "update_simd"
  /\ st_regFile_int' = "compare_addr"
  /\ write_back' = {} /\ data_received' = {} /\ write_back_simd' = {}
  /\ data_serverd' = IF metaQ_deq(TRUE) THEN {}
                     ELSE data_serverd \cup write_back \cup data_received

UpdateSimd ==
  /\ st_regFile_int = "update_simd"
  /\ st_regFile_int' = "compare_addr"
  /\ write_back' = {} /\ data_received' = {} /\ write_back_simd' = {}
  /\ data_serverd' = CASE metaQ_deq(TRUE) -> {}
                       [] ~metaQ_deq(TRUE) /\ 0 \in write_back_simd -> data_serverd \cup write_back
                       [] ~metaQ_deq(TRUE) /\ write_back_simd = {1} -> data_serverd \cup data_received
                       [] OTHER -> data_serverd

\* RE in metaQ's output is never low: only loads are put in, and an empty queue
\* keeps showing the last one
Latch(ready, gsync) ==
  /\ ltch' = IF dataQ_deq(ready) THEN dataQ_rdData ELSE ltch
  /\ regFile_wrData_v' = CASE dataQ_deq(ready) -> TRUE
                           [] st_regFile_int = "update_simd" /\ LanesLeft /\ ~dataQ_valid -> FALSE
                           [] OTHER -> regFile_wrData_v /\ ~gsync

\* the lanes whose registers are written
we_n(ready) ==
  CASE metaQ_deq(ready) -> IF st_regFile_int = "update" THEN Meta.en ELSE Lanes \ data_serverd
    [] ~metaQ_deq(ready) /\ st_regFile_int = "update_simd" /\ 0 \in write_back_simd ->
         write_back \ data_serverd
    [] ~metaQ_deq(ready) /\ st_regFile_int = "update_simd" /\ write_back_simd = {1} ->
         data_received \ data_serverd
    [] OTHER -> {}

\* regFile_we and the data stay for two cycles, and the address is one cycle early
RegFile(ready) ==
  /\ regFile_wrData_i' = [i \in Lanes |-> IF i \in write_back THEN ltch
                                          ELSE IF i \in data_received THEN dataQ_rdData
                                          ELSE regFile_wrData_i[i]]
  /\ regFile_wrData_wide' = IF 0 \in write_back_simd THEN ltch
                            ELSE IF 1 \in write_back_simd THEN dataQ_rdData
                            ELSE regFile_wrData_wide
  /\ regFile_we' = IF regFile_we_latch THEN regFile_we ELSE we_n(ready)
  /\ regFile_we_latch' = \/ metaQ_deq(ready)
                         \/ st_regFile_int = "update_simd" /\ write_back_simd # {}
  /\ regFile_wrAddr' = IF metaQ # << >> /\ st_regFile_int # "update"
                       THEN Head(metaQ) ELSE regFile_wrAddr
  /\ mem_regFile_wrAddr_d0' = regFile_wrAddr
  /\ got' = got \cup {<<i, mem_regFile_wrAddr_d0>> : i \in regFile_we}

-----------------------------------------------------------------------------
(* metaQ, and a memory that takes requests in order *)

MetaQ(ready) ==
  /\ metaQ_enq' = IF Filled(metaQ_almfull) = Upper /\ Oldest.re THEN <<taken + 1>> ELSE << >>
  /\ metaQ' = (IF metaQ_deq(ready) THEN Tail(metaQ) ELSE metaQ) \o metaQ_enq

Memory(gmem_ready, show, ready) ==
  LET rest == IF dataQ_deq(ready) THEN Tail(lines) ELSE lines
      r == Head(doutQ)
  IN /\ lines' = IF doutQ_deq(gmem_ready) /\ r.rnw
                 THEN Append(rest, [line |-> r.line, stores |-> memory[r.line]]) ELSE rest
     /\ memory' = IF dout_wrQ_deq(gmem_ready)
                  THEN [memory EXCEPT ![r.line] = @ \cup Head(dout_wrQ)] ELSE memory
     /\ show => rest # << >>
     /\ dataQ_valid' = IF dataQ_deq(ready) \/ ~dataQ_valid THEN show ELSE TRUE

-----------------------------------------------------------------------------
\* fault: the requests that wait are not looked at
IdleBesideDoutQ == metaQ = << >> /\ ~Waiting /\ \A i \in Lanes : Empty(i)

\* neither st_cv_side nor the load on its way into metaQ is looked at
Idle == metaQ = << >> /\ ~Waiting /\ doutQ = << >> /\ \A i \in Lanes : Empty(i)

LoadClock(push, gmem_ready, gsync, show, ready) ==
  /\ Clock(push, metaQ_almfull, gmem_ready, gsync)
  /\ MetaQ(ready) /\ Memory(gmem_ready, show, ready)
  /\ CompareAddr(ready) \/ Update(ready) \/ UpdateSimd
  /\ Latch(ready, gsync) /\ RegFile(ready)
  /\ cntrl_idle' = Idle

\* at a barrier every load has also left metaQ
LoadInputs(push, gsync) ==
  /\ Inputs(push, gsync)
  /\ gsync => metaQ_enq = << >> /\ metaQ = << >>

StepWhere(P(_, _, _)) ==
  \E push, gmem_ready, gsync, show, ready \in BOOLEAN :
    /\ P(gmem_ready, show, ready)
    /\ LoadInputs(push, gsync) /\ LoadClock(push, gmem_ready, gsync, show, ready)

LoadNext == StepWhere(LAMBDA g, s, r : TRUE)

LoadSpec == LoadInit /\ [][LoadNext]_allVars

-----------------------------------------------------------------------------
(* Properties *)

Contents == [line : Lines, stores : SUBSET Slots]

LoadTypeOK ==
  /\ TypeOK
  /\ metaQ_enq \in {<< >>} \cup {<<b>> : b \in 1..Len(program)}
  /\ metaQ \in Seq(1..Len(program)) /\ Len(metaQ) <= MetaAlmFull + 1
  /\ lines \in Seq(Contents)
  /\ dataQ_valid \in BOOLEAN /\ (dataQ_valid => lines # << >>)
  /\ memory \in [Lines -> SUBSET Slots]
  /\ st_regFile_int \in {"compare_addr", "update", "update_simd"}
  /\ data_serverd \subseteq Lanes /\ data_received \subseteq Lanes /\ write_back \subseteq Lanes
  /\ write_back_simd \subseteq {0, 1}
  /\ regFile_wrData_v \in BOOLEAN /\ ltch \in Contents
  /\ regFile_wrData_i \in [Lanes -> Contents] /\ regFile_wrData_wide \in Contents
  /\ regFile_we \subseteq Lanes /\ regFile_we_latch \in BOOLEAN
  /\ regFile_wrAddr \in Places /\ mem_regFile_wrAddr_d0 \in Places
  /\ cntrl_idle \in BOOLEAN
  /\ got \subseteq Slots

\* the load whose registers are written now, and what is written for lane i
Loaded == program[mem_regFile_wrAddr_d0]
Written(i) == IF Loaded.simd THEN regFile_wrData_wide ELSE regFile_wrData_i[i]

\* Whatever is written into a lane's register in either of the two cycles is the
\* line this lane's load asked for, although a load's lines come one by one, are
\* kept for later loads and may be there twice.
LanesGetTheirLine ==
  \A i \in regFile_we : i \in Loaded.en /\ Written(i).line = Loaded.line[i]

Queued == ToSet(metaQ \o metaQ_enq)

\* if it is a load, all its lanes have been written or are being written
InRegisters(b) ==
  program[b].re => \A i \in program[b].en :
    \/ <<i, b>> \in got
    \/ i \in regFile_we /\ b \in {regFile_wrAddr, mem_regFile_wrAddr_d0}

\* A load leaves metaQ only when all its lanes have been written or are being
\* written: a line that serves some lanes does not end the load.
EveryLaneWritten == \A b \in (1..taken) \ Queued : InRegisters(b)

\* cntrl_idle does not look at st_cv_side: it comes up while the last store waits
\* to be sent, out of the buffers and not yet in doutQ.  Nor does it look at the
\* registers' writing or at a load just put into metaQ.  But when it is up for a
\* second cycle, every load that came is in its registers or being written, and no
\* store waits to be sent, unless stores that came behind a store block dout_wrQ.
IdleTwice ==
  [][cntrl_idle /\ cntrl_idle' =>
       /\ \A b \in 1..issued : InRegisters(b)
       /\ Selected # {} => behind /\ dout_wrQ_full]_allVars

\* A lane's load sees the stores to its line that came before the load, even if no
\* batch comes behind a store on its way.
LoadsSeeStores ==
  ~behind => \A i \in regFile_we :
    \A s \in Slots :
      LET store == program[s[2]]
      IN /\ s[2] < mem_regFile_wrAddr_d0 /\ ~store.re /\ s[1] \in store.en
         /\ store.line[s[1]] = Loaded.line[i]
         => s \in Written(i).stores

(* The controller takes a request that waits, a line read is shown some     *)
(* time, and the register file is free again and again; nothing says that   *)
(* more batches come.                                                       *)
FairSpec == /\ LoadSpec
            /\ WF_allVars(doutQ # << >> /\ StepWhere(LAMBDA g, s, r : g))
            /\ WF_allVars(lines # << >> /\ ~dataQ_valid /\ StepWhere(LAMBDA g, s, r : s))
            /\ WF_allVars(StepWhere(LAMBDA g, s, r : r))

=============================================================================
