------------------------ MODULE KernelControlProofs -------------------------
(***************************************************************************)
(* The dispatcher, by itself and with the host, for every number of units, *)
(* of wavefronts and of memory controllers and all kernels.                *)
(*                                                                         *)
(* Requests: between the cycle in which a unit is requested and the one in *)
(* which its acknowledge is taken the unit is in schedulingInProgress, and *)
(* all the time exactly one thing stands for its work-group: the request   *)
(* register, one of the registers on the way, the unit itself, or its      *)
(* acknowledge.  Otherwise the unit is quiet and nothing is on its way to  *)
(* it.                                                                     *)
(*                                                                         *)
(* Offsets: the three words leave the dispatcher one per cycle, right      *)
(* behind the request; each register on the way that holds a request is    *)
(* followed by the words of its group.                                     *)
(*                                                                         *)
(* The grid: the scheduler's counter is a point of the grid, and what is   *)
(* still to do is what comes after it.                                     *)
(*                                                                         *)
(* The host: no start is lost, none comes while something of the kernel    *)
(* before is not over, and a status the host sees is that of the start it  *)
(* waits for.                                                              *)
(***************************************************************************)
EXTENDS KernelControl, FiniteSetTheorems, TLAPS

\* a register the request for c still has to pass
Ahead(c) == {d \in CUs : d >= c}

OnItsWay(c) == \E d \in Ahead(c) : line[d].req = c

Quiet(c) == cu[c].st = "free" /\ ~cu[c].ack

\* the phases of the scheduler in which no unit has work
NoWorkInv == st_sch \in {"idle", "read_delay", "prepare", "wait_finish"}
               => schedulingInProgress = {}

\* what the search found three cycles ago is still true when it is used
FoundInv == st_sch = "seekCV" => alloc_CV_indx \notin schedulingInProgress

OneTokenInv ==
  \A c \in CUs :
    /\ c \notin schedulingInProgress => req # c /\ ~OnItsWay(c) /\ Quiet(c)
    /\ req = c => ~OnItsWay(c) /\ Quiet(c)
    /\ OnItsWay(c) => Quiet(c)
    /\ \A d, e \in Ahead(c) : line[d].req = c /\ line[e].req = c => d = e

\* a unit's FSM, its wavefronts and the FSM that collects its offset
UnitInv(c) ==
  /\ cu[c].ack => cu[c].st = "free"
  /\ cu[c].st = "free" => wf_active[c] = {}
  /\ cu[c].st # "write_wg_d0" => cu[c].wf_activate = {}
  /\ cu[c].dx = "write_d1" => cu[c].st = "reserve"
  /\ cu[c].dx = "write_d2" => cu[c].st \in {"reserve", "write_wg_d0"}
  /\ cu[c].st = "reserve" => cu[c].allocated_wfs < cu[c].n_wfs
  /\ cu[c].st # "free" => cu[c].allocated_wfs <= cu[c].n_wfs

UnitsInv == \A c \in CUs : UnitInv(c)

IInv == TypeOK /\ NoWorkInv /\ FoundInv /\ OneTokenInv /\ UnitsInv

-----------------------------------------------------------------------------
(* One step of one unit *)

Triples == Nat \X Nat \X Nat

Units == [st : CUStates, wf_alloc_indx : WFs, allocated_wfs : 0..N_WF_CU,
          n_wfs : 0..N_WF_CU, wf_activate : SUBSET WFs, ack : BOOLEAN,
          dx : DxStates, wg_offset : Triples]

LEMMA TripleExcept ==
  ASSUME NEW t \in Triples, NEW x \in Nat
  PROVE  /\ [t EXCEPT ![1] = x] \in Triples
         /\ [t EXCEPT ![2] = x] \in Triples
         /\ [t EXCEPT ![3] = x] \in Triples
BY DEF Triples

LEMMA NextUnitType == \A c \in CUs : (c + 1) % N_CU \in CUs
BY SizesAssumption DEF CUs

LEMMA NextWFType == \A w \in WFs : NextWF(w) \in WFs
BY SizesAssumption DEF NextWF, WFs

LEMMA OffsetType ==
  ASSUME TypeOK, NEW c \in CUs
  PROVE  WgOffset(c) \in Triples /\ DxState(c) \in DxStates
BY TripleExcept DEF TypeOK, WgOffset, DxState, DxStates, Triples

\* the unit's record before its state is looked at
Base(c) == [cu[c] EXCEPT !.ack = FALSE, !.wf_activate = {},
                         !.dx = DxState(c), !.wg_offset = WgOffset(c)]

LEMMA BaseType ==
  ASSUME TypeOK, NEW c \in CUs
  PROVE  /\ Base(c) \in Units
         /\ Base(c).st = cu[c].st /\ Base(c).wf_alloc_indx = cu[c].wf_alloc_indx
         /\ Base(c).allocated_wfs = cu[c].allocated_wfs /\ Base(c).n_wfs = cu[c].n_wfs
         /\ Base(c).ack = FALSE /\ Base(c).wf_activate = {} /\ Base(c).dx = DxState(c)
<1>1. cu[c] \in Units
  BY DEF TypeOK, Units, Triples
<1> QED
  BY <1>1, OffsetType DEF Base, Units

\* the fields a state of the interface FSM changes, one case per state
LEMMA InterfaceCases ==
  ASSUME TypeOK, NEW c \in CUs
  PROVE  LET b == Base(c)
             n == Interface(c)
         IN /\ cu[c].st = "free" /\ sch_rqst(c) =>
                 n = [b EXCEPT !.st = "reserve", !.wf_alloc_indx = 0,
                               !.n_wfs = krnl.n_WFs_m1 + 1, !.allocated_wfs = 0]
            /\ cu[c].st = "free" /\ ~sch_rqst(c) => n = b
            /\ cu[c].st = "reserve" /\ cu[c].wf_alloc_indx \notin wf_active[c] =>
                 n = [b EXCEPT !.st = "write_wg_d0", !.allocated_wfs = b.allocated_wfs + 1,
                               !.wf_activate = {b.wf_alloc_indx}]
            /\ cu[c].st = "reserve" /\ cu[c].wf_alloc_indx \in wf_active[c] =>
                 n = [b EXCEPT !.wf_alloc_indx = NextWF(b.wf_alloc_indx)]
            /\ cu[c].st = "write_wg_d0" => n = [b EXCEPT !.st = "write_wg_d1"]
            /\ cu[c].st = "write_wg_d1" => n = [b EXCEPT !.st = "write_wg_d2"]
            /\ cu[c].st = "write_wg_d2" =>
                 LET v == [b EXCEPT !.wf_alloc_indx = NextWF(b.wf_alloc_indx)]
                 IN n = IF b.allocated_wfs = b.n_wfs THEN Release(c, v)
                                                     ELSE [v EXCEPT !.st = "reserve"]
            /\ cu[c].st = "wait_wg_finish" => n = Release(c, b)
<1> DEFINE b == Base(c)
<1>1. b.st = cu[c].st /\ b.wf_alloc_indx = cu[c].wf_alloc_indx
  BY BaseType
<1>2. Interface(c) =
        CASE b.st = "free" /\ sch_rqst(c) ->
            [b EXCEPT !.st = "reserve", !.wf_alloc_indx = 0,
                      !.n_wfs = krnl.n_WFs_m1 + 1, !.allocated_wfs = 0]
       [] b.st = "reserve" /\ b.wf_alloc_indx \notin wf_active[c] ->
            [b EXCEPT !.st = "write_wg_d0", !.allocated_wfs = @ + 1,
                      !.wf_activate = {b.wf_alloc_indx}]
       [] b.st = "reserve" /\ b.wf_alloc_indx \in wf_active[c] ->
            [b EXCEPT !.wf_alloc_indx = NextWF(@)]
       [] b.st = "write_wg_d0" -> [b EXCEPT !.st = "write_wg_d1"]
       [] b.st = "write_wg_d1" -> [b EXCEPT !.st = "write_wg_d2"]
       [] b.st = "write_wg_d2" ->
            LET v == [b EXCEPT !.wf_alloc_indx = NextWF(@)]
            IN IF b.allocated_wfs = b.n_wfs THEN Release(c, v) ELSE [v EXCEPT !.st = "reserve"]
       [] b.st = "wait_wg_finish" -> Release(c, b)
       [] OTHER -> b
  BY DEF Interface, Base
<1> HIDE DEF b
<1>3. cu[c].st \in CUStates
  BY DEF TypeOK
<1>4. CASE cu[c].st = "free"
  BY <1>1, <1>2, <1>4 DEF b
<1>5. CASE cu[c].st = "reserve"
  BY <1>1, <1>2, <1>5 DEF b
<1>6. CASE cu[c].st \in {"write_wg_d0", "write_wg_d1"}
  BY <1>1, <1>2, <1>6 DEF b
<1>7. CASE cu[c].st = "write_wg_d2"
  BY <1>1, <1>2, <1>7 DEF b
<1>8. CASE cu[c].st = "wait_wg_finish"
  BY <1>1, <1>2, <1>8 DEF b
<1> QED
  BY <1>3, <1>4, <1>5, <1>6, <1>7, <1>8 DEF CUStates

LEMMA WavefrontsOfKernel ==
  ASSUME NEW k \in Kernels
  PROVE  k.n_WFs_m1 + 1 \in 1..N_WF_CU
<1>1. k.n_WFs_m1 \in WFs
  BY KernelsAssumption
<1> QED
  BY <1>1, SizesAssumption DEF WFs

LEMMA InterfaceType ==
  ASSUME TypeOK, NEW c \in CUs, UnitInv(c)
  PROVE  Interface(c) \in Units
<1> DEFINE b == Base(c)
<1>1. b \in Units /\ b.wf_alloc_indx = cu[c].wf_alloc_indx
      /\ b.allocated_wfs = cu[c].allocated_wfs
  BY BaseType
<1>2. krnl.n_WFs_m1 + 1 \in 0..N_WF_CU /\ 0 \in WFs
  <2>1. krnl \in Kernels
    BY DEF TypeOK
  <2> QED
    BY <2>1, WavefrontsOfKernel, SizesAssumption DEF WFs
<1>3. b.wf_alloc_indx \in WFs /\ NextWF(b.wf_alloc_indx) \in WFs
  BY <1>1, NextWFType DEF Units
<1>4. cu[c].st = "reserve" => b.allocated_wfs + 1 \in 0..N_WF_CU
  BY <1>1, SizesAssumption DEF UnitInv, TypeOK
<1>5. cu[c].st \in CUStates
  BY DEF TypeOK
<1> HIDE DEF b
<1>6. \A v \in Units : Release(c, v) \in Units
  BY DEF Release, Units, CUStates
<1>7. CASE cu[c].st = "free"
  <2>1. Interface(c) \in {b, [b EXCEPT !.st = "reserve", !.wf_alloc_indx = 0,
                                      !.n_wfs = krnl.n_WFs_m1 + 1, !.allocated_wfs = 0]}
    BY <1>7, InterfaceCases DEF b
  <2>2. 0 \in 0..N_WF_CU
    BY SizesAssumption
  <2> QED
    BY <1>1, <1>2, <2>1, <2>2 DEF Units, CUStates
<1>8. CASE cu[c].st = "reserve"
  <2>1. Interface(c) \in {[b EXCEPT !.st = "write_wg_d0", !.allocated_wfs = b.allocated_wfs + 1,
                                   !.wf_activate = {b.wf_alloc_indx}],
                         [b EXCEPT !.wf_alloc_indx = NextWF(b.wf_alloc_indx)]}
    BY <1>8, InterfaceCases DEF b
  <2>2. b.allocated_wfs + 1 \in 0..N_WF_CU /\ {b.wf_alloc_indx} \in SUBSET WFs
    BY <1>3, <1>4, <1>8
  <2> QED
    BY <1>1, <1>3, <2>1, <2>2 DEF Units, CUStates
<1>9. CASE cu[c].st \in {"write_wg_d0", "write_wg_d1"}
  <2>1. Interface(c) \in {[b EXCEPT !.st = "write_wg_d1"], [b EXCEPT !.st = "write_wg_d2"]}
    BY <1>9, InterfaceCases DEF b
  <2> QED
    BY <1>1, <2>1 DEF Units, CUStates
<1>10. CASE cu[c].st = "write_wg_d2"
  <2> DEFINE v == [b EXCEPT !.wf_alloc_indx = NextWF(b.wf_alloc_indx)]
  <2>1. v \in Units
    BY <1>1, <1>3 DEF Units
  <2>2. Interface(c) = IF b.allocated_wfs = b.n_wfs THEN Release(c, v)
                                                    ELSE [v EXCEPT !.st = "reserve"]
    BY <1>10, InterfaceCases DEF b
  <2> QED
    BY <2>1, <2>2, <1>6 DEF Units, CUStates
<1>11. CASE cu[c].st = "wait_wg_finish"
  BY <1>1, <1>6, <1>11, InterfaceCases DEF b
<1> QED
  BY <1>5, <1>7, <1>8, <1>9, <1>10, <1>11 DEF CUStates

LEMMA UnitStep ==
  ASSUME TypeOK, NEW c \in CUs, UnitInv(c), NEW retire, ComputeUnits(retire),
         sch_rqst(c) => cu[c].st = "free"
  PROVE  /\ UnitInv(c)'
         /\ cu[c].st = "free" /\ ~sch_rqst(c) => Quiet(c)'
<1> DEFINE b == Base(c)
           n == Interface(c)
<1>1. /\ b \in Units /\ b.st = cu[c].st
      /\ b.allocated_wfs = cu[c].allocated_wfs /\ b.n_wfs = cu[c].n_wfs
      /\ b.ack = FALSE /\ b.wf_activate = {} /\ b.dx = DxState(c)
  BY BaseType
<1>2. cu'[c] = n
  BY DEF ComputeUnits
<1>3. wf_active'[c] = (wf_active[c] \ retire[c]) \cup cu[c].wf_activate
  BY DEF ComputeUnits
<1>4. cu[c].st \in CUStates /\ cu[c].dx \in DxStates
  BY DEF TypeOK
<1>5. krnl.n_WFs_m1 + 1 \in 1..N_WF_CU
  <2>1. krnl \in Kernels
    BY DEF TypeOK
  <2> QED
    BY <2>1, WavefrontsOfKernel
<1>6. /\ b.allocated_wfs \in Nat /\ b.n_wfs \in Nat
  BY <1>1, SizesAssumption DEF Units
<1>7. b.dx = CASE cu[c].dx = "write_d0" -> IF sch_rqst(c) THEN "write_d1" ELSE "write_d0"
               [] cu[c].dx = "write_d1" -> "write_d2"
               [] cu[c].dx = "write_d2" -> "write_d0"
  BY <1>1 DEF DxState
<1> HIDE DEF b, n
<1>8. CASE cu[c].st = "free" /\ sch_rqst(c)
  <2>1. n = [b EXCEPT !.st = "reserve", !.wf_alloc_indx = 0,
                      !.n_wfs = krnl.n_WFs_m1 + 1, !.allocated_wfs = 0]
    BY <1>8, InterfaceCases DEF b, n
  <2>2. /\ n.st = "reserve" /\ n.ack = FALSE /\ n.wf_activate = {}
        /\ n.n_wfs = krnl.n_WFs_m1 + 1 /\ n.allocated_wfs = 0 /\ n.dx = b.dx
    BY <2>1, <1>1 DEF Units
  <2>3. n.dx \in {"write_d1"}
    BY <2>2, <1>8, <1>4, <1>7 DEF UnitInv, DxStates
  <2> QED
    BY <2>2, <2>3, <1>2, <1>5, <1>8 DEF UnitInv
<1>9. CASE cu[c].st = "free" /\ ~sch_rqst(c)
  <2>1. n = b
    BY <1>9, InterfaceCases DEF b, n
  <2>2. b.dx = "write_d0"
    BY <1>9, <1>4, <1>7 DEF UnitInv, DxStates
  <2>3. wf_active'[c] = {}
    BY <1>3, <1>9 DEF UnitInv
  <2> QED
    BY <2>1, <2>2, <2>3, <1>1, <1>2, <1>9 DEF UnitInv, Quiet
<1>10. CASE cu[c].st = "reserve" /\ cu[c].wf_alloc_indx \notin wf_active[c]
  <2>1. n = [b EXCEPT !.st = "write_wg_d0", !.allocated_wfs = b.allocated_wfs + 1,
                      !.wf_activate = {b.wf_alloc_indx}]
    BY <1>10, InterfaceCases DEF b, n
  <2>2. /\ n.st = "write_wg_d0" /\ n.ack = FALSE /\ n.allocated_wfs = b.allocated_wfs + 1
        /\ n.n_wfs = b.n_wfs /\ n.dx = b.dx
    BY <2>1, <1>1 DEF Units
  <2>3. b.dx # "write_d1"
    BY <1>10, <1>4, <1>7 DEF DxStates
  <2> QED
    BY <2>2, <2>3, <1>1, <1>2, <1>6, <1>10 DEF UnitInv
<1>11. CASE cu[c].st = "reserve" /\ cu[c].wf_alloc_indx \in wf_active[c]
  <2>1. n = [b EXCEPT !.wf_alloc_indx = NextWF(b.wf_alloc_indx)]
    BY <1>11, InterfaceCases DEF b, n
  <2>2. /\ n.st = "reserve" /\ n.ack = FALSE /\ n.allocated_wfs = b.allocated_wfs
        /\ n.n_wfs = b.n_wfs /\ n.dx = b.dx /\ n.wf_activate = {}
    BY <2>1, <1>1, <1>11 DEF Units
  <2> QED
    BY <2>2, <1>1, <1>2, <1>6, <1>11 DEF UnitInv
<1>12. CASE cu[c].st = "write_wg_d0"
  <2>1. n = [b EXCEPT !.st = "write_wg_d1"]
    BY <1>12, InterfaceCases DEF b, n
  <2>2. b.dx = "write_d0"
    BY <1>12, <1>4, <1>7 DEF UnitInv, DxStates
  <2> QED
    BY <2>1, <2>2, <1>1, <1>2, <1>12 DEF UnitInv, Units
<1>13. CASE cu[c].st = "write_wg_d1"
  <2>1. n = [b EXCEPT !.st = "write_wg_d2"]
    BY <1>13, InterfaceCases DEF b, n
  <2>2. b.dx = "write_d0"
    BY <1>13, <1>4, <1>7 DEF UnitInv, DxStates
  <2> QED
    BY <2>1, <2>2, <1>1, <1>2, <1>13 DEF UnitInv, Units
<1>14. CASE cu[c].st \in {"write_wg_d2", "wait_wg_finish"}
  <2>1. b.dx = "write_d0" /\ wf_active'[c] \subseteq wf_active[c]
    BY <1>3, <1>14, <1>4, <1>7 DEF UnitInv, DxStates
  <2>2. CASE wf_active[c] = {} /\ n.ack /\ n.st = "free" /\ n.wf_activate = {} /\ n.dx = b.dx
    BY <2>1, <2>2, <1>2, <1>14 DEF UnitInv
  <2>3. CASE /\ n.st = "wait_wg_finish" /\ ~n.ack /\ n.wf_activate = {} /\ n.dx = b.dx
             /\ n.allocated_wfs = b.allocated_wfs /\ n.n_wfs = b.n_wfs
    BY <2>1, <2>3, <1>1, <1>2, <1>14 DEF UnitInv
  <2>4. CASE /\ n.st = "reserve" /\ ~n.ack /\ n.wf_activate = {} /\ n.dx = b.dx
             /\ n.allocated_wfs = b.allocated_wfs /\ n.n_wfs = b.n_wfs
             /\ b.allocated_wfs # b.n_wfs
    BY <2>1, <2>4, <1>1, <1>2, <1>6, <1>14 DEF UnitInv
  <2>5. PICK v \in Units : /\ v.allocated_wfs = b.allocated_wfs /\ v.n_wfs = b.n_wfs
                           /\ v.ack = FALSE /\ v.wf_activate = {} /\ v.dx = b.dx
                           /\ \/ n = Release(c, v)
                              \/ b.allocated_wfs # b.n_wfs /\ n = [v EXCEPT !.st = "reserve"]
    <3>1. CASE cu[c].st = "write_wg_d2"
      <4> DEFINE v == [b EXCEPT !.wf_alloc_indx = NextWF(b.wf_alloc_indx)]
      <4>1. b.wf_alloc_indx \in WFs
        BY <1>1 DEF Units
      <4>2. v \in Units
        BY <4>1, <1>1, NextWFType DEF Units
      <4>3. n = IF b.allocated_wfs = b.n_wfs THEN Release(c, v) ELSE [v EXCEPT !.st = "reserve"]
        BY <3>1, InterfaceCases DEF b, n
      <4>4. /\ v.allocated_wfs = b.allocated_wfs /\ v.n_wfs = b.n_wfs
            /\ v.ack = FALSE /\ v.wf_activate = {} /\ v.dx = b.dx
        BY <1>1 DEF Units
      <4> QED
        BY <4>2, <4>3, <4>4
    <3>2. CASE cu[c].st = "wait_wg_finish"
      <4>1. n = Release(c, b)
        BY <3>2, InterfaceCases DEF b, n
      <4> QED
        BY <4>1, <1>1
    <3> QED
      BY <3>1, <3>2, <1>14
  <2>6. CASE n = Release(c, v)
    BY <2>2, <2>3, <2>5, <2>6 DEF Release, Units
  <2>7. CASE b.allocated_wfs # b.n_wfs /\ n = [v EXCEPT !.st = "reserve"]
    BY <2>4, <2>5, <2>7 DEF Units
  <2> QED
    BY <2>5, <2>6, <2>7
<1> QED
  BY <1>4, <1>8, <1>9, <1>10, <1>11, <1>12, <1>13, <1>14 DEF CUStates

-----------------------------------------------------------------------------
(* The dispatcher *)

LEMMA UnitNumbers == N_CU \notin CUs /\ N_CU \in 0..N_CU /\ CUs \subseteq 0..N_CU
BY SizesAssumption DEF CUs

LEMMA RequestedUnit ==
  ASSUME TypeOK
  PROVE  /\ req_n \in 0..N_CU
         /\ req_n # N_CU => st_sch = "seekCV" /\ req_n = alloc_CV_indx /\ req_n \in CUs
         /\ finish_i => st_sch = "wait_finish"
BY UnitNumbers, SizesAssumption DEF TypeOK, req_n, finish_i, CUs

LEMMA BooksStep ==
  ASSUME TypeOK, NoWorkInv, RequestRegisters
  PROVE  /\ finish_i => schedulingInProgress = {} /\ schedulingInProgress' = {} /\ req' = N_CU
         /\ ~finish_i => /\ schedulingInProgress' =
                             (schedulingInProgress \cup ({req_n} \cap CUs)) \ Acks
                        /\ req' = req_n
         /\ req_n \notin CUs => schedulingInProgress' \subseteq schedulingInProgress
BY RequestedUnit DEF RequestRegisters, NoWorkInv

LEMMA NoWorkStep ==
  ASSUME TypeOK, NoWorkInv, NEW k, NEW e, Scheduler(k, e), RequestRegisters
  PROVE  NoWorkInv'
<1> SUFFICES ASSUME st_sch' \in {"idle", "read_delay", "prepare", "wait_finish"}
             PROVE  schedulingInProgress' = {}
  BY DEF NoWorkInv
<1>1. CASE Idle(k) \/ ReadDelay \/ Prepare(e) \/ WaitFinish
  <2>1. st_sch \in {"idle", "read_delay", "prepare", "wait_finish"}
    BY <1>1 DEF Idle, ReadDelay, Prepare, WaitFinish
  <2>2. req_n \notin CUs /\ schedulingInProgress = {}
    BY <2>1, UnitNumbers DEF req_n, NoWorkInv
  <2> QED
    BY <2>2, BooksStep
<1>2. CASE WaitWfActive
  <2>1. schedulingInProgress = {} /\ st_sch = "wait_wf_active"
    BY <1>2 DEF WaitWfActive
  <2>2. req_n \notin CUs
    BY <2>1, UnitNumbers DEF req_n
  <2> QED
    BY <2>1, <2>2, BooksStep
<1>3. CASE SeekCV \/ AllocateWFs \/ CheckAgain
  BY <1>3 DEF SeekCV, AllocateWFs, CheckAgain
<1> QED
  BY <1>1, <1>2, <1>3 DEF Scheduler

LEMMA FoundStep ==
  ASSUME TypeOK, NoWorkInv, NEW k, NEW e, Scheduler(k, e), RequestRegisters, Search
  PROVE  FoundInv'
<1> SUFFICES ASSUME st_sch' = "seekCV"
             PROVE  alloc_CV_indx' \notin schedulingInProgress'
  BY DEF FoundInv
<1>1. /\ st_sch \in {"prepare", "seekCV", "checkAgain"}
      /\ st_sch = "seekCV" => alloc_CV_indx = N_CU
  BY DEF Scheduler, Idle, ReadDelay, Prepare, SeekCV, AllocateWFs, CheckAgain,
         WaitWfActive, WaitFinish
<1>2. req_n = N_CU /\ ~finish_i
  BY <1>1 DEF req_n, finish_i
<1>3. schedulingInProgress' \subseteq schedulingInProgress
  BY <1>2, UnitNumbers, BooksStep
<1>4. /\ schedulingInProgress \subseteq CUs
      /\ alloc_CV_indx' = N_CU \/ alloc_CV_indx' \notin schedulingInProgress
  BY <1>2 DEF TypeOK, Search
<1> QED
  BY <1>3, <1>4, UnitNumbers

(* The token of a unit *)

LEMMA WayStep ==
  ASSUME TypeOK, OneTokenInv, NEW c \in CUs, Broadcast
  PROVE  /\ \A d \in Ahead(c) : line'[d].req = IF d = N_CU - 1 THEN req ELSE line[d + 1].req
         /\ \A d \in Ahead(c) : d # N_CU - 1 => d + 1 \in Ahead(c)
         /\ OnItsWay(c)' => req = c \/ (OnItsWay(c) /\ ~sch_rqst(c))
         /\ sch_rqst(c) => OnItsWay(c)
<1>1. \A d \in CUs : line'[d] = IF d = N_CU - 1 THEN [req |-> req, info |-> wg_info]
                                                ELSE line[d + 1]
  BY DEF Broadcast
<1>2. \A d \in Ahead(c) : line'[d].req = IF d = N_CU - 1 THEN req ELSE line[d + 1].req
  BY <1>1 DEF Ahead
<1>3. \A d \in Ahead(c) : d # N_CU - 1 => d + 1 \in Ahead(c) /\ d + 1 # c
  BY SizesAssumption DEF Ahead, CUs
<1>4. c \in Ahead(c)
  BY DEF Ahead, CUs
<1>5. sch_rqst(c) => OnItsWay(c)
  BY <1>4 DEF sch_rqst, OnItsWay
<1>6. ASSUME OnItsWay(c)', req # c
      PROVE  OnItsWay(c) /\ ~sch_rqst(c)
  <2>1. PICK d \in Ahead(c) : line'[d].req = c
    BY <1>6 DEF OnItsWay, Ahead
  <2>2. line[d + 1].req = c /\ d + 1 \in Ahead(c) /\ d + 1 # c
    BY <1>2, <1>3, <1>6, <2>1
  <2> QED
    BY <1>4, <2>2 DEF OnItsWay, sch_rqst, OneTokenInv
<1> QED
  BY <1>2, <1>3, <1>5, <1>6

LEMMA TokenStep ==
  ASSUME IInv, NEW k, NEW e, NEW retire, Clock(k, e, retire)
  PROVE  OneTokenInv' /\ UnitsInv'
<1> SUFFICES ASSUME NEW c \in CUs
             PROVE  /\ UnitInv(c)'
                    /\ c \notin schedulingInProgress' => req' # c /\ ~OnItsWay(c)' /\ Quiet(c)'
                    /\ req' = c => ~OnItsWay(c)' /\ Quiet(c)'
                    /\ OnItsWay(c)' => Quiet(c)'
                    /\ \A d, f \in Ahead(c) : line'[d].req = c /\ line'[f].req = c => d = f
  BY DEF OneTokenInv, UnitsInv, Ahead, CUs
<1> USE DEF IInv
<1>1. /\ RequestRegisters /\ Broadcast /\ ComputeUnits(retire)
  BY DEF Clock
<1>2. /\ c \notin schedulingInProgress => req # c /\ ~OnItsWay(c) /\ Quiet(c)
      /\ req = c => ~OnItsWay(c) /\ Quiet(c)
      /\ OnItsWay(c) => Quiet(c)
      /\ UnitInv(c)
  BY DEF OneTokenInv, UnitsInv
<1>3. /\ OnItsWay(c)' => req = c \/ (OnItsWay(c) /\ ~sch_rqst(c))
      /\ sch_rqst(c) => OnItsWay(c)
  BY <1>1, WayStep
<1>4. /\ UnitInv(c)'
      /\ Quiet(c) /\ ~sch_rqst(c) => Quiet(c)'
      /\ cu[c].ack => Quiet(c)'
  <2>1. sch_rqst(c) => cu[c].st = "free" /\ ~cu[c].ack
    BY <1>2, <1>3 DEF Quiet
  <2>2. cu[c].ack => cu[c].st = "free"
    BY <1>2 DEF UnitInv
  <2> QED
    BY <1>1, <1>2, <2>1, <2>2, UnitStep DEF Quiet
<1>5. req' = c => c \notin schedulingInProgress
  BY <1>1, BooksStep, RequestedUnit, UnitNumbers DEF FoundInv
<1>6. c \notin schedulingInProgress' =>
        (c \notin schedulingInProgress /\ req' # c) \/ (cu[c].ack /\ req' # c)
  BY <1>1, <1>2, <1>5, BooksStep, UnitNumbers DEF Acks, Quiet
<1>7. c \notin schedulingInProgress \/ cu[c].ack => req # c /\ ~OnItsWay(c)
  BY <1>2 DEF Quiet
<1>8. c \notin schedulingInProgress' => req' # c /\ ~OnItsWay(c)' /\ Quiet(c)'
  BY <1>2, <1>3, <1>4, <1>6, <1>7
<1>9. req' = c => ~OnItsWay(c)' /\ Quiet(c)'
  BY <1>2, <1>3, <1>4, <1>5
<1>10. OnItsWay(c)' => Quiet(c)'
  BY <1>2, <1>3, <1>4
<1>11. ASSUME NEW d \in Ahead(c), NEW f \in Ahead(c), line'[d].req = c, line'[f].req = c
       PROVE  d = f
  <2>1. /\ d = N_CU - 1 => req = c
        /\ d # N_CU - 1 => line[d + 1].req = c /\ d + 1 \in Ahead(c)
        /\ f = N_CU - 1 => req = c
        /\ f # N_CU - 1 => line[f + 1].req = c /\ f + 1 \in Ahead(c)
    BY <1>1, <1>11, WayStep
  <2>2. d # N_CU - 1 /\ f # N_CU - 1 => d + 1 = f + 1
    BY <2>1 DEF OneTokenInv
  <2>3. req = c => d = N_CU - 1 /\ f = N_CU - 1
    BY <1>2, <2>1 DEF OnItsWay
  <2>4. d \in Int /\ f \in Int /\ N_CU \in Int
    BY SizesAssumption DEF Ahead, CUs
  <2> QED
    BY <2>1, <2>2, <2>3, <2>4
<1> QED
  BY <1>4, <1>8, <1>9, <1>10, <1>11

-----------------------------------------------------------------------------
(* Types *)

LEMMA AdvanceType ==
  ASSUME NEW x \in Triples, NEW start \in Triples, NEW by \in Triples
  PROVE  Advance(x, start, by) \in Triples
BY DEF Advance, Triples

LEMMA KernelTypes ==
  ASSUME NEW k \in Kernels
  PROVE  k.wg_size \in Triples /\ k.offset \in Triples
<1>1. k.wg_size \in (Nat \ {0}) \X (Nat \ {0}) \X (Nat \ {0}) /\ k.offset \in Nat \X Nat \X Nat
  BY KernelsAssumption
<1> QED
  BY <1>1 DEF Triples

LEMMA SchedulerType ==
  ASSUME TypeOK, NEW k \in Kernels \cup {None}, NEW e, Scheduler(k, e)
  PROVE  /\ krnl' \in Kernels
         /\ st_sch' \in {"idle", "read_delay", "prepare", "seekCV", "allocateWFs", "checkAgain",
                         "wait_wf_active", "wait_finish"}
         /\ id' \in Triples /\ nDisp' \in Triples
         /\ d0_ov' \in BOOLEAN /\ d1_ov' \in BOOLEAN
<1>1. /\ krnl \in Kernels /\ id \in Triples /\ nDisp \in Triples
      /\ d0_ov \in BOOLEAN /\ d1_ov \in BOOLEAN
  BY DEF TypeOK, Triples
<1>2. krnl.wg_size \in Triples /\ krnl.offset \in Triples
  BY <1>1, KernelTypes
<1>3. NoOffset \in Triples /\ <<1, 1, 1>> \in Triples
  BY DEF NoOffset, Triples
<1>4. CASE Idle(k) \/ ReadDelay \/ Prepare(e)
  BY <1>1, <1>2, <1>4 DEF Idle, ReadDelay, Prepare
<1>5. CASE SeekCV \/ AllocateWFs
  BY <1>1, <1>5 DEF SeekCV, AllocateWFs
<1>6. CASE CheckAgain
  <2>1. id' \in Triples
    BY <1>1, <1>2, <1>6, AdvanceType DEF CheckAgain
  <2>2. nDisp' \in Triples
    BY <1>1, <1>3, <1>6, AdvanceType DEF CheckAgain
  <2> QED
    BY <1>1, <1>6, <2>1, <2>2 DEF CheckAgain
<1>7. CASE WaitWfActive \/ WaitFinish
  BY <1>1, <1>3, <1>7 DEF WaitWfActive, WaitFinish
<1> QED
  BY <1>4, <1>5, <1>6, <1>7 DEF Scheduler

LEMMA WavefrontsFinite ==
  ASSUME NEW S \in SUBSET WFs
  PROVE  N_WF_CU - Cardinality(S) \in 0..N_WF_CU
<1>1. IsFiniteSet(WFs) /\ Cardinality(WFs) = N_WF_CU
  BY SizesAssumption, FS_Interval DEF WFs
<1> QED
  BY <1>1, FS_Subset, FS_CardinalityType, SizesAssumption

LEMMA SearchType ==
  ASSUME TypeOK, Search
  PROVE  /\ cd_indx' \in CUs /\ cd_indx_d0' \in CUs /\ cd_indx_d1' \in CUs
         /\ wf_active_slctd' \subseteq WFs /\ n_inactive_wfs' \in 0..N_WF_CU
         /\ alloc_CV_indx' \in 0..N_CU
<1>1. 0 \in CUs /\ 0 \in 0..N_WF_CU /\ 0 \in 0..N_CU
  BY SizesAssumption DEF CUs
<1>2. CASE finish_i
  BY <1>1, <1>2 DEF Search
<1>3. CASE ~finish_i
  <2>1. (cd_indx + 1) % N_CU \in CUs
    BY NextUnitType DEF TypeOK
  <2>2. N_WF_CU - Cardinality(wf_active_slctd) \in 0..N_WF_CU
    BY WavefrontsFinite DEF TypeOK
  <2>3. alloc_CV_indx' \in {cd_indx_d1, N_CU}
    BY <1>3 DEF Search
  <2>4. alloc_CV_indx' \in 0..N_CU
    BY <2>3, UnitNumbers DEF TypeOK
  <2> QED
    BY <1>3, <2>1, <2>2, <2>4 DEF Search, TypeOK
<1> QED
  BY <1>2, <1>3

LEMMA OffsetWordsType ==
  ASSUME TypeOK, NEW e \in BOOLEAN, SendOffset(e), Broadcast
  PROVE  /\ wr_state' \in {"prepare"} \cup DxStates
         /\ wg_info' \in Nat
         /\ line' \in [CUs -> [req : 0..N_CU, info : Nat]]
<1>1. wg_info' \in Nat
  BY DEF TypeOK, SendOffset
<1>2. wr_state' \in {"prepare"} \cup DxStates
  BY DEF TypeOK, SendOffset, DxStates
<1>3. ASSUME NEW c \in CUs
      PROVE  (IF c = N_CU - 1 THEN [req |-> req, info |-> wg_info] ELSE line[c + 1])
               \in [req : 0..N_CU, info : Nat]
  <2>1. c # N_CU - 1 => c + 1 \in CUs
    BY SizesAssumption DEF CUs
  <2> QED
    BY <2>1 DEF TypeOK
<1> QED
  BY <1>1, <1>2, <1>3 DEF Broadcast

LEMMA UnitsType ==
  ASSUME TypeOK, UnitsInv, NEW retire, ComputeUnits(retire)
  PROVE  /\ cu' \in [CUs -> Units]
         /\ wf_active' \in [CUs -> SUBSET WFs]
         /\ rtm' \in [CUs -> [WFs -> Triples]]
<1>1. cu' \in [CUs -> Units]
  BY InterfaceType DEF ComputeUnits, UnitsInv
<1>2. wf_active' \in [CUs -> SUBSET WFs]
  BY DEF ComputeUnits, TypeOK
<1>3. ASSUME NEW c \in CUs
      PROVE  RtmWrite(c) \in [WFs -> Triples]
  <2>1. /\ rtm[c] \in [WFs -> Triples] /\ cu[c].wf_alloc_indx \in WFs
        /\ cu[c].wg_offset \in Triples
    BY DEF TypeOK, Triples
  <2> DEFINE w == cu[c].wf_alloc_indx
             off == cu[c].wg_offset
             Put(d) == [rtm[c] EXCEPT ![w] = [rtm[c][w] EXCEPT ![d] = off[d]]]
  <2>2. off[1] \in Nat /\ off[2] \in Nat /\ off[3] \in Nat
    BY <2>1 DEF Triples
  <2>3. /\ [rtm[c][w] EXCEPT ![1] = off[1]] \in Triples
        /\ [rtm[c][w] EXCEPT ![2] = off[2]] \in Triples
        /\ [rtm[c][w] EXCEPT ![3] = off[3]] \in Triples
    BY <2>1, <2>2, TripleExcept
  <2>4. Put(1) \in [WFs -> Triples] /\ Put(2) \in [WFs -> Triples] /\ Put(3) \in [WFs -> Triples]
    BY <2>1, <2>3
  <2>5. RtmWrite(c) \in {Put(1), Put(2), Put(3), rtm[c]}
    BY DEF RtmWrite
  <2> QED
    BY <2>1, <2>4, <2>5
<1> QED
  BY <1>1, <1>2, <1>3 DEF ComputeUnits

LEMMA HistoryType ==
  ASSUME TypeOK, History
  PROVE  /\ given' \in [CUs -> Triples \cup {None}]
         /\ ran' \in [CUs -> SUBSET WFs]
<1>1. nDisp \in Triples /\ given \in [CUs -> Triples \cup {None}]
  BY DEF TypeOK, Triples
<1>2. ASSUME NEW c \in CUs
      PROVE  (IF c = req_n THEN {} ELSE ran[c] \cup cu[c].wf_activate) \in SUBSET WFs
  BY DEF TypeOK
<1> QED
  BY <1>1, <1>2 DEF History

LEMMA TypeStep ==
  ASSUME TypeOK, NoWorkInv, UnitsInv, NEW k \in Kernels \cup {None}, NEW e \in BOOLEAN,
         NEW retire, Clock(k, e, retire)
  PROVE  TypeOK'
<1>1. /\ Scheduler(k, e) /\ Search /\ RequestRegisters /\ SendOffset(e) /\ Broadcast
      /\ ComputeUnits(retire) /\ History
  BY DEF Clock
<1>2. req' \in 0..N_CU /\ schedulingInProgress' \subseteq CUs
  BY <1>1, BooksStep, RequestedUnit, UnitNumbers DEF TypeOK
<1> QED
  BY <1>1, <1>2, SchedulerType, SearchType, OffsetWordsType, UnitsType, HistoryType
  DEF TypeOK, Units, Triples

-----------------------------------------------------------------------------
(* A request finds its unit free *)

LEMMA InitIInv == Init => IInv
<1> SUFFICES ASSUME Init PROVE IInv
  OBVIOUS
<1>1. TypeOK
  <2>1. /\ 0 \in CUs /\ 0 \in WFs /\ 0 \in 0..N_WF_CU /\ 0 \in 0..N_CU /\ NoOffset \in Nat \X Nat \X Nat
    BY SizesAssumption DEF CUs, WFs, NoOffset
  <2> QED
    BY <2>1, UnitNumbers DEF Init, TypeOK, CUStates, DxStates
<1>2. NoWorkInv /\ FoundInv
  BY DEF Init, NoWorkInv, FoundInv
<1>3. OneTokenInv
  BY UnitNumbers DEF Init, OneTokenInv, OnItsWay, Quiet, Ahead
<1>4. UnitsInv
  BY DEF Init, UnitsInv, UnitInv
<1> QED
  BY <1>1, <1>2, <1>3, <1>4 DEF IInv

LEMMA ClockIInv ==
  ASSUME IInv, NEW k \in Kernels \cup {None}, NEW e \in BOOLEAN, NEW retire, Clock(k, e, retire)
  PROVE  IInv'
<1>1. Scheduler(k, e) /\ RequestRegisters /\ Search
  BY DEF Clock
<1> QED
  BY <1>1, TypeStep, NoWorkStep, FoundStep, TokenStep DEF IInv

LEMMA StepIInv == IInv /\ [Next]_vars => IInv'
<1> SUFFICES ASSUME IInv, [Next]_vars PROVE IInv'
  OBVIOUS
<1>1. CASE Next
  BY <1>1, ClockIInv DEF Next
<1>2. CASE UNCHANGED vars
  BY <1>2 DEF vars, schVars, pipeVars, IInv, TypeOK, NoWorkInv, FoundInv, OneTokenInv, OnItsWay,
              Quiet, UnitsInv, UnitInv
<1> QED
  BY <1>1, <1>2

LEMMA IInvImplies == IInv => RequestFindsUnitFree
<1> SUFFICES ASSUME IInv, NEW c \in CUs, sch_rqst(c)
             PROVE  cu[c].st = "free" /\ cu[c].dx = "write_d0" /\ wf_active[c] = {}
  BY DEF RequestFindsUnitFree
<1>1. OnItsWay(c)
  BY DEF OnItsWay, sch_rqst, Ahead, CUs
<1>2. cu[c].st = "free" /\ UnitInv(c) /\ cu[c].dx \in DxStates
  BY <1>1 DEF IInv, OneTokenInv, Quiet, UnitsInv, TypeOK
<1> QED
  BY <1>2 DEF UnitInv, DxStates

\* For every number of units and wavefronts and all kernels, the registers of the
\* dispatcher and of the units keep their types: the number of wavefronts set up
\* stays within the unit, no index runs out.
THEOREM TypeCorrect == Spec => []TypeOK
<1>1. IInv => TypeOK
  BY DEF IInv
<1> QED
  BY <1>1, InitIInv, StepIInv, PTL DEF Spec

\* For every number of units and wavefronts and all kernels, a request finds the unit
\* it was sent to free, collecting no other offset and without active wavefronts.
THEOREM RequestSafe == Spec => []RequestFindsUnitFree
BY InitIInv, StepIInv, IInvImplies, PTL DEF Spec

-----------------------------------------------------------------------------
(* What the interface FSM does to a unit *)

Same(u, n) == n.allocated_wfs = u.allocated_wfs /\ n.n_wfs = u.n_wfs

\* how unit c moves from u to n
UnitMoves(c, u, n) ==
  /\ n.dx = DxState(c) /\ n.wg_offset = WgOffset(c)
  /\ u.st = "free" /\ sch_rqst(c) =>
       /\ n.st = "reserve" /\ n.wf_alloc_indx = 0 /\ n.wf_activate = {} /\ ~n.ack
       /\ n.n_wfs = krnl.n_WFs_m1 + 1 /\ n.allocated_wfs = 0
  /\ u.st = "free" /\ ~sch_rqst(c) => n.st = "free" /\ n.wf_activate = {} /\ ~n.ack
  /\ u.st = "reserve" /\ u.wf_alloc_indx \notin wf_active[c] =>
       /\ n.st = "write_wg_d0" /\ n.wf_alloc_indx = u.wf_alloc_indx /\ ~n.ack
       /\ n.wf_activate = {u.wf_alloc_indx}
       /\ n.allocated_wfs = u.allocated_wfs + 1 /\ n.n_wfs = u.n_wfs
  /\ u.st = "reserve" /\ u.wf_alloc_indx \in wf_active[c] =>
       /\ n.st = "reserve" /\ n.wf_alloc_indx = NextWF(u.wf_alloc_indx) /\ ~n.ack
       /\ n.wf_activate = {} /\ Same(u, n)
  /\ u.st = "write_wg_d0" => /\ n.st = "write_wg_d1" /\ n.wf_alloc_indx = u.wf_alloc_indx
                             /\ n.wf_activate = {} /\ ~n.ack /\ Same(u, n)
  /\ u.st = "write_wg_d1" => /\ n.st = "write_wg_d2" /\ n.wf_alloc_indx = u.wf_alloc_indx
                             /\ n.wf_activate = {} /\ ~n.ack /\ Same(u, n)
  /\ u.st = "write_wg_d2" /\ u.allocated_wfs # u.n_wfs =>
       /\ n.st = "reserve" /\ n.wf_alloc_indx = NextWF(u.wf_alloc_indx) /\ ~n.ack
       /\ n.wf_activate = {} /\ Same(u, n)
  /\ \/ u.st = "write_wg_d2" /\ u.allocated_wfs = u.n_wfs
     \/ u.st = "wait_wg_finish"
     => /\ n.st \in {"free", "wait_wg_finish"} /\ (n.ack <=> n.st = "free")
        /\ n.wf_activate = {} /\ Same(u, n)

LEMMA UnitMoved ==
  ASSUME TypeOK, NEW c \in CUs, NEW retire, ComputeUnits(retire)
  PROVE  UnitMoves(c, cu[c], cu'[c])
<1> DEFINE b == Base(c)
           n == Interface(c)
<1> SUFFICES UnitMoves(c, cu[c], n)
  BY DEF ComputeUnits
<1>1. /\ b \in Units /\ b.st = cu[c].st /\ b.wf_alloc_indx = cu[c].wf_alloc_indx
      /\ b.allocated_wfs = cu[c].allocated_wfs /\ b.n_wfs = cu[c].n_wfs
      /\ b.ack = FALSE /\ b.wf_activate = {} /\ b.dx = DxState(c)
  BY BaseType
<1>2. b.wg_offset = WgOffset(c) /\ cu[c] \in Units
  BY DEF Base, TypeOK, Units, Triples
<1>4. cu[c].st \in CUStates
  BY <1>2 DEF Units
<1> HIDE DEF b, n
<1>5. CASE cu[c].st = "free" /\ sch_rqst(c)
  <2>1. n = [b EXCEPT !.st = "reserve", !.wf_alloc_indx = 0,
                      !.n_wfs = krnl.n_WFs_m1 + 1, !.allocated_wfs = 0]
    BY <1>5, InterfaceCases DEF b, n
  <2> QED
    BY <1>1, <1>2, <1>5, <2>1 DEF Units, UnitMoves
<1>6. CASE cu[c].st = "free" /\ ~sch_rqst(c)
  <2>1. n = b
    BY <1>6, InterfaceCases DEF b, n
  <2> QED
    BY <1>1, <1>2, <1>6, <2>1 DEF UnitMoves
<1>7. CASE cu[c].st = "reserve" /\ cu[c].wf_alloc_indx \notin wf_active[c]
  <2>1. n = [b EXCEPT !.st = "write_wg_d0", !.allocated_wfs = b.allocated_wfs + 1,
                      !.wf_activate = {b.wf_alloc_indx}]
    BY <1>7, InterfaceCases DEF b, n
  <2> QED
    BY <1>1, <1>2, <1>7, <2>1 DEF Units, UnitMoves
<1>8. CASE cu[c].st = "reserve" /\ cu[c].wf_alloc_indx \in wf_active[c]
  <2>1. n = [b EXCEPT !.wf_alloc_indx = NextWF(b.wf_alloc_indx)]
    BY <1>8, InterfaceCases DEF b, n
  <2> QED
    BY <1>1, <1>2, <1>8, <2>1 DEF Units, UnitMoves, Same
<1>9. CASE cu[c].st = "write_wg_d0"
  <2>1. n = [b EXCEPT !.st = "write_wg_d1"]
    BY <1>9, InterfaceCases DEF b, n
  <2> QED
    BY <1>1, <1>2, <1>9, <2>1 DEF Units, UnitMoves, Same
<1>10. CASE cu[c].st = "write_wg_d1"
  <2>1. n = [b EXCEPT !.st = "write_wg_d2"]
    BY <1>10, InterfaceCases DEF b, n
  <2> QED
    BY <1>1, <1>2, <1>10, <2>1 DEF Units, UnitMoves, Same
<1>11. CASE cu[c].st = "write_wg_d2"
  <2> DEFINE v == [b EXCEPT !.wf_alloc_indx = NextWF(b.wf_alloc_indx)]
  <2>1. n = IF b.allocated_wfs = b.n_wfs THEN Release(c, v) ELSE [v EXCEPT !.st = "reserve"]
    BY <1>11, InterfaceCases DEF b, n
  <2>2. /\ v \in Units /\ v.wf_alloc_indx = NextWF(cu[c].wf_alloc_indx) /\ Same(cu[c], v)
        /\ v.ack = FALSE /\ v.wf_activate = {} /\ v.dx = DxState(c) /\ v.wg_offset = WgOffset(c)
    <3>1. NextWF(b.wf_alloc_indx) \in WFs
      BY <1>1, NextWFType DEF Units
    <3> QED
      BY <1>1, <1>2, <3>1 DEF Units, Same
  <2> HIDE DEF v
  <2>3. CASE cu[c].allocated_wfs = cu[c].n_wfs
    <3>1. n \in {[v EXCEPT !.st = "free", !.ack = TRUE], [v EXCEPT !.st = "wait_wg_finish"]}
      BY <1>1, <2>1, <2>3 DEF Release
    <3> QED
      BY <1>11, <2>2, <2>3, <3>1 DEF Units, UnitMoves, Same
  <2>4. CASE cu[c].allocated_wfs # cu[c].n_wfs
    <3>1. n = [v EXCEPT !.st = "reserve"]
      BY <1>1, <2>1, <2>4
    <3> QED
      BY <1>11, <2>2, <2>4, <3>1 DEF Units, UnitMoves, Same
  <2> QED
    BY <2>3, <2>4
<1>12. CASE cu[c].st = "wait_wg_finish"
  <2>1. n \in {[b EXCEPT !.st = "free", !.ack = TRUE], [b EXCEPT !.st = "wait_wg_finish"]}
    BY <1>12, InterfaceCases DEF b, n, Release
  <2> QED
    BY <1>1, <1>2, <1>12, <2>1 DEF Units, UnitMoves, Same
<1> QED
  BY <1>4, <1>5, <1>6, <1>7, <1>8, <1>9, <1>10, <1>11, <1>12 DEF CUStates

-----------------------------------------------------------------------------
(* The offset a wavefront runs with.  The words of a work-group's offset are *)
(* the next three in the registers, from the one the request is in; the      *)
(* scheduler has not moved on while it sends them; the unit takes them in    *)
(* as they pass, and has all before it writes the second into the run-time   *)
(* memory.                                                                   *)

\* the scheduler counts in work-groups and in offsets, and sends while it counts
CountInv ==
  /\ st_sch \in {"idle", "read_delay", "prepare"} => nDisp = NoOffset /\ wr_state = "prepare"
  /\ st_sch \in {"seekCV", "allocateWFs", "checkAgain"} => id = OffsetOf(nDisp)
  /\ st_sch \in {"seekCV", "wait_wf_active", "wait_finish"} => wr_state = "write_d0"
  /\ st_sch = "allocateWFs" => wr_state = "write_d1"
  /\ st_sch = "checkAgain" => wr_state = "write_d2"

\* the registers on the way, the first one at the dispatcher
Reg(d) == IF d = N_CU THEN [req |-> req, info |-> wg_info] ELSE line[d]

\* word i of the offset unit c should get
Word(c, i) == OffsetOf(given[c])[i]

\* the words follow the request for c, which is in register d
Follows(c, d) ==
  /\ Reg(d).info = Word(c, 1)
  /\ d < N_CU => Reg(d + 1).info = Word(c, 2)
  /\ d < N_CU - 1 => Reg(d + 2).info = Word(c, 3)
  /\ d = N_CU => st_sch = "allocateWFs" /\ nDisp = given[c]
  /\ d = N_CU - 1 => st_sch = "checkAgain" /\ nDisp = given[c]

WordsInv == \A c \in CUs, d \in 0..N_CU : c <= d /\ Reg(d).req = c => Follows(c, d)

\* unit c has taken in the words that have passed
Collects(c) ==
  /\ cu[c].dx = "write_d1" => /\ cu[c].wg_offset[1] = Word(c, 1)
                              /\ Reg(c).info = Word(c, 2) /\ Reg(c + 1).info = Word(c, 3)
  /\ cu[c].dx = "write_d2" => /\ cu[c].wg_offset[1] = Word(c, 1) /\ cu[c].wg_offset[2] = Word(c, 2)
                              /\ Reg(c).info = Word(c, 3)
  /\ cu[c].dx = "write_d0" /\ cu[c].st # "free" => cu[c].wg_offset = OffsetOf(given[c])

CollectInv == \A c \in CUs : Collects(c)

\* the run-time memory of unit c has the words that have been written
SetsUp(c) ==
  LET i == cu[c].wf_alloc_indx
  IN /\ cu[c].wf_activate \subseteq {i}
     /\ cu[c].st = "write_wg_d0" => i \notin wf_active[c]
     /\ cu[c].st \in {"write_wg_d1", "write_wg_d2"} => rtm[c][i][1] = Word(c, 1)
     /\ cu[c].st = "write_wg_d2" => rtm[c][i][2] = Word(c, 2)
     /\ \A w \in wf_active[c] : BeingSetUp(c, w) \/ rtm[c][w] = OffsetOf(given[c])

SetUpInv == \A c \in CUs : SetsUp(c)

OffsetInv == CountInv /\ WordsInv /\ CollectInv /\ SetUpInv

LEMMA NextProduct ==
  ASSUME NEW a \in Nat, NEW n \in Nat, NEW s \in Nat
  PROVE  a + (n + 1) * s = a + n * s + s /\ a + 0 * s = a
OBVIOUS

LEMMA CountStep ==
  ASSUME TypeOK, CountInv, NEW k \in Kernels \cup {None}, NEW e \in BOOLEAN, NEW retire,
         Clock(k, e, retire)
  PROVE  CountInv'
<1>1. Scheduler(k, e) /\ SendOffset(e)
  BY DEF Clock
<1>2. /\ krnl \in Kernels /\ nDisp \in Triples /\ id \in Triples
      /\ krnl.offset \in Triples /\ krnl.wg_size \in Triples
      /\ d0_ov \in BOOLEAN /\ d1_ov \in BOOLEAN
  BY KernelTypes DEF TypeOK, Triples
<1>3. finish_i => st_sch = "wait_finish"
  BY DEF finish_i
<1>4. CASE Idle(k)
  BY <1>1, <1>3, <1>4 DEF Idle, CountInv, SendOffset
<1>5. CASE ReadDelay
  BY <1>1, <1>3, <1>5 DEF ReadDelay, CountInv, SendOffset
<1>6. CASE Prepare(e)
  <2>1. wr_state = "prepare" /\ nDisp = NoOffset /\ nDisp' = nDisp /\ krnl' = krnl
    BY <1>6 DEF Prepare, CountInv
  <2>2. CASE e
    <3>1. st_sch' = "seekCV" /\ id' = krnl.offset /\ wr_state' = "write_d0"
      BY <1>1, <1>6, <2>1, <2>2 DEF Prepare, SendOffset
    <3>2. OffsetOf(NoOffset) = krnl.offset
      BY <1>2, NextProduct DEF OffsetOf, NoOffset, Triples
    <3> QED
      BY <2>1, <3>1, <3>2 DEF CountInv, OffsetOf
  <2>3. CASE ~e
    BY <1>1, <1>6, <2>1, <2>3 DEF Prepare, SendOffset, CountInv
  <2> QED
    BY <2>2, <2>3
<1>7. CASE SeekCV
  <2>1. wr_state = "write_d0" /\ id = OffsetOf(nDisp) /\ ~finish_i /\ req_n = alloc_CV_indx
    BY <1>3, <1>7 DEF SeekCV, CountInv, req_n
  <2>2. /\ nDisp' = nDisp /\ krnl' = krnl /\ id' = id
        /\ st_sch' = IF alloc_CV_indx # N_CU THEN "allocateWFs" ELSE "seekCV"
    BY <1>7 DEF SeekCV
  <2>3. wr_state' = IF alloc_CV_indx # N_CU THEN "write_d1" ELSE "write_d0"
    BY <1>1, <2>1 DEF SendOffset
  <2> QED
    BY <2>1, <2>2, <2>3 DEF CountInv, OffsetOf
<1>8. CASE AllocateWFs
  BY <1>1, <1>8 DEF AllocateWFs, CountInv, SendOffset, OffsetOf
<1>9. CASE CheckAgain
  <2>1. wr_state' = "write_d0" /\ id = OffsetOf(nDisp) /\ krnl' = krnl
    BY <1>1, <1>9 DEF CheckAgain, CountInv, SendOffset
  <2>2. id' = Advance(id, krnl.offset, krnl.wg_size) /\ nDisp' = Advance(nDisp, NoOffset, <<1, 1, 1>>)
    BY <1>9 DEF CheckAgain
  <2>3. id' = OffsetOf(nDisp')
    <3>1. ASSUME NEW i \in 1..3
          PROVE  /\ krnl.offset[i] \in Nat /\ krnl.wg_size[i] \in Nat /\ nDisp[i] \in Nat
                 /\ krnl.offset[i] + (nDisp[i] + 1) * krnl.wg_size[i] =
                      krnl.offset[i] + nDisp[i] * krnl.wg_size[i] + krnl.wg_size[i]
                 /\ krnl.offset[i] + 0 * krnl.wg_size[i] = krnl.offset[i]
      <4>1. krnl.offset[i] \in Nat /\ krnl.wg_size[i] \in Nat /\ nDisp[i] \in Nat
        BY <1>2 DEF Triples
      <4> QED
        BY <4>1, NextProduct
    <3>2. OffsetOf(nDisp') = <<krnl.offset[1] + nDisp'[1] * krnl.wg_size[1],
                               krnl.offset[2] + nDisp'[2] * krnl.wg_size[2],
                               krnl.offset[3] + nDisp'[3] * krnl.wg_size[3]>>
      BY DEF OffsetOf
    <3>3. id' = <<IF d0_ov THEN krnl.offset[1] ELSE id[1] + krnl.wg_size[1],
                  IF d1_ov THEN krnl.offset[2] ELSE IF d0_ov THEN id[2] + krnl.wg_size[2] ELSE id[2],
                  IF d1_ov THEN id[3] + krnl.wg_size[3] ELSE id[3]>>
      BY <2>2 DEF Advance
    <3>4. nDisp' = <<IF d0_ov THEN 0 ELSE nDisp[1] + 1,
                     IF d1_ov THEN 0 ELSE IF d0_ov THEN nDisp[2] + 1 ELSE nDisp[2],
                     IF d1_ov THEN nDisp[3] + 1 ELSE nDisp[3]>>
      BY <2>2 DEF Advance, NoOffset
    <3>5. id[1] = krnl.offset[1] + nDisp[1] * krnl.wg_size[1]
          /\ id[2] = krnl.offset[2] + nDisp[2] * krnl.wg_size[2]
          /\ id[3] = krnl.offset[3] + nDisp[3] * krnl.wg_size[3]
      BY <2>1 DEF OffsetOf
    <3>6. id'[1] = krnl.offset[1] + nDisp'[1] * krnl.wg_size[1]
      BY <3>1, <3>3, <3>4, <3>5
    <3>7. id'[2] = krnl.offset[2] + nDisp'[2] * krnl.wg_size[2]
      BY <3>1, <3>3, <3>4, <3>5
    <3>8. id'[3] = krnl.offset[3] + nDisp'[3] * krnl.wg_size[3]
      BY <3>1, <3>3, <3>4, <3>5
    <3>9. id' = <<id'[1], id'[2], id'[3]>>
      BY <3>3
    <3> QED
      BY <3>2, <3>6, <3>7, <3>8, <3>9
  <2>4. st_sch' \in {"seekCV", "wait_wf_active"}
    BY <1>9 DEF CheckAgain
  <2> QED
    BY <2>1, <2>3, <2>4 DEF CountInv, OffsetOf
<1>10. CASE WaitWfActive
  BY <1>1, <1>3, <1>10 DEF WaitWfActive, CountInv, SendOffset, req_n
<1>11. CASE WaitFinish
  BY <1>1, <1>3, <1>11 DEF WaitFinish, CountInv, SendOffset, req_n, finish_i
<1> QED
  BY <1>1, <1>4, <1>5, <1>6, <1>7, <1>8, <1>9, <1>10, <1>11 DEF Scheduler

\* what is on its way to a unit, in it or in its wavefronts stays the same until it is over
LEMMA GivenKept ==
  ASSUME IInv, NEW k, NEW e, NEW retire, Clock(k, e, retire), NEW c \in CUs,
         req = c \/ OnItsWay(c) \/ cu[c].st # "free"
  PROVE  krnl' = krnl /\ given'[c] = given[c] /\ OffsetOf(given[c])' = OffsetOf(given[c])
<1>1. c \in schedulingInProgress
  BY DEF IInv, OneTokenInv, Quiet
<1>2. krnl' = krnl
  BY <1>1 DEF IInv, NoWorkInv, Clock, Scheduler, Idle, ReadDelay, Prepare, SeekCV, AllocateWFs,
              CheckAgain, WaitWfActive, WaitFinish
<1>3. req_n # c
  BY <1>1, RequestedUnit, UnitNumbers DEF IInv, FoundInv
<1>4. given'[c] = given[c]
  BY <1>3 DEF Clock, History, IInv, TypeOK
<1> QED
  BY <1>2, <1>4 DEF OffsetOf

LEMMA Registers ==
  ASSUME TypeOK, Broadcast, RequestRegisters, NoWorkInv
  PROVE  /\ \A d \in 0..N_CU : d < N_CU => Reg(d)' = Reg(d + 1)
         /\ Reg(N_CU)'.req = req' /\ Reg(N_CU)'.info = wg_info'
         /\ req' # N_CU => req' = req_n /\ req_n \in CUs
<1>1. ASSUME NEW d \in 0..N_CU, d < N_CU PROVE Reg(d)' = Reg(d + 1)
  <2>1. d \in CUs /\ (d = N_CU - 1 <=> d + 1 = N_CU) /\ d # N_CU
    BY <1>1, SizesAssumption DEF CUs
  <2> QED
    BY <2>1 DEF Broadcast, Reg
<1>2. req' # N_CU => req' = req_n /\ req_n \in CUs
  BY BooksStep, RequestedUnit
<1> QED
  BY <1>1, <1>2 DEF Reg

LEMMA WordsStep ==
  ASSUME IInv, OffsetInv, NEW k, NEW e, NEW retire, Clock(k, e, retire)
  PROVE  WordsInv'
<1> SUFFICES ASSUME NEW c \in CUs, NEW d \in 0..N_CU, c <= d, Reg(d)'.req = c
             PROVE  Follows(c, d)'
  BY DEF WordsInv
<1>1. /\ Scheduler(k, e) /\ RequestRegisters /\ SendOffset(e) /\ Broadcast /\ History
      /\ TypeOK /\ NoWorkInv
  BY DEF Clock, IInv
<1>2. c \in Nat /\ c < N_CU /\ N_CU \in Nat /\ d \in Nat
  BY SizesAssumption DEF CUs
<1>3. /\ \A j \in 0..N_CU : j < N_CU => Reg(j)' = Reg(j + 1)
      /\ Reg(N_CU)'.req = req' /\ Reg(N_CU)'.info = wg_info'
      /\ req' # N_CU => req' = req_n /\ req_n \in CUs
  BY <1>1, Registers
<1>4. CASE d = N_CU
  <2>1. req_n = c /\ st_sch = "seekCV" /\ alloc_CV_indx = c
    BY <1>1, <1>2, <1>3, <1>4, RequestedUnit
  <2>2. st_sch' = "allocateWFs" /\ nDisp' = nDisp /\ krnl' = krnl
    BY <1>1, <1>2, <2>1 DEF Scheduler, Idle, ReadDelay, Prepare, SeekCV, AllocateWFs,
                            CheckAgain, WaitWfActive, WaitFinish
  <2>3. wr_state = "write_d0" /\ id = OffsetOf(nDisp)
    BY <2>1 DEF OffsetInv, CountInv
  <2>4. wg_info' = id[1]
    BY <1>1, <2>3 DEF SendOffset
  <2>5. given'[c] = nDisp
    BY <1>1, <2>1 DEF History, TypeOK
  <2> QED
    BY <1>2, <1>3, <1>4, <2>2, <2>3, <2>4, <2>5 DEF Follows, Word, OffsetOf
<1>5. CASE d < N_CU
  <2>1. d + 1 \in 0..N_CU /\ Reg(d)' = Reg(d + 1)
    BY <1>2, <1>3, <1>5
  <2>2. Reg(d + 1).req = c /\ Follows(c, d + 1)
    BY <1>2, <2>1 DEF OffsetInv, WordsInv
  <2>3. req = c \/ OnItsWay(c)
    BY <1>2, <2>1, <2>2 DEF Reg, OnItsWay, Ahead, CUs
  <2>4. given'[c] = given[c] /\ OffsetOf(given[c])' = OffsetOf(given[c])
    BY <2>3, GivenKept
  <2>5. Reg(d)'.info = Word(c, 1)
    BY <2>1, <2>2 DEF Follows
  <2>6. Reg(d + 1)'.info = Word(c, 2)
    <3>1. CASE d + 1 < N_CU
      BY <1>2, <1>3, <2>1, <2>2, <3>1 DEF Follows
    <3>2. CASE d + 1 = N_CU
      <4>1. st_sch = "allocateWFs" /\ nDisp = given[c] /\ wr_state = "write_d1" /\ id = OffsetOf(nDisp)
        BY <2>2, <3>2 DEF Follows, OffsetInv, CountInv
      <4> QED
        BY <1>1, <1>3, <3>2, <4>1 DEF SendOffset, Word
    <3> QED
      BY <1>2, <2>1, <3>1, <3>2
  <2>7. ASSUME d < N_CU - 1 PROVE Reg(d + 2)'.info = Word(c, 3)
    <3>1. CASE d + 2 < N_CU
      BY <1>2, <1>3, <2>1, <2>2, <3>1 DEF Follows
    <3>2. CASE d + 2 = N_CU
      <4>1. d + 1 = N_CU - 1
        BY <1>2, <3>2
      <4>2. st_sch = "checkAgain" /\ nDisp = given[c] /\ wr_state = "write_d2" /\ id = OffsetOf(nDisp)
        BY <2>2, <4>1 DEF Follows, OffsetInv, CountInv
      <4> QED
        BY <1>1, <1>3, <3>2, <4>2 DEF SendOffset, Word
    <3> QED
      BY <1>2, <2>7, <3>1, <3>2
  <2>8. ASSUME d = N_CU - 1 PROVE st_sch' = "checkAgain" /\ nDisp' = given[c]
    <3>1. st_sch = "allocateWFs" /\ nDisp = given[c]
      BY <1>2, <2>2, <2>8 DEF Follows
    <3> QED
      BY <1>1, <3>1 DEF Scheduler, Idle, ReadDelay, Prepare, SeekCV, AllocateWFs,
                        CheckAgain, WaitWfActive, WaitFinish
  <2> QED
    BY <1>2, <1>5, <2>4, <2>5, <2>6, <2>7, <2>8 DEF Follows, Word
<1> QED
  BY <1>2, <1>4, <1>5

LEMMA CollectStep ==
  ASSUME IInv, OffsetInv, NEW k, NEW e, NEW retire, Clock(k, e, retire), NEW c \in CUs
  PROVE  Collects(c)'
<1> DEFINE u == cu[c]
           n == cu'[c]
<1>1. /\ RequestRegisters /\ SendOffset(e) /\ Broadcast /\ ComputeUnits(retire)
      /\ TypeOK /\ NoWorkInv
  BY DEF Clock, IInv
<1>2. c \in Nat /\ c < N_CU /\ N_CU \in Nat /\ c \in 0..N_CU /\ c + 1 \in 0..N_CU
  BY SizesAssumption DEF CUs
<1>3. UnitMoves(c, u, n)
  BY <1>1, UnitMoved
<1>4. /\ \A j \in 0..N_CU : j < N_CU => Reg(j)' = Reg(j + 1)
      /\ Reg(N_CU)'.info = wg_info'
  BY <1>1, Registers
<1>5. /\ u.dx \in DxStates /\ u.st \in CUStates /\ u.wg_offset \in Triples /\ UnitInv(c) /\ Collects(c)
      /\ Reg(c) = line[c]
  BY <1>1, <1>2 DEF TypeOK, Triples, IInv, UnitsInv, OffsetInv, CollectInv, Reg
<1>6. sch_rqst(c) => OnItsWay(c) /\ Reg(c).req = c /\ Follows(c, c) /\ u.st = "free" /\ u.dx = "write_d0"
  <2> SUFFICES ASSUME sch_rqst(c)
               PROVE  OnItsWay(c) /\ Reg(c).req = c /\ Follows(c, c) /\ u.st = "free" /\ u.dx = "write_d0"
    OBVIOUS
  <2>1. Reg(c).req = c
    BY <1>5 DEF sch_rqst
  <2>2. Follows(c, c)
    BY <1>2, <2>1 DEF OffsetInv, WordsInv
  <2>3. OnItsWay(c)
    BY <1>2 DEF sch_rqst, OnItsWay, Ahead
  <2> QED
    BY <2>1, <2>2, <2>3, IInvImplies DEF RequestFindsUnitFree
<1>7. sch_rqst(c) \/ u.st # "free" =>
        given'[c] = given[c] /\ OffsetOf(given[c])' = OffsetOf(given[c])
  BY <1>6, GivenKept
<1>8. OffsetOf(given[c]) = <<Word(c, 1), Word(c, 2), Word(c, 3)>>
  BY DEF Word, OffsetOf
<1> HIDE DEF u, n
<1>9. CASE sch_rqst(c)
  <2>1. n.dx = "write_d1" /\ n.wg_offset = [u.wg_offset EXCEPT ![1] = line[c].info]
    BY <1>3, <1>6, <1>9 DEF UnitMoves, DxState, WgOffset, u
  <2>2. n.wg_offset[1] = Word(c, 1)
    BY <1>5, <1>6, <1>9, <2>1 DEF Follows, Triples
  <2>3. Reg(c)'.info = Word(c, 2)
    BY <1>2, <1>4, <1>6, <1>9 DEF Follows
  <2>4. Reg(c + 1)'.info = Word(c, 3)
    <3>1. CASE c + 1 < N_CU
      <4>1. Reg(c + 1)' = Reg(c + 2)
        BY <1>2, <1>4, <3>1
      <4> QED
        BY <1>2, <1>6, <1>9, <3>1, <4>1 DEF Follows
    <3>2. CASE c + 1 = N_CU
      <4>1. st_sch = "checkAgain" /\ nDisp = given[c] /\ wr_state = "write_d2" /\ id = OffsetOf(nDisp)
        BY <1>2, <1>6, <1>9, <3>2 DEF Follows, OffsetInv, CountInv
      <4> QED
        BY <1>1, <1>4, <3>2, <4>1 DEF SendOffset, Word
    <3> QED
      BY <1>2, <3>1, <3>2
  <2> QED
    BY <1>7, <1>9, <2>1, <2>2, <2>3, <2>4 DEF Collects, Word, n
<1>10. CASE ~sch_rqst(c) /\ u.dx = "write_d1"
  <2>1. n.dx = "write_d2" /\ n.wg_offset = [u.wg_offset EXCEPT ![2] = line[c].info]
    BY <1>3, <1>10 DEF UnitMoves, DxState, WgOffset, u
  <2>2. u.st # "free" /\ u.wg_offset[1] = Word(c, 1) /\ Reg(c).info = Word(c, 2)
        /\ Reg(c + 1).info = Word(c, 3)
    BY <1>5, <1>10 DEF Collects, UnitInv, u
  <2>3. n.wg_offset[1] = Word(c, 1) /\ n.wg_offset[2] = Word(c, 2)
    BY <1>5, <2>1, <2>2 DEF Triples
  <2>4. Reg(c)'.info = Word(c, 3)
    BY <1>2, <1>4, <2>2
  <2> QED
    BY <1>7, <2>1, <2>2, <2>3, <2>4 DEF Collects, Word, n
<1>11. CASE ~sch_rqst(c) /\ u.dx = "write_d2"
  <2>1. n.dx = "write_d0" /\ n.wg_offset = [u.wg_offset EXCEPT ![3] = line[c].info]
    BY <1>3, <1>11 DEF UnitMoves, DxState, WgOffset, u
  <2>2. /\ u.st # "free" /\ u.wg_offset[1] = Word(c, 1) /\ u.wg_offset[2] = Word(c, 2)
        /\ line[c].info = Word(c, 3)
    BY <1>5, <1>11 DEF Collects, UnitInv, u
  <2>3. n.wg_offset = OffsetOf(given[c])
    BY <1>5, <1>8, <2>1, <2>2 DEF Triples
  <2> QED
    BY <1>7, <2>1, <2>2, <2>3 DEF Collects, n
<1>12. CASE ~sch_rqst(c) /\ u.dx = "write_d0"
  <2>1. n.dx = "write_d0" /\ n.wg_offset = u.wg_offset
    BY <1>3, <1>12 DEF UnitMoves, DxState, WgOffset, u
  <2>2. u.st = "free" => n.st = "free"
    BY <1>3, <1>12 DEF UnitMoves
  <2>3. u.st # "free" => u.wg_offset = OffsetOf(given[c])
    BY <1>5, <1>12 DEF Collects, u
  <2> QED
    BY <1>7, <2>1, <2>2, <2>3 DEF Collects, n
<1> QED
  BY <1>5, <1>9, <1>10, <1>11, <1>12 DEF DxStates

\* what a write of one word leaves in the run-time memory
LEMMA RtmStep ==
  ASSUME TypeOK, NEW c \in CUs, NEW retire, ComputeUnits(retire)
  PROVE  /\ \A w \in WFs : ~BeingSetUp(c, w) => rtm'[c][w] = rtm[c][w]
         /\ LET i == cu[c].wf_alloc_indx
            IN /\ i \in WFs /\ rtm[c][i] \in Triples
               /\ cu[c].st = "write_wg_d0" =>
                    rtm'[c][i] = [rtm[c][i] EXCEPT ![1] = cu[c].wg_offset[1]]
               /\ cu[c].st = "write_wg_d1" =>
                    rtm'[c][i] = [rtm[c][i] EXCEPT ![2] = cu[c].wg_offset[2]]
               /\ cu[c].st = "write_wg_d2" =>
                    rtm'[c][i] = [rtm[c][i] EXCEPT ![3] = cu[c].wg_offset[3]]
<1> DEFINE i == cu[c].wf_alloc_indx
           Put(d) == [rtm[c] EXCEPT ![i] = [rtm[c][i] EXCEPT ![d] = cu[c].wg_offset[d]]]
<1>1. i \in WFs /\ rtm[c] \in [WFs -> Triples] /\ cu[c].st \in CUStates
  BY DEF TypeOK, Triples
<1>2. rtm'[c] = CASE cu[c].st = "write_wg_d0" -> Put(1)
                  [] cu[c].st = "write_wg_d1" -> Put(2)
                  [] cu[c].st = "write_wg_d2" -> Put(3)
                  [] OTHER -> rtm[c]
  BY DEF ComputeUnits, RtmWrite
<1>3. /\ \A w \in WFs : w # i => Put(1)[w] = rtm[c][w] /\ Put(2)[w] = rtm[c][w] /\ Put(3)[w] = rtm[c][w]
      /\ Put(1)[i] = [rtm[c][i] EXCEPT ![1] = cu[c].wg_offset[1]]
      /\ Put(2)[i] = [rtm[c][i] EXCEPT ![2] = cu[c].wg_offset[2]]
      /\ Put(3)[i] = [rtm[c][i] EXCEPT ![3] = cu[c].wg_offset[3]]
  BY <1>1
<1> HIDE DEF Put
<1> QED
  BY <1>1, <1>2, <1>3 DEF BeingSetUp

LEMMA SetUpStep ==
  ASSUME IInv, OffsetInv, NEW k, NEW e, NEW retire, Clock(k, e, retire), NEW c \in CUs
  PROVE  SetsUp(c)'
<1> DEFINE u == cu[c]
           n == cu'[c]
           i == u.wf_alloc_indx
<1>1. ComputeUnits(retire) /\ TypeOK
  BY DEF Clock, IInv
<1>2. UnitMoves(c, u, n)
  BY <1>1, UnitMoved
<1>3. /\ u.dx \in DxStates /\ u.st \in CUStates /\ u.wg_offset \in Triples
      /\ UnitInv(c) /\ Collects(c) /\ SetsUp(c) /\ wf_active[c] \subseteq WFs
      /\ wf_active'[c] = (wf_active[c] \ retire[c]) \cup u.wf_activate
  BY <1>1 DEF TypeOK, Triples, IInv, UnitsInv, OffsetInv, CollectInv, SetUpInv, ComputeUnits
<1>4. u.st # "free" => /\ OffsetOf(given[c])' = OffsetOf(given[c])
                       /\ \A j \in 1..3 : Word(c, j)' = Word(c, j)
  BY GivenKept DEF Word
<1>5. OffsetOf(given[c]) = <<Word(c, 1), Word(c, 2), Word(c, 3)>>
  BY DEF Word, OffsetOf
<1>6. /\ i \in WFs /\ rtm[c][i] \in Triples
      /\ \A w \in WFs : ~BeingSetUp(c, w) => rtm'[c][w] = rtm[c][w]
      /\ u.st = "write_wg_d0" => rtm'[c][i] = [rtm[c][i] EXCEPT ![1] = u.wg_offset[1]]
      /\ u.st = "write_wg_d1" => rtm'[c][i] = [rtm[c][i] EXCEPT ![2] = u.wg_offset[2]]
      /\ u.st = "write_wg_d2" => rtm'[c][i] = [rtm[c][i] EXCEPT ![3] = u.wg_offset[3]]
  BY <1>1, RtmStep
<1>7. /\ u.st \in {"write_wg_d0", "write_wg_d1", "write_wg_d2"} => u.wg_offset[1] = Word(c, 1)
      /\ u.st \in {"write_wg_d1", "write_wg_d2"} =>
           u.wg_offset[2] = Word(c, 2) /\ u.wg_offset[3] = Word(c, 3)
  <2>1. u.st \in {"write_wg_d1", "write_wg_d2"} => u.dx = "write_d0"
    BY <1>3 DEF UnitInv, DxStates
  <2>2. u.st = "write_wg_d0" => u.dx \in {"write_d0", "write_d2"}
    BY <1>3 DEF UnitInv, DxStates
  <2> QED
    BY <1>3, <1>5, <2>1, <2>2 DEF Collects
<1>8. /\ u.wf_activate \subseteq {i}
      /\ u.st # "write_wg_d0" => u.wf_activate = {}
      /\ u.st = "write_wg_d0" => i \notin wf_active[c]
      /\ u.st \in {"write_wg_d1", "write_wg_d2"} => rtm[c][i][1] = Word(c, 1)
      /\ u.st = "write_wg_d2" => rtm[c][i][2] = Word(c, 2)
      /\ \A w \in wf_active[c] : BeingSetUp(c, w) \/ rtm[c][w] = OffsetOf(given[c])
  BY <1>3 DEF SetsUp, UnitInv
<1>9. /\ u.st = "write_wg_d0" => rtm'[c][i][1] = Word(c, 1)
      /\ u.st = "write_wg_d1" => rtm'[c][i][1] = Word(c, 1) /\ rtm'[c][i][2] = Word(c, 2)
      /\ u.st = "write_wg_d2" => rtm'[c][i] = OffsetOf(given[c])
  BY <1>5, <1>6, <1>7, <1>8 DEF Triples
<1>10. ASSUME NEW w \in wf_active'[c]
       PROVE  BeingSetUp(c, w)' \/ rtm'[c][w] = OffsetOf(given[c])'
  <2>1. CASE w \in u.wf_activate
    <3>1. w = i /\ u.st = "write_wg_d0"
      BY <1>8, <2>1
    <3> QED
      BY <1>2, <3>1 DEF UnitMoves, BeingSetUp
  <2>2. CASE w \in wf_active[c]
    <3>1. u.st # "free" /\ w \in WFs
      BY <1>3, <2>2 DEF UnitInv
    <3>2. CASE ~BeingSetUp(c, w)
      BY <1>4, <1>6, <1>8, <2>2, <3>1, <3>2
    <3>3. CASE BeingSetUp(c, w) /\ u.st = "write_wg_d2"
      BY <1>4, <1>9, <3>3 DEF BeingSetUp
    <3>4. CASE BeingSetUp(c, w) /\ u.st \in {"write_wg_d0", "write_wg_d1"}
      BY <1>2, <3>4 DEF UnitMoves, BeingSetUp
    <3> QED
      BY <3>2, <3>3, <3>4 DEF BeingSetUp
  <2> QED
    BY <1>3, <2>1, <2>2
<1> HIDE DEF u, n, i
<1>11. /\ n.wf_activate \subseteq {n.wf_alloc_indx}
       /\ n.st = "write_wg_d0" => u.st = "reserve" /\ i \notin wf_active[c] /\ n.wf_alloc_indx = i
       /\ n.st = "write_wg_d1" => u.st = "write_wg_d0" /\ n.wf_alloc_indx = i
       /\ n.st = "write_wg_d2" => u.st = "write_wg_d1" /\ n.wf_alloc_indx = i
  BY <1>2, <1>3 DEF UnitMoves, CUStates, i
<1>12. n.st = "write_wg_d0" => n.wf_alloc_indx \notin wf_active'[c]
  BY <1>3, <1>8, <1>11
<1>13. /\ n.st \in {"write_wg_d1", "write_wg_d2"} => rtm'[c][n.wf_alloc_indx][1] = Word(c, 1)'
       /\ n.st = "write_wg_d2" => rtm'[c][n.wf_alloc_indx][2] = Word(c, 2)'
  BY <1>4, <1>9, <1>11
<1> QED
  BY <1>10, <1>11, <1>12, <1>13 DEF SetsUp, n

LEMMA InitOffsetInv == Init => OffsetInv
<1> SUFFICES ASSUME Init PROVE OffsetInv
  OBVIOUS
<1>1. CountInv
  BY DEF Init, CountInv
<1>2. WordsInv
  <2>1. \A d \in 0..N_CU : Reg(d).req = N_CU
    BY SizesAssumption DEF Init, Reg, CUs
  <2> QED
    BY <2>1, UnitNumbers DEF WordsInv
<1>3. CollectInv /\ SetUpInv
  BY DEF Init, CollectInv, Collects, SetUpInv, SetsUp
<1> QED
  BY <1>1, <1>2, <1>3 DEF OffsetInv

LEMMA ClockOffsetInv ==
  ASSUME IInv, OffsetInv, NEW k \in Kernels \cup {None}, NEW e \in BOOLEAN, NEW retire,
         Clock(k, e, retire)
  PROVE  OffsetInv'
<1>1. CountInv'
  BY CountStep DEF OffsetInv, IInv
<1>2. WordsInv'
  BY WordsStep
<1>3. CollectInv' /\ SetUpInv'
  BY CollectStep, SetUpStep DEF CollectInv, SetUpInv
<1> QED
  BY <1>1, <1>2, <1>3 DEF OffsetInv

LEMMA StepOffsetInv == IInv /\ OffsetInv /\ [Next]_vars => OffsetInv'
<1> SUFFICES ASSUME IInv, OffsetInv, [Next]_vars PROVE OffsetInv'
  OBVIOUS
<1>1. CASE Next
  BY <1>1, ClockOffsetInv DEF Next
<1>2. CASE UNCHANGED vars
  <2>1. /\ UNCHANGED <<krnl, st_sch, id, nDisp, req, wr_state, wg_info, line, cu, wf_active, rtm, given>>
    BY <1>2 DEF vars, schVars
  <2>2. CountInv'
    BY <2>1 DEF OffsetInv, CountInv, OffsetOf
  <2>3. WordsInv'
    BY <2>1 DEF OffsetInv, WordsInv, Follows, Reg, Word, OffsetOf
  <2>4. CollectInv'
    BY <2>1 DEF OffsetInv, CollectInv, Collects, Reg, Word, OffsetOf
  <2>5. SetUpInv'
    BY <2>1 DEF OffsetInv, SetUpInv, SetsUp, BeingSetUp, Word, OffsetOf
  <2> QED
    BY <2>2, <2>3, <2>4, <2>5 DEF OffsetInv
<1> QED
  BY <1>1, <1>2

\* For every number of units and wavefronts and all kernels, a running wavefront finds in
\* the run-time memory the offset of the work-group its unit was given: the words, which
\* come through up to N_CU registers behind the request, are not those of another one.
THEOREM OffsetsRight == Spec => []RunsWithItsOffset
<1>1. OffsetInv => RunsWithItsOffset
  BY DEF OffsetInv, SetUpInv, SetsUp, RunsWithItsOffset
<1> QED
  BY <1>1, InitIInv, StepIInv, InitOffsetInv, StepOffsetInv, PTL DEF Spec

-----------------------------------------------------------------------------
(* A work-group is over when all its wavefronts have run.  No wavefront of   *)
(* the unit is skipped: it was free, so the next one to be set up, which is  *)
(* the number of those that have been, is not active.                        *)

FirstWFs(n) == {w \in WFs : w < n}

RanInUnit(c) ==
  LET u == cu[c]
  IN /\ req = c \/ OnItsWay(c) => ran[c] = {}
     /\ wf_active[c] \subseteq ran[c]
     /\ u.st # "free" \/ u.ack => u.n_wfs = krnl.n_WFs_m1 + 1
     /\ u.st = "reserve" => u.wf_alloc_indx = u.allocated_wfs /\ ran[c] = FirstWFs(u.allocated_wfs)
     /\ u.st \in {"write_wg_d0", "write_wg_d1", "write_wg_d2"} =>
          u.allocated_wfs = u.wf_alloc_indx + 1
     /\ u.st = "write_wg_d0" => /\ u.wf_activate = {u.wf_alloc_indx}
                                /\ ran[c] = FirstWFs(u.wf_alloc_indx)
     /\ u.st \in {"write_wg_d1", "write_wg_d2"} => ran[c] = FirstWFs(u.allocated_wfs)
     /\ u.st = "wait_wg_finish" \/ u.ack =>
          u.allocated_wfs = u.n_wfs /\ ran[c] = FirstWFs(u.allocated_wfs)

RanInv == \A c \in CUs : RanInUnit(c)

LEMMA CountFirst ==
  ASSUME NEW n \in 1..N_WF_CU
  PROVE  Cardinality(FirstWFs(n)) = n
<1> DEFINE i == 0
           m == n - 1
<1>1. i \in Int /\ m \in Int /\ ~(i > m) /\ m - i + 1 = n
  BY SizesAssumption
<1>2. FirstWFs(n) = i..m
  BY SizesAssumption DEF FirstWFs, WFs
<1> HIDE DEF i, m
<1>3. Cardinality(i..m) = IF i > m THEN 0 ELSE m - i + 1
  BY <1>1, FS_Interval
<1> QED
  BY <1>1, <1>2, <1>3

LEMMA NextFirst ==
  ASSUME NEW i \in WFs
  PROVE  /\ FirstWFs(i) \cup {i} = FirstWFs(i + 1) /\ i \notin FirstWFs(i)
         /\ i + 1 < N_WF_CU => NextWF(i) = i + 1
BY SizesAssumption DEF FirstWFs, WFs, NextWF

LEMMA RanStep ==
  ASSUME IInv, RanInv, NEW k, NEW e, NEW retire, Clock(k, e, retire), NEW c \in CUs
  PROVE  RanInUnit(c)'
<1> DEFINE u == cu[c]
           n == cu'[c]
<1>1. /\ RequestRegisters /\ Broadcast /\ ComputeUnits(retire) /\ History /\ TypeOK /\ NoWorkInv
  BY DEF Clock, IInv
<1>2. UnitMoves(c, u, n)
  BY <1>1, UnitMoved
<1>3. /\ u.st \in CUStates /\ u.wf_alloc_indx \in WFs /\ UnitInv(c) /\ RanInUnit(c)
      /\ u.allocated_wfs \in 0..N_WF_CU /\ u.n_wfs \in 0..N_WF_CU
      /\ krnl \in Kernels /\ ran[c] \in SUBSET WFs
      /\ wf_active'[c] = (wf_active[c] \ retire[c]) \cup u.wf_activate
      /\ ran'[c] = IF c = req_n THEN {} ELSE ran[c] \cup u.wf_activate
  BY <1>1 DEF TypeOK, IInv, UnitsInv, RanInv, ComputeUnits, History
<1>4. krnl.n_WFs_m1 + 1 \in 1..N_WF_CU
  BY <1>3, WavefrontsOfKernel
<1>5. sch_rqst(c) => OnItsWay(c) /\ u.st = "free" /\ ~u.ack
  <2>1. sch_rqst(c) => OnItsWay(c)
    BY <1>1, WayStep DEF IInv
  <2> QED
    BY <2>1 DEF IInv, OneTokenInv, Quiet
<1>6. c \notin schedulingInProgress => Quiet(c) /\ req # c /\ ~OnItsWay(c)
  BY DEF IInv, OneTokenInv
<1>7. c = req_n => Quiet(c) /\ ~sch_rqst(c)
  BY <1>1, <1>5, <1>6, RequestedUnit, UnitNumbers DEF IInv, FoundInv
<1>8. req = c \/ OnItsWay(c) \/ u.st # "free" => krnl' = krnl
  BY GivenKept
<1>9. req' = c \/ OnItsWay(c)' => ran'[c] = {}
  <2>1. CASE req' = c
    <3>1. c = req_n
      BY <1>1, <2>1, BooksStep, RequestedUnit, UnitNumbers
    <3> QED
      BY <1>3, <3>1
  <2>2. CASE OnItsWay(c)'
    <3>1. req = c \/ OnItsWay(c)
      BY <1>1, <2>2, WayStep DEF IInv
    <3>2. ran[c] = {} /\ u.st = "free"
      BY <1>3, <3>1 DEF RanInUnit, IInv, OneTokenInv, Quiet
    <3> QED
      BY <1>3, <3>2 DEF UnitInv
  <2> QED
    BY <2>1, <2>2
<1>10. wf_active'[c] \subseteq ran'[c]
  <2>1. wf_active[c] \subseteq ran[c]
    BY <1>3 DEF RanInUnit
  <2>2. CASE c = req_n
    BY <1>3, <1>7, <2>2 DEF Quiet, UnitInv
  <2> QED
    BY <1>3, <2>1, <2>2
<1>11. u.st = "free" => ~n.ack /\ u.wf_activate = {}
  BY <1>2, <1>3 DEF UnitMoves, UnitInv
<1>12. u.st # "free" => c # req_n
  BY <1>7 DEF Quiet
<1> HIDE DEF u, n
<1>13. CASE u.st = "free" /\ sch_rqst(c)
  <2>1. ran[c] = {} /\ krnl' = krnl /\ ran'[c] = {}
    BY <1>3, <1>5, <1>8, <1>11, <1>13 DEF RanInUnit, u
  <2>2. /\ n.st = "reserve" /\ n.wf_alloc_indx = 0 /\ n.allocated_wfs = 0 /\ ~n.ack
        /\ n.n_wfs = krnl.n_WFs_m1 + 1
    BY <1>2, <1>13 DEF UnitMoves
  <2>3. FirstWFs(0) = {}
    BY DEF FirstWFs, WFs
  <2> QED
    BY <1>9, <1>10, <2>1, <2>2, <2>3 DEF RanInUnit, n
<1>14. CASE u.st = "free" /\ ~sch_rqst(c)
  <2>1. n.st = "free" /\ ~n.ack
    BY <1>2, <1>14 DEF UnitMoves
  <2> QED
    BY <1>9, <1>10, <2>1 DEF RanInUnit, n
<1>15. CASE u.st = "reserve"
  <2>1. /\ u.wf_alloc_indx = u.allocated_wfs /\ ran[c] = FirstWFs(u.allocated_wfs)
        /\ wf_active[c] \subseteq ran[c] /\ u.n_wfs = krnl.n_WFs_m1 + 1
    BY <1>3, <1>15 DEF RanInUnit, u
  <2>2. u.wf_alloc_indx \notin wf_active[c]
    BY <1>3, <2>1, NextFirst
  <2>3. /\ n.st = "write_wg_d0" /\ n.wf_alloc_indx = u.wf_alloc_indx /\ ~n.ack
        /\ n.wf_activate = {u.wf_alloc_indx}
        /\ n.allocated_wfs = u.allocated_wfs + 1 /\ n.n_wfs = u.n_wfs
    BY <1>2, <1>15, <2>2 DEF UnitMoves
  <2>4. ran'[c] = ran[c]
    BY <1>3, <1>12, <1>15 DEF UnitInv, u
  <2> QED
    BY <1>8, <1>9, <1>10, <1>15, <2>1, <2>3, <2>4 DEF RanInUnit, n, u
<1>16. CASE u.st = "write_wg_d0"
  <2>1. /\ u.allocated_wfs = u.wf_alloc_indx + 1 /\ u.wf_activate = {u.wf_alloc_indx}
        /\ ran[c] = FirstWFs(u.wf_alloc_indx) /\ u.n_wfs = krnl.n_WFs_m1 + 1
    BY <1>3, <1>16 DEF RanInUnit, u
  <2>2. ran'[c] = FirstWFs(u.allocated_wfs)
    BY <1>3, <1>12, <1>16, <2>1, NextFirst DEF u
  <2>3. /\ n.st = "write_wg_d1" /\ n.wf_alloc_indx = u.wf_alloc_indx /\ ~n.ack
        /\ n.allocated_wfs = u.allocated_wfs /\ n.n_wfs = u.n_wfs
    BY <1>2, <1>16 DEF UnitMoves, Same
  <2> QED
    BY <1>8, <1>9, <1>10, <1>16, <2>1, <2>2, <2>3 DEF RanInUnit, n, u
<1>17. CASE u.st \in {"write_wg_d1", "write_wg_d2", "wait_wg_finish"}
  <2>1. /\ u.st # "wait_wg_finish" => u.allocated_wfs = u.wf_alloc_indx + 1
        /\ u.st = "wait_wg_finish" => u.allocated_wfs = u.n_wfs
        /\ ran[c] = FirstWFs(u.allocated_wfs) /\ u.n_wfs = krnl.n_WFs_m1 + 1
    BY <1>3, <1>17 DEF RanInUnit, u
  <2>2. ran'[c] = FirstWFs(u.allocated_wfs)
    BY <1>3, <1>12, <1>17, <2>1 DEF UnitInv, u
  <2>3. CASE u.st = "write_wg_d1"
    <3>1. /\ n.st = "write_wg_d2" /\ n.wf_alloc_indx = u.wf_alloc_indx /\ ~n.ack
          /\ n.allocated_wfs = u.allocated_wfs /\ n.n_wfs = u.n_wfs
      BY <1>2, <2>3 DEF UnitMoves, Same
    <3> QED
      BY <1>8, <1>9, <1>10, <1>17, <2>1, <2>2, <2>3, <3>1 DEF RanInUnit, n, u
  <2>4. CASE u.st = "write_wg_d2" /\ u.allocated_wfs # u.n_wfs
    <3>1. u.wf_alloc_indx + 1 < N_WF_CU
      BY <1>3, <2>1, <2>4, SizesAssumption DEF UnitInv, WFs, u
    <3>2. /\ n.st = "reserve" /\ n.wf_alloc_indx = u.allocated_wfs /\ ~n.ack
          /\ n.allocated_wfs = u.allocated_wfs /\ n.n_wfs = u.n_wfs
      BY <1>2, <1>3, <2>1, <2>4, <3>1, NextFirst DEF UnitMoves, Same
    <3> QED
      BY <1>8, <1>9, <1>10, <1>17, <2>1, <2>2, <3>2 DEF RanInUnit, n, u
  <2>5. CASE \/ u.st = "write_wg_d2" /\ u.allocated_wfs = u.n_wfs
             \/ u.st = "wait_wg_finish"
    <3>1. /\ n.st \in {"free", "wait_wg_finish"}
          /\ n.allocated_wfs = u.allocated_wfs /\ n.n_wfs = u.n_wfs
          /\ u.allocated_wfs = u.n_wfs
      BY <1>2, <2>1, <2>5 DEF UnitMoves, Same
    <3> QED
      BY <1>8, <1>9, <1>10, <1>17, <2>1, <2>2, <3>1 DEF RanInUnit, n, u
  <2> QED
    BY <1>17, <2>3, <2>4, <2>5
<1> QED
  BY <1>3, <1>13, <1>14, <1>15, <1>16, <1>17 DEF CUStates, u

LEMMA InitRanInv == Init => RanInv
<1> SUFFICES ASSUME Init, NEW c \in CUs PROVE RanInUnit(c)
  BY DEF RanInv
<1>1. cu[c].st = "free" /\ ~cu[c].ack /\ ran[c] = {} /\ wf_active[c] = {}
  BY DEF Init
<1> QED
  BY <1>1 DEF RanInUnit

LEMMA StepRanInv == IInv /\ RanInv /\ [Next]_vars => RanInv'
<1> SUFFICES ASSUME IInv, RanInv, [Next]_vars PROVE RanInv'
  OBVIOUS
<1>1. CASE Next
  BY <1>1, RanStep DEF Next, RanInv
<1>2. CASE UNCHANGED vars
  BY <1>2 DEF vars, schVars, RanInv, RanInUnit, OnItsWay
<1> QED
  BY <1>1, <1>2

\* For every number of units and wavefronts and all kernels, a work-group is taken off the
\* books (WG_dispatcher.vhd, schedulingInProgress) only when as many wavefronts as the
\* descriptor says have been activated for it and none of them is active.
THEOREM WholeGroupRanSafe == Spec => WholeGroupRan
<1> DEFINE A == \A c \in CUs : c \in schedulingInProgress /\ c \notin schedulingInProgress' =>
                  Cardinality(ran[c]) = krnl.n_WFs_m1 + 1 /\ wf_active[c] = {}
<1>1. IInv /\ RanInv /\ [Next]_vars => [A]_vars
  <2> SUFFICES ASSUME IInv, RanInv, Next, NEW c \in CUs,
                      c \in schedulingInProgress, c \notin schedulingInProgress'
               PROVE  Cardinality(ran[c]) = krnl.n_WFs_m1 + 1 /\ wf_active[c] = {}
    OBVIOUS
  <2>1. RequestRegisters /\ TypeOK /\ NoWorkInv /\ UnitInv(c) /\ RanInUnit(c)
    BY DEF Next, Clock, IInv, UnitsInv, RanInv
  <2>2. cu[c].ack
    BY <2>1, BooksStep DEF Acks
  <2>3. krnl.n_WFs_m1 + 1 \in 1..N_WF_CU
    BY <2>1, WavefrontsOfKernel DEF TypeOK
  <2>4. ran[c] = FirstWFs(krnl.n_WFs_m1 + 1) /\ wf_active[c] = {}
    BY <2>1, <2>2 DEF RanInUnit, UnitInv
  <2> QED
    BY <2>3, <2>4, CountFirst
<1> HIDE DEF A
<1>2. Spec => [][A]_vars
  BY <1>1, InitIInv, StepIInv, InitRanInv, StepRanInv, PTL DEF Spec
<1> QED
  BY <1>2 DEF WholeGroupRan, A

-----------------------------------------------------------------------------
(* The dispatcher implements WorkGroups: the work-groups still to be given   *)
(* out are those the counters have not passed.                               *)

GridInv ==
  /\ st_sch \in {"seekCV", "allocateWFs", "checkAgain"} => nDisp \in Grid(krnl)
  /\ st_sch \in {"allocateWFs", "checkAgain"} => (d0_ov <=> nDisp[1] = krnl.n_wg_m1[1])
  /\ st_sch = "checkAgain" => (d1_ov <=> d0_ov /\ nDisp[2] = krnl.n_wg_m1[2])
  /\ \A c \in schedulingInProgress : given[c] # None

\* the coordinates after x, counted in the order of a grid whose last one is n
Succ(x, n) == <<IF x[1] = n[1] THEN 0 ELSE x[1] + 1,
                IF x[1] = n[1] /\ x[2] = n[2] THEN 0
                ELSE IF x[1] = n[1] THEN x[2] + 1 ELSE x[2],
                IF x[1] = n[1] /\ x[2] = n[2] THEN x[3] + 1 ELSE x[3]>>

Within(x, n) == /\ x = <<x[1], x[2], x[3]>>
                /\ x[1] \in 0..n[1] /\ x[2] \in 0..n[2] /\ x[3] \in 0..n[3]

Last(x, n) == x[1] = n[1] /\ x[2] = n[2] /\ x[3] = n[3]

LEMMA NextInGrid ==
  ASSUME NEW n \in Triples, NEW x, Within(x, n), NEW g, Within(g, n)
  PROVE  /\ Last(x, n) => ~After(g, x)
         /\ ~Last(x, n) => /\ Within(Succ(x, n), n)
                           /\ After(g, x) <=> g = Succ(x, n) \/ After(g, Succ(x, n))
<1> SUFFICES ASSUME NEW y, y = Succ(x, n)
             PROVE  /\ Last(x, n) => ~After(g, x)
                    /\ ~Last(x, n) => /\ Within(y, n)
                                      /\ After(g, x) <=> g = y \/ After(g, y)
  OBVIOUS
<1>1. /\ n[1] \in Nat /\ n[2] \in Nat /\ n[3] \in Nat
      /\ x[1] \in 0..n[1] /\ x[2] \in 0..n[2] /\ x[3] \in 0..n[3]
      /\ g[1] \in 0..n[1] /\ g[2] \in 0..n[2] /\ g[3] \in 0..n[3]
      /\ g = <<g[1], g[2], g[3]>>
  BY DEF Triples, Within
<1>2. /\ y[1] = IF x[1] = n[1] THEN 0 ELSE x[1] + 1
      /\ y[2] = IF x[1] = n[1] /\ x[2] = n[2] THEN 0
                ELSE IF x[1] = n[1] THEN x[2] + 1 ELSE x[2]
      /\ y[3] = IF x[1] = n[1] /\ x[2] = n[2] THEN x[3] + 1 ELSE x[3]
      /\ y = <<y[1], y[2], y[3]>>
  BY DEF Succ
<1>3. g = y <=> g[1] = y[1] /\ g[2] = y[2] /\ g[3] = y[3]
  BY <1>1, <1>2
<1>4. Last(x, n) => ~After(g, x)
  BY <1>1 DEF Last, After
<1>5. ~Last(x, n) => y[1] \in 0..n[1] /\ y[2] \in 0..n[2] /\ y[3] \in 0..n[3]
  BY <1>1, <1>2 DEF Last
<1>6. After(g, x) <=> (g[1] = y[1] /\ g[2] = y[2] /\ g[3] = y[3]) \/ After(g, y)
  BY <1>1, <1>2 DEF After
<1> QED
  BY <1>2, <1>3, <1>4, <1>5, <1>6 DEF Within

LEMMA GridPoints ==
  ASSUME NEW k \in Kernels
  PROVE  /\ k.n_wg_m1 \in Triples /\ NoOffset \in Grid(k)
         /\ \A g : g \in Grid(k) <=> Within(g, k.n_wg_m1)
         /\ \A g \in Grid(k) : g \in Triples
<1>1. k.n_wg_m1 \in Nat \X Nat \X Nat
  BY KernelsAssumption
<1> QED
  BY <1>1 DEF Triples, Grid, NoOffset, Within

LEMMA CheckAgainGrid ==
  ASSUME TypeOK, GridInv, CheckAgain
  PROVE  /\ {g \in Grid(krnl) : After(g, nDisp)} =
              IF st_sch' = "seekCV" THEN {g \in Grid(krnl) : g = nDisp' \/ After(g, nDisp')} ELSE {}
         /\ st_sch' = "seekCV" => nDisp' \in Grid(krnl)
<1> DEFINE n == krnl.n_wg_m1
<1>1. krnl \in Kernels /\ nDisp \in Grid(krnl)
  BY DEF TypeOK, GridInv, CheckAgain
<1>2. /\ n \in Triples /\ Within(nDisp, n)
      /\ \A g : g \in Grid(krnl) <=> Within(g, n)
  BY <1>1, GridPoints
<1>3. /\ d0_ov <=> nDisp[1] = n[1]
      /\ d1_ov <=> nDisp[1] = n[1] /\ nDisp[2] = n[2]
  BY DEF GridInv, CheckAgain
<1>4. st_sch' = IF Last(nDisp, n) THEN "wait_wf_active" ELSE "seekCV"
  BY <1>3 DEF CheckAgain, Last
<1>5. nDisp' = Succ(nDisp, n)
  BY <1>3 DEF CheckAgain, Advance, NoOffset, Succ
<1> HIDE DEF n
<1>6. ASSUME NEW g \in Grid(krnl)
      PROVE  /\ Last(nDisp, n) => ~After(g, nDisp)
             /\ ~Last(nDisp, n) => /\ nDisp' \in Grid(krnl)
                                   /\ After(g, nDisp) <=> g = nDisp' \/ After(g, nDisp')
  BY <1>2, <1>5, NextInGrid
<1> QED
  BY <1>1, <1>4, <1>6

LEMMA GivenStep ==
  ASSUME IInv, GridInv, NEW k, NEW e, NEW retire, Clock(k, e, retire)
  PROVE  /\ \A c \in CUs : given'[c] = IF c = req_n THEN nDisp ELSE given[c]
         /\ schedulingInProgress' = (schedulingInProgress \cup ({req_n} \cap CUs)) \ Acks
         /\ Acks \subseteq schedulingInProgress
         /\ req_n \notin schedulingInProgress
         /\ nDisp # None
<1>1. /\ History /\ RequestRegisters /\ TypeOK /\ NoWorkInv /\ FoundInv /\ OneTokenInv
  BY DEF Clock, IInv
<1>2. Acks \subseteq schedulingInProgress
  BY <1>1 DEF Acks, OneTokenInv, Quiet
<1>3. req_n \notin schedulingInProgress
  BY <1>1, RequestedUnit, UnitNumbers DEF FoundInv, TypeOK
<1>4. nDisp # None
  BY <1>1, NoneAssumption DEF TypeOK
<1>5. schedulingInProgress' = (schedulingInProgress \cup ({req_n} \cap CUs)) \ Acks
  <2>1. finish_i => req_n \notin CUs
    BY <1>1, RequestedUnit, UnitNumbers
  <2> QED
    BY <1>1, <2>1, BooksStep
<1>6. \A c \in CUs : given'[c] = IF c = req_n THEN nDisp ELSE given[c]
  BY <1>1 DEF History, TypeOK
<1> QED
  BY <1>2, <1>3, <1>4, <1>5, <1>6

LEMMA InitGridInv == Init => GridInv
BY DEF Init, GridInv

LEMMA ClockGridInv ==
  ASSUME IInv, CountInv, GridInv, NEW k, NEW e, NEW retire, Clock(k, e, retire)
  PROVE  GridInv'
<1>1. Scheduler(k, e) /\ TypeOK
  BY DEF Clock, IInv
<1>2. krnl \in Kernels
  BY <1>1 DEF TypeOK
<1>3. \A c \in schedulingInProgress' : given'[c] # None
  <2> SUFFICES ASSUME NEW c \in schedulingInProgress' PROVE given'[c] # None
    OBVIOUS
  <2>1. /\ c \in schedulingInProgress \/ (c = req_n /\ c \in CUs)
        /\ \A d \in CUs : given'[d] = IF d = req_n THEN nDisp ELSE given[d]
        /\ nDisp # None
    BY GivenStep
  <2>2. c \in CUs
    BY <1>1, <2>1 DEF TypeOK
  <2> QED
    BY <2>1, <2>2 DEF GridInv
<1>4. CASE Idle(k) \/ ReadDelay \/ WaitWfActive \/ WaitFinish
  BY <1>3, <1>4 DEF Idle, ReadDelay, WaitWfActive, WaitFinish, GridInv
<1>5. CASE Prepare(e)
  <2>1. nDisp' = NoOffset /\ krnl' = krnl
    BY <1>5 DEF Prepare, CountInv
  <2>2. nDisp' \in Grid(krnl)
    BY <1>2, <2>1, GridPoints
  <2>3. st_sch' \notin {"allocateWFs", "checkAgain"}
    BY <1>5 DEF Prepare
  <2> QED
    BY <1>3, <2>1, <2>2, <2>3 DEF GridInv
<1>6. CASE SeekCV
  BY <1>3, <1>6 DEF SeekCV, GridInv
<1>7. CASE AllocateWFs
  BY <1>3, <1>7 DEF AllocateWFs, GridInv
<1>8. CASE CheckAgain
  <2>1. krnl' = krnl /\ st_sch' \in {"seekCV", "wait_wf_active"}
    BY <1>8 DEF CheckAgain
  <2>2. st_sch' = "seekCV" => nDisp' \in Grid(krnl)
    BY <1>1, <1>8, CheckAgainGrid
  <2> QED
    BY <1>3, <2>1, <2>2 DEF GridInv
<1> QED
  BY <1>1, <1>4, <1>5, <1>6, <1>7, <1>8 DEF Scheduler

(* The mapping *)

Busy == st_sch \notin {"idle", "read_delay", "prepare"}

RunningNow == [c \in CUs |-> IF c \in schedulingInProgress THEN given[c] ELSE None]

\* the units that are over, and one that is given a work-group
LEMMA RunningStep ==
  ASSUME IInv, GridInv, NEW k, NEW e, NEW retire, Clock(k, e, retire)
  PROVE  LET Over == [c \in CUs |-> IF c \in Acks THEN None ELSE RunningNow[c]]
         IN /\ Acks \subseteq {c \in CUs : RunningNow[c] # None}
            /\ req_n \notin CUs => RunningNow' = Over
            /\ req_n \in CUs => /\ RunningNow[req_n] = None
                                /\ RunningNow' = [Over EXCEPT ![req_n] = nDisp]
<1> DEFINE Over == [c \in CUs |-> IF c \in Acks THEN None ELSE RunningNow[c]]
<1>1. /\ \A c \in CUs : given'[c] = IF c = req_n THEN nDisp ELSE given[c]
      /\ schedulingInProgress' = (schedulingInProgress \cup ({req_n} \cap CUs)) \ Acks
      /\ Acks \subseteq schedulingInProgress
      /\ req_n \notin schedulingInProgress
  BY GivenStep
<1>2. schedulingInProgress \subseteq CUs /\ \A c \in schedulingInProgress : given[c] # None
  BY DEF IInv, TypeOK, GridInv
<1>3. /\ \A c \in CUs : RunningNow[c] = IF c \in schedulingInProgress THEN given[c] ELSE None
      /\ RunningNow' = [c \in CUs |-> IF c \in schedulingInProgress' THEN given'[c] ELSE None]
  BY DEF RunningNow
<1>4. Acks \subseteq {c \in CUs : RunningNow[c] # None}
  BY <1>1, <1>2, <1>3
<1>5. ASSUME req_n \notin CUs PROVE RunningNow' = Over
  BY <1>1, <1>2, <1>3, <1>5
<1>6. ASSUME req_n \in CUs PROVE RunningNow[req_n] = None /\ RunningNow' = [Over EXCEPT ![req_n] = nDisp]
  <2>1. RunningNow[req_n] = None
    BY <1>1, <1>3, <1>6
  <2>2. [Over EXCEPT ![req_n] = nDisp] =
          [c \in CUs |-> IF c = req_n THEN nDisp ELSE IF c \in Acks THEN None ELSE RunningNow[c]]
    OBVIOUS
  <2>3. \A c \in CUs : (IF c \in schedulingInProgress' THEN given'[c] ELSE None) =
          (IF c = req_n THEN nDisp ELSE IF c \in Acks THEN None ELSE RunningNow[c])
    BY <1>1, <1>2, <1>3, <1>6
  <2> QED
    BY <1>3, <2>1, <2>2, <2>3
<1> QED
  BY <1>4, <1>5, <1>6

LEMMA TodoStep ==
  ASSUME IInv, CountInv, GridInv, NEW k, NEW e, NEW retire, Clock(k, e, retire)
  PROVE  \/ /\ ~Busy /\ Busy' /\ Todo' \in {Grid(x) : x \in Kernels} /\ schedulingInProgress = {}
         \/ /\ req_n \in CUs /\ Busy' = Busy
            /\ nDisp \in Todo /\ Todo' = Todo \ {nDisp}
         \/ /\ req_n \notin CUs /\ Busy' = Busy /\ Todo' = Todo
         \/ /\ Busy /\ ~Busy' /\ Todo = {} /\ Todo' = {} /\ schedulingInProgress = {}
            /\ req_n \notin CUs
<1>1. Scheduler(k, e) /\ TypeOK /\ NoWorkInv
  BY DEF Clock, IInv
<1>2. krnl \in Kernels
  BY <1>1 DEF TypeOK
<1>3. st_sch # "seekCV" => req_n \notin CUs
  BY UnitNumbers DEF req_n
<1>4. CASE Idle(k) \/ ReadDelay \/ WaitWfActive \/ (Prepare(e) /\ ~e) \/ (WaitFinish /\ ~finish_i)
  <2>1. Todo = {} /\ Todo' = {} /\ Busy' = Busy /\ st_sch # "seekCV"
    BY <1>4 DEF Idle, ReadDelay, WaitWfActive, Prepare, WaitFinish, Todo, Busy
  <2> QED
    BY <1>3, <2>1
<1>5. CASE WaitFinish /\ finish_i
  <2>1. Todo = {} /\ Todo' = {} /\ Busy /\ ~Busy' /\ st_sch = "wait_finish"
    BY <1>5 DEF WaitFinish, Todo, Busy
  <2> QED
    BY <1>1, <1>3, <2>1 DEF NoWorkInv
<1>6. CASE Prepare(e) /\ e
  <2>1. /\ st_sch = "prepare" /\ st_sch' = "seekCV" /\ krnl' = krnl /\ nDisp' = NoOffset
    BY <1>6 DEF Prepare, CountInv
  <2>2. Todo' = {g \in Grid(krnl) : g = NoOffset \/ After(g, NoOffset)}
    BY <2>1 DEF Todo
  <2>3. ASSUME NEW g \in Grid(krnl) PROVE g = NoOffset \/ After(g, NoOffset)
    <3>1. /\ g = <<g[1], g[2], g[3]>>
          /\ g[1] \in Nat /\ g[2] \in Nat /\ g[3] \in Nat
      <4>1. g \in Triples /\ g = <<g[1], g[2], g[3]>>
        BY <1>2, GridPoints DEF Within
      <4> QED
        BY <4>1 DEF Triples
    <3>2. g[1] = 0 /\ g[2] = 0 /\ g[3] = 0 => g = NoOffset
      BY <3>1 DEF NoOffset
    <3> QED
      BY <3>1, <3>2 DEF After, NoOffset
  <2>4. Todo' = Grid(krnl)
    BY <2>2, <2>3
  <2> QED
    BY <1>1, <1>2, <2>1, <2>4 DEF Busy, NoWorkInv
<1>7. CASE SeekCV
  <2>1. st_sch = "seekCV" /\ nDisp' = nDisp /\ krnl' = krnl /\ Busy /\ Busy'
        /\ st_sch' = IF alloc_CV_indx # N_CU THEN "allocateWFs" ELSE "seekCV"
    BY <1>7 DEF SeekCV, Busy
  <2>2. Todo = {g \in Grid(krnl) : g = nDisp \/ After(g, nDisp)}
    BY <2>1 DEF Todo
  <2>3. CASE alloc_CV_indx = N_CU
    <3>1. Todo' = Todo /\ req_n \notin CUs
      BY <2>1, <2>3, UnitNumbers DEF Todo, req_n
    <3> QED
      BY <2>1, <3>1
  <2>4. CASE alloc_CV_indx # N_CU
    <3>1. req_n \in CUs
      BY <1>1, <2>1, <2>4, RequestedUnit DEF req_n
    <3>2. Todo' = {g \in Grid(krnl) : After(g, nDisp)}
      BY <2>1, <2>4 DEF Todo
    <3>3. ~After(nDisp, nDisp) /\ nDisp \in Grid(krnl)
      BY <1>1, <2>1 DEF After, TypeOK, GridInv
    <3> QED
      BY <2>1, <2>2, <3>1, <3>2, <3>3
  <2> QED
    BY <2>3, <2>4
<1>8. CASE AllocateWFs
  BY <1>3, <1>8 DEF AllocateWFs, Todo, Busy
<1>9. CASE CheckAgain
  <2>1. st_sch = "checkAgain" /\ krnl' = krnl /\ st_sch' \in {"seekCV", "wait_wf_active"}
    BY <1>9 DEF CheckAgain
  <2>2. Todo = {g \in Grid(krnl) : After(g, nDisp)}
    BY <2>1 DEF Todo
  <2>3. Todo' = IF st_sch' = "seekCV"
                THEN {g \in Grid(krnl) : g = nDisp' \/ After(g, nDisp')} ELSE {}
    BY <2>1 DEF Todo
  <2>4. Todo' = Todo /\ Busy' = Busy
    BY <1>1, <1>9, <2>1, <2>2, <2>3, CheckAgainGrid DEF Busy
  <2> QED
    BY <1>3, <2>1, <2>4
<1> QED
  BY <1>1, <1>4, <1>5, <1>6, <1>7, <1>8, <1>9 DEF Scheduler

LEMMA GroupsStep ==
  ASSUME IInv, CountInv, GridInv, NEW k, NEW e, NEW retire, Clock(k, e, retire)
  PROVE  Groups!Next
<1> DEFINE Over == [c \in CUs |-> IF c \in Acks THEN None ELSE RunningNow[c]]
<1>1. /\ Acks \subseteq {c \in CUs : RunningNow[c] # None}
      /\ req_n \notin CUs => RunningNow' = Over
      /\ req_n \in CUs => /\ RunningNow[req_n] = None
                          /\ RunningNow' = [Over EXCEPT ![req_n] = nDisp]
  BY RunningStep
<1>2. schedulingInProgress = {} =>
        Acks = {} /\ RunningNow = [c \in CUs |-> None] /\ Over = RunningNow
  <2>1. schedulingInProgress = {} => Acks = {}
    BY GivenStep
  <2>2. schedulingInProgress = {} => RunningNow = [c \in CUs |-> None]
    BY DEF RunningNow
  <2> QED
    BY <2>1, <2>2
<1>7. PICK done \in SUBSET CUs : done = Acks
  BY DEF Acks
<1>3. CASE /\ ~Busy /\ Busy' /\ Todo' \in {Grid(x) : x \in Kernels} /\ schedulingInProgress = {}
  <2>1. st_sch \in {"idle", "read_delay", "prepare"}
    BY <1>3 DEF Busy
  <2>2. req_n \notin CUs
    BY <2>1, UnitNumbers DEF req_n
  <2>3. RunningNow' = RunningNow
    BY <1>1, <1>2, <1>3, <2>2
  <2>4. Groups!Launch
    BY <1>3, <2>3 DEF Groups!Launch, Busy, RunningNow
  <2> QED
    BY <2>4 DEF Groups!Next
<1>4. CASE req_n \in CUs /\ Busy' = Busy /\ nDisp \in Todo /\ Todo' = Todo \ {nDisp}
  <2>1. \E u \in CUs, wg \in Todo : Groups!Dispatch(wg, u, done)
    BY <1>1, <1>4, <1>7 DEF Groups!Dispatch, Groups!Completed, Groups!Occupied, Busy, RunningNow
  <2> QED
    BY <1>4, <1>7, <2>1 DEF Groups!Next
<1>5. CASE req_n \notin CUs /\ Busy' = Busy /\ Todo' = Todo
  <2>1. Groups!Complete(done)
    BY <1>1, <1>5, <1>7 DEF Groups!Complete, Groups!Completed, Groups!Occupied, Busy, RunningNow
  <2> QED
    BY <1>7, <2>1 DEF Groups!Next
<1>6. CASE /\ Busy /\ ~Busy' /\ Todo = {} /\ Todo' = {} /\ schedulingInProgress = {}
           /\ req_n \notin CUs
  <2>1. RunningNow' = RunningNow /\ \A c \in CUs : RunningNow[c] = None
    BY <1>1, <1>2, <1>6
  <2>2. Groups!Finish
    BY <1>6, <2>1 DEF Groups!Finish, Groups!Occupied, Busy, RunningNow
  <2> QED
    BY <2>2 DEF Groups!Next
<1> QED
  BY <1>3, <1>4, <1>5, <1>6, TodoStep

\* For every number of units and wavefronts and all kernels the dispatcher implements
\* WorkGroups: each work-group of the grid is given out once, to a unit that has none, and
\* the kernel ends only after all of them (WG_dispatcher.vhd).
THEOREM DispatcherImplements == Spec => DispatchesTheGrid
<1>1. Init => Groups!Init
  BY DEF Init, Groups!Init, Todo
<1>2. IInv /\ OffsetInv /\ GridInv /\ [Next]_vars => GridInv' /\ [Groups!Next]_(Groups!vars)
  <2> SUFFICES ASSUME IInv, OffsetInv, GridInv, [Next]_vars
               PROVE  GridInv' /\ [Groups!Next]_(Groups!vars)
    OBVIOUS
  <2>1. CASE Next
    BY <2>1, ClockGridInv, GroupsStep DEF Next, OffsetInv
  <2>2. CASE UNCHANGED vars
    <3>1. UNCHANGED <<krnl, st_sch, nDisp, d0_ov, d1_ov, schedulingInProgress, given>>
      BY <2>2 DEF vars, schVars
    <3>2. GridInv'
      BY <3>1 DEF GridInv
    <3>3. Groups!vars' = Groups!vars
      BY <3>1 DEF Groups!vars, Todo
    <3> QED
      BY <3>2, <3>3
  <2> QED
    BY <2>1, <2>2
<1> QED
  BY <1>1, <1>2, InitIInv, StepIInv, InitOffsetInv, StepOffsetInv, InitGridInv, PTL
  DEF Spec, DispatchesTheGrid, Groups!Spec
-----------------------------------------------------------------------------
(* The control FSM, the finish FSMs and the host *)

NoneBegun == \A m \in Cntrls : fin[m].st = "idle1" /\ ~fin[m].masked /\ ~fin[m].exec

\* the dispatcher works: the control FSM waits, no finish FSM has begun
WorkInv == st_sch # "idle" => st_wg_disp = "st1_dispatch" /\ NoneBegun /\ ~WGsDispatched

DispatchedInv == WGsDispatched => st_wg_disp = "st1_dispatch" /\ NoneBegun

OverInv == st_sch = "idle" => over

\* a flag is up only in a finish FSM that is through, and that one saw its
\* controller idle
FlagInv == \A m \in Cntrls :
             /\ fin[m].masked \/ fin[m].exec => fin[m].st = "finish"
             /\ fin[m].st = "finish" /\ st_wg_disp = "st1_dispatch" => m \in drained

IdleInv == st_wg_disp = "idle" => NoneBegun \/ \A m \in Cntrls : fin[m].st = "finish"

(* The kernels the host waits for: some that are complete, the one that runs, the *)
(* one that has been written and not yet started                                  *)

Running == IF st_wg_disp = "st1_dispatch" THEN 1 ELSE 0
Written == IF Rstart = {} THEN 0 ELSE 1
Done    == Len(awaits) - Running - Written

DoneInv == /\ Done >= 0
           /\ \A i \in 1..Len(awaits) : i <= Done => awaits[i] \in complete

RunningInv == st_wg_disp = "st1_dispatch" => /\ awaits[Done + 1] = krnl_indx_ltchd
                                             /\ krnl_indx_ltchd \notin Rstat

WrittenInv == Rstart # {} => /\ Rstart = {awaits[Len(awaits)]}
                             /\ st_wg_disp = "idle" => Len(awaits) = 2 \/ wrote

CtlInv == ControlTypeOK /\ WorkInv /\ DispatchedInv /\ OverInv /\ FlagInv /\ IdleInv
HostInv == DoneInv /\ RunningInv /\ WrittenInv

CInv == IInv /\ CtlInv /\ HostInv

\* one clock edge, with its inputs
Edge(S, idle, wvalid, e, retire) ==
  /\ S = {} \/ \E k \in Indices : S = {k}
  /\ e \in BOOLEAN /\ idle \subseteq Cntrls
  /\ Host(S) /\ Control(S, idle, wvalid) /\ ControlHistory(S, idle)
  /\ Clock(IF start_kernel THEN Descriptor[new_krnl_indx] ELSE None, e, retire)
  /\ \A c \in CUs : retire[c] \subseteq wf_active[c]
  /\ e => st_sch = "prepare"
  /\ retire \in Retirements

LEMMA ControlStep ==
  ASSUME ControlNext
  PROVE  \E S, idle, wvalid, e, retire : Edge(S, idle, wvalid, e, retire)
BY DEF ControlNext, ControlStepWhere, Edge, Looking

-----------------------------------------------------------------------------
(* What a step takes in and does to the queue *)

LEMMA NewIndex ==
  ASSUME ControlTypeOK, HostInv, Rstart # {}
  PROVE  /\ Rstart = {new_krnl_indx} /\ new_krnl_indx = awaits[Len(awaits)]
         /\ new_krnl_indx \in Indices
         /\ Descriptor[new_krnl_indx] \in Kernels /\ Descriptor[new_krnl_indx] # None
<1>1. Rstart = {awaits[Len(awaits)]} /\ Rstart \subseteq Indices
  BY DEF HostInv, WrittenInv, ControlTypeOK
<1>2. PICK p \in Indices : Rstart = {p} /\ p = awaits[Len(awaits)]
  BY <1>1
<1>3. new_krnl_indx = p
  BY <1>2, ControlAssumption DEF new_krnl_indx, Min
<1> QED
  BY <1>2, <1>3, ControlAssumption, NoneAssumption

LEMMA DispatcherStep ==
  ASSUME CInv, NEW S, NEW idle, NEW wvalid, NEW e, NEW retire, Edge(S, idle, wvalid, e, retire)
  PROVE  /\ IInv'
         /\ start_kernel => st_sch = "idle" /\ st_sch' # "idle"
         /\ finish_i => st_sch = "wait_finish" /\ st_sch' = "idle"
         /\ st_sch # "idle" /\ ~finish_i => st_sch' # "idle"
         /\ st_sch = "idle" /\ ~start_kernel => st_sch' = "idle"
<1> DEFINE k == IF start_kernel THEN Descriptor[new_krnl_indx] ELSE None
<1>1. k \in Kernels \cup {None} /\ (k = None <=> ~start_kernel)
  BY NewIndex DEF CInv, CtlInv, start_kernel
<1>2. Clock(k, e, retire) /\ e \in BOOLEAN
  BY DEF Edge
<1>3. IInv'
  BY <1>1, <1>2, ClockIInv DEF CInv
<1>4. Scheduler(k, e)
  BY <1>2 DEF Clock
<1>5. start_kernel => st_sch = "idle"
  BY DEF CInv, CtlInv, WorkInv, start_kernel
<1> HIDE DEF k
<1> QED
  BY <1>1, <1>3, <1>4, <1>5
  DEF Scheduler, Idle, ReadDelay, Prepare, SeekCV, AllocateWFs, CheckAgain, WaitWfActive,
      WaitFinish, finish_i

LEMMA HostCases ==
  ASSUME CInv, NEW S, NEW idle, NEW wvalid, NEW e, NEW retire, Edge(S, idle, wvalid, e, retire)
  PROVE  \/ S = {} /\ awaits' = awaits
         \/ /\ S = {} /\ awaits # <<>> /\ Done >= 1
            /\ awaits' = Tail(awaits) /\ Head(awaits) \in complete
         \/ /\ \E k \in Indices : S = {k} /\ awaits' = Append(awaits, k)
                                  /\ k \notin Range(awaits)
            /\ Rstart = {} /\ Len(awaits) < 2 /\ wrote'
<1>1. /\ awaits \in Seq(Indices) /\ Len(awaits) \in Nat /\ Len(awaits) <= 2
      /\ Done \in Int /\ Done >= 0
  <2>1. awaits \in Seq(Indices) /\ Len(awaits) <= 2 /\ Done >= 0
    BY DEF CInv, CtlInv, ControlTypeOK, HostInv, DoneInv
  <2>2. Running \in 0..1 /\ Written \in 0..1 /\ Len(awaits) \in Nat
    BY <2>1 DEF Running, Written
  <2>3. Done \in Int
    BY <2>2 DEF Done
  <2> QED
    BY <2>1, <2>2, <2>3
<1>2. st_wg_disp \in {"idle", "st1_dispatch"}
  BY DEF CInv, CtlInv, ControlTypeOK
<1>3. ASSUME ~wrote, awaits # <<>>, Head(awaits) \in Rstat
      PROVE  Done >= 1 /\ Head(awaits) \in complete
  <2>1. Len(awaits) >= 1 /\ Head(awaits) = awaits[1]
    BY <1>1, <1>3
  <2>2. CASE Done = 0
    <3>1. Running = 0
      BY <1>3, <2>1, <2>2 DEF CInv, HostInv, RunningInv, Running
    <3>2. Written = 1 /\ Len(awaits) = 1
      BY <1>1, <2>1, <2>2, <3>1 DEF Done, Written
    <3> QED
      BY <1>2, <1>3, <3>1, <3>2 DEF CInv, HostInv, WrittenInv, Written, Running
  <2>3. CASE Done >= 1
    BY <1>1, <2>1, <2>3 DEF CInv, HostInv, DoneInv
  <2> QED
    BY <1>1, <2>2, <2>3
<1>4. ASSUME ~wrote, Len(awaits) < 2
      PROVE  Rstart = {}
  <2> SUFFICES ASSUME Rstart # {} PROVE FALSE
    OBVIOUS
  <2>1. Len(awaits) # 2
    <3>1. Len(awaits) \in Nat /\ Len(awaits) < 2
      BY <1>1, <1>4, Zenon
    <3> DEFINE n == Len(awaits)
    <3> HIDE DEF n
    <3>2. n \in Nat /\ n < 2 => n # 2
      OBVIOUS
    <3> QED
      BY <3>1, <3>2 DEF n
  <2>2. st_wg_disp = "idle" => Len(awaits) = 2 \/ wrote
    BY DEF CInv, HostInv, WrittenInv
  <2>3. st_wg_disp = "st1_dispatch"
    BY <1>2, <1>4, <2>1, <2>2
  <2> QED
    BY <1>1, <1>4, <2>3 DEF Done, Running, Written
<1>5. S = {} \/ \E k \in Indices : S = {k}
  BY DEF Edge
<1>6. Host(S)
  BY DEF Edge
<1> QED
  BY <1>3, <1>4, <1>5, <1>6 DEF Host

LEMMA HostType ==
  ASSUME CInv, NEW S, NEW idle, NEW wvalid, NEW e, NEW retire, Edge(S, idle, wvalid, e, retire)
  PROVE  awaits' \in Seq(Indices) /\ Len(awaits') <= 2 /\ wrote' \in BOOLEAN
<1>1. awaits \in Seq(Indices) /\ Len(awaits) <= 2
  BY DEF CInv, CtlInv, ControlTypeOK
<1>2. wrote' \in BOOLEAN
  BY DEF Edge, Host
<1> QED
  BY <1>1, <1>2, HostCases

-----------------------------------------------------------------------------
(* The control FSM and the finish FSMs *)

LEMMA FinStep ==
  ASSUME CInv, NEW S, NEW idle, NEW wvalid, NEW e, NEW retire, Edge(S, idle, wvalid, e, retire),
         NEW m \in Cntrls
  PROVE  /\ fin'[m] \in [st : {"idle1", "idle2", "finish"}, masked : BOOLEAN, exec : BOOLEAN]
         /\ fin'[m].st = CASE fin[m].st = "idle1" /\ WGsDispatched -> "idle2"
                           [] fin[m].st = "idle2" /\ m \in idle    -> "finish"
                           [] fin[m].st = "finish" /\ start_kernel -> "idle1"
                           [] OTHER                                -> fin[m].st
         /\ fin'[m].masked <=> fin[m].st = "finish" /\ ~start_kernel
         /\ fin'[m].exec => fin[m].masked /\ ~start_kernel
<1>1. fin[m] \in [st : {"idle1", "idle2", "finish"}, masked : BOOLEAN, exec : BOOLEAN]
  BY DEF CInv, CtlInv, ControlTypeOK
<1>2. fin'[m] = Finish(m, m \in idle, m \in wvalid)
  BY DEF Edge, Control
<1>3. start_kernel \in BOOLEAN /\ WGsDispatched \in BOOLEAN
  BY DEF start_kernel, CInv, CtlInv, ControlTypeOK
<1> DEFINE f == fin[m]
           st == CASE f.st = "idle1" /\ WGsDispatched -> "idle2"
                   [] f.st = "idle2" /\ m \in idle    -> "finish"
                   [] f.st = "finish" /\ start_kernel -> "idle1"
                   [] OTHER                           -> f.st
           masked == f.st = "finish" /\ ~start_kernel
           exec == f.masked /\ ~start_kernel /\ ~(krnl_indx_ltchd \in Cleans /\ m \in wvalid)
<1>4. fin'[m] = [st |-> st, masked |-> masked, exec |-> exec]
  BY <1>2 DEF Finish
<1>5. st \in {"idle1", "idle2", "finish"} /\ masked \in BOOLEAN /\ exec \in BOOLEAN
  BY <1>1
<1>6. fin'[m].st = st /\ fin'[m].masked = masked /\ fin'[m].exec = exec
  BY <1>4
<1>7. fin'[m] \in [st : {"idle1", "idle2", "finish"}, masked : BOOLEAN, exec : BOOLEAN]
  BY <1>4, <1>5
<1> QED
  BY <1>6, <1>7

LEMMA NoneBegunKept ==
  ASSUME CInv, NEW S, NEW idle, NEW wvalid, NEW e, NEW retire, Edge(S, idle, wvalid, e, retire),
         NoneBegun, ~WGsDispatched
  PROVE  NoneBegun' /\ ~finish_exec
<1>1. NoneBegun'
  BY FinStep DEF NoneBegun
<1> QED
  BY <1>1, ControlAssumption DEF NoneBegun, finish_exec

LEMMA CtlStep ==
  ASSUME CInv, NEW S, NEW idle, NEW wvalid, NEW e, NEW retire, Edge(S, idle, wvalid, e, retire)
  PROVE  CtlInv'
<1> DEFINE D == st_wg_disp = "st1_dispatch"
<1>1. /\ ControlFSM /\ StartRegister(S) /\ StatusRegister /\ LatchIndex
      /\ WGsDispatched' = finish_i /\ finish_exec_d0' = finish_exec
      /\ fin' = [m \in Cntrls |-> Finish(m, m \in idle, m \in wvalid)]
      /\ ControlHistory(S, idle) /\ idle \subseteq Cntrls
      /\ S \subseteq Indices
  BY DEF Edge, Control
<1>2. /\ ControlTypeOK /\ WorkInv /\ DispatchedInv /\ OverInv /\ FlagInv /\ IdleInv
  BY DEF CInv, CtlInv
<1>3. ControlTypeOK'
  <2>1. TypeOK'
    BY DispatcherStep DEF IInv
  <2>2. start_kernel => new_krnl_indx \in Indices
    BY <1>2, NewIndex DEF CInv, start_kernel
  <2>3. /\ Rstart' \subseteq Indices /\ Rstat' \subseteq Indices
        /\ krnl_indx_ltchd' \in Indices
    BY <1>1, <1>2, <2>2 DEF StartRegister, StatusRegister, LatchIndex, ControlTypeOK
  <2>4. st_wg_disp' \in {"idle", "st1_dispatch"}
    BY <1>1 DEF ControlFSM
  <2>5. WGsDispatched' \in BOOLEAN /\ finish_exec_d0' \in BOOLEAN
    BY <1>1 DEF finish_i, finish_exec
  <2>6. fin' \in [Cntrls -> [st : {"idle1", "idle2", "finish"}, masked : BOOLEAN, exec : BOOLEAN]]
    BY <1>1, FinStep
  <2>7. over' \in BOOLEAN /\ drained' \subseteq Cntrls /\ complete' \subseteq Indices
    BY <1>1, <1>2 DEF ControlHistory, ControlTypeOK, finish_i
  <2> QED
    BY <2>1, <2>3, <2>4, <2>5, <2>6, <2>7, HostType DEF ControlTypeOK
<1>4. st_wg_disp \in {"idle", "st1_dispatch"}
  BY <1>2 DEF ControlTypeOK
<1>5. finish_i \/ st_sch # "idle" => D /\ NoneBegun /\ ~WGsDispatched
  BY <1>2 DEF WorkInv, finish_i
<1>6. D /\ NoneBegun /\ ~WGsDispatched => st_wg_disp' = "st1_dispatch" /\ NoneBegun'
  BY <1>1, NoneBegunKept DEF ControlFSM
<1>7. start_kernel => /\ st_wg_disp' = "st1_dispatch" /\ NoneBegun' /\ ~D
  <2> SUFFICES ASSUME start_kernel PROVE NoneBegun'
    BY <1>1 DEF ControlFSM, start_kernel
  <2>1. st_wg_disp = "idle" /\ ~WGsDispatched
    BY <1>2 DEF start_kernel, DispatchedInv
  <2>2. CASE NoneBegun
    BY <2>1, <2>2, NoneBegunKept
  <2>3. CASE \A m \in Cntrls : fin[m].st = "finish"
    BY <2>3, FinStep DEF NoneBegun
  <2> QED
    BY <1>2, <2>1, <2>2, <2>3 DEF IdleInv
<1>8. WorkInv'
  <2> SUFFICES ASSUME st_sch' # "idle"
               PROVE  st_wg_disp' = "st1_dispatch" /\ NoneBegun' /\ ~WGsDispatched'
    BY DEF WorkInv
  <2>1. ~finish_i /\ (st_sch # "idle" \/ start_kernel)
    BY DispatcherStep
  <2> QED
    BY <1>1, <1>5, <1>6, <1>7, <2>1
<1>9. DispatchedInv'
  BY <1>1, <1>5, <1>6 DEF DispatchedInv
<1>10. OverInv'
  <2> SUFFICES ASSUME st_sch' = "idle" PROVE over'
    BY DEF OverInv
  <2>1. ~start_kernel /\ (st_sch = "idle" \/ finish_i)
    BY DispatcherStep
  <2> QED
    BY <1>1, <1>2, <2>1 DEF ControlHistory, OverInv
<1>11. FlagInv'
  <2> SUFFICES ASSUME NEW m \in Cntrls
               PROVE  /\ fin'[m].masked \/ fin'[m].exec => fin'[m].st = "finish"
                      /\ fin'[m].st = "finish" /\ st_wg_disp' = "st1_dispatch" => m \in drained'
    BY DEF FlagInv
  <2>1. fin'[m].masked \/ fin'[m].exec => fin'[m].st = "finish"
    BY <1>2, FinStep DEF FlagInv
  <2>2. ASSUME fin'[m].st = "finish", st_wg_disp' = "st1_dispatch"
        PROVE  m \in drained'
    <3>1. ~start_kernel
      BY <1>7, <2>2 DEF NoneBegun
    <3>2. D
      BY <1>1, <1>4, <2>2, <3>1 DEF ControlFSM, start_kernel
    <3>3. CASE fin[m].st = "finish"
      BY <1>1, <1>2, <3>1, <3>2, <3>3 DEF FlagInv, ControlHistory
    <3>4. CASE fin[m].st # "finish"
      <4>1. fin[m].st = "idle2" /\ m \in idle
        BY <2>2, <3>4, FinStep
      <4>2. over
        BY <1>2, <4>1 DEF WorkInv, NoneBegun, OverInv
      <4> QED
        BY <1>1, <3>1, <4>1, <4>2 DEF ControlHistory
    <3> QED
      BY <3>3, <3>4
  <2> QED
    BY <2>1, <2>2
<1>12. IdleInv'
  <2> SUFFICES ASSUME st_wg_disp' = "idle"
               PROVE  NoneBegun' \/ \A m \in Cntrls : fin'[m].st = "finish"
    BY DEF IdleInv
  <2>1. ~start_kernel
    BY <1>7
  <2>2. CASE \A m \in Cntrls : fin[m].st = "finish"
    BY <2>1, <2>2, FinStep
  <2>3. CASE D
    BY <1>1, <1>2, <2>2, <2>3 DEF ControlFSM, finish_exec, FlagInv
  <2>4. CASE ~D /\ NoneBegun
    BY <1>2, <2>4, NoneBegunKept DEF DispatchedInv
  <2> QED
    BY <1>2, <1>4, <2>2, <2>3, <2>4 DEF IdleInv
<1> QED
  BY <1>3, <1>8, <1>9, <1>10, <1>11, <1>12 DEF CtlInv

-----------------------------------------------------------------------------
(* The kernels the host waits for *)

\* h kernels are taken from the front, c put at the end
LEMMA QueueShift ==
  ASSUME CInv, NEW S, NEW idle, NEW wvalid, NEW e, NEW retire, Edge(S, idle, wvalid, e, retire)
  PROVE  \E h \in 0..1, c \in 0..1 :
           /\ Len(awaits') = Len(awaits) - h + c
           /\ \A i \in 1..(Len(awaits) - h) : awaits'[i] = awaits[i + h]
           /\ h <= Done
           /\ c = 0 => S = {}
           /\ c = 1 => Rstart = {} /\ S # {} /\ S = {awaits'[Len(awaits')]} /\ wrote'
           /\ \A j \in 1..Len(awaits) : awaits[j] \notin S
<1>1. /\ awaits \in Seq(Indices) /\ Done >= 0
  BY DEF CInv, CtlInv, ControlTypeOK, HostInv, DoneInv
<1>2. CASE S = {} /\ awaits' = awaits
  <2> WITNESS 0 \in 0..1, 0 \in 0..1
  <2> QED
    BY <1>1, <1>2
<1>3. CASE S = {} /\ awaits # <<>> /\ Done >= 1 /\ awaits' = Tail(awaits)
  <2> WITNESS 1 \in 0..1, 0 \in 0..1
  <2> QED
    BY <1>1, <1>3
<1>4. ASSUME NEW k \in Indices, S = {k}, awaits' = Append(awaits, k), k \notin Range(awaits),
             Rstart = {}, wrote'
      PROVE  /\ Len(awaits') = Len(awaits) + 1
             /\ \A i \in 1..Len(awaits) : awaits'[i] = awaits[i]
             /\ S = {awaits'[Len(awaits')]}
             /\ \A j \in 1..Len(awaits) : awaits[j] \notin S
  BY <1>1, <1>4 DEF Range
<1>5. CASE \E k \in Indices : /\ S = {k} /\ awaits' = Append(awaits, k)
                              /\ k \notin Range(awaits) /\ Rstart = {} /\ wrote'
  <2> WITNESS 0 \in 0..1, 1 \in 0..1
  <2> QED
    BY <1>1, <1>4, <1>5
<1> QED
  BY <1>2, <1>3, <1>5, HostCases

LEMMA ControlCases ==
  ASSUME CInv, NEW S, NEW idle, NEW wvalid, NEW e, NEW retire, Edge(S, idle, wvalid, e, retire)
  PROVE  /\ complete \ S \subseteq complete'
         /\ \/ /\ Rstart = {awaits[Len(awaits)]} /\ st_wg_disp = "idle"
               /\ Rstart' = {} /\ st_wg_disp' = "st1_dispatch"
               /\ krnl_indx_ltchd' = awaits[Len(awaits)] /\ krnl_indx_ltchd' \notin Rstat'
            \/ /\ st_wg_disp = "st1_dispatch" /\ st_wg_disp' = "idle"
               /\ krnl_indx_ltchd \in complete'
               /\ Rstart' = IF S # {} THEN S ELSE Rstart
            \/ /\ st_wg_disp = "st1_dispatch" /\ st_wg_disp' = "st1_dispatch"
               /\ krnl_indx_ltchd' = krnl_indx_ltchd /\ Rstat' = Rstat
               /\ Rstart' = IF S # {} THEN S ELSE Rstart
            \/ /\ st_wg_disp = "idle" /\ st_wg_disp' = "idle" /\ Rstart = {}
               /\ Rstart' = IF S # {} THEN S ELSE Rstart
<1>1. /\ ControlFSM /\ StartRegister(S) /\ StatusRegister /\ LatchIndex
      /\ ControlHistory(S, idle)
  BY DEF Edge, Control
<1>2. complete \ S \subseteq complete'
  BY <1>1 DEF ControlHistory
<1>3. st_wg_disp \in {"idle", "st1_dispatch"}
  BY DEF CInv, CtlInv, ControlTypeOK
<1>4. CASE start_kernel
  <2>1. /\ Rstart = {new_krnl_indx} /\ new_krnl_indx = awaits[Len(awaits)]
        /\ st_wg_disp = "idle" /\ st_sch = "idle"
    BY <1>4, NewIndex, DispatcherStep DEF CInv, CtlInv, start_kernel
  <2> QED
    BY <1>1, <1>2, <1>4, <2>1 DEF ControlFSM, StartRegister, StatusRegister, LatchIndex
<1>5. CASE ~start_kernel /\ st_wg_disp = "st1_dispatch" /\ finish_exec
  <2>1. \A m \in Cntrls : fin[m].st = "finish" /\ m \in drained
    BY <1>5 DEF CInv, CtlInv, FlagInv, finish_exec
  <2>2. drained = Cntrls
    BY <2>1 DEF CInv, CtlInv, ControlTypeOK
  <2>3. st_sch = "idle" /\ over
    BY <2>1, ControlAssumption DEF CInv, CtlInv, WorkInv, NoneBegun, OverInv
  <2>4. krnl_indx_ltchd \in complete'
    BY <1>1, <1>5, <2>2, <2>3 DEF ControlHistory
  <2> QED
    BY <1>1, <1>2, <1>5, <2>4 DEF ControlFSM, StartRegister
<1>6. CASE ~start_kernel /\ st_wg_disp = "st1_dispatch" /\ ~finish_exec
  BY <1>1, <1>2, <1>6 DEF ControlFSM, StartRegister, StatusRegister, LatchIndex
<1>7. CASE ~start_kernel /\ st_wg_disp = "idle"
  BY <1>1, <1>2, <1>7 DEF ControlFSM, StartRegister, start_kernel
<1> QED
  BY <1>3, <1>4, <1>5, <1>6, <1>7

LEMMA HostStep ==
  ASSUME CInv, NEW S, NEW idle, NEW wvalid, NEW e, NEW retire, Edge(S, idle, wvalid, e, retire)
  PROVE  HostInv'
<1> DEFINE n == Len(awaits)
           r == Running
           w == Written
           d == Done
           m == Len(awaits')
<1>1. PICK h \in 0..1, c \in 0..1 :
        /\ m = n - h + c
        /\ \A i \in 1..(n - h) : awaits'[i] = awaits[i + h]
        /\ h <= d
        /\ c = 0 => S = {}
        /\ c = 1 => Rstart = {} /\ S # {} /\ S = {awaits'[m]} /\ wrote'
        /\ \A j \in 1..n : awaits[j] \notin S
  BY QueueShift
<1>2. n \in Nat /\ n <= 2 /\ r \in 0..1 /\ w \in 0..1 /\ d = n - r - w
  BY DEF CInv, CtlInv, ControlTypeOK, Running, Written, Done
<1>3. /\ d >= 0
      /\ \A i \in 1..n : i <= d => awaits[i] \in complete
      /\ r = 1 => awaits[d + 1] = krnl_indx_ltchd
      /\ r = 1 => krnl_indx_ltchd \notin Rstat
      /\ w = 1 => Rstart = {awaits[n]}
  BY DEF CInv, HostInv, DoneInv, RunningInv, WrittenInv, Running, Written
<1>4. complete \ S \subseteq complete'
  BY ControlCases
<1>5. /\ st_wg_disp = "st1_dispatch" => r = 1
      /\ st_wg_disp = "idle" => r = 0
      /\ Rstart = {} <=> w = 0
      /\ st_wg_disp' = "st1_dispatch" => Running' = 1
      /\ st_wg_disp' = "idle" => Running' = 0
      /\ Rstart' = {} => Written' = 0
      /\ Rstart' # {} => Written' = 1
      /\ Done' = m - Running' - Written'
  BY DEF Running, Written, Done
<1> HIDE DEF n, r, w, d
<1>6. ASSUME NEW i \in 1..(n - h), i + h <= d
      PROVE  awaits'[i] \in complete'
  <2>1. i + h \in 1..n /\ i + h <= d
    BY <1>2, <1>6
  <2> QED
    BY <1>1, <1>3, <1>4, <2>1
<1>7. CASE /\ Rstart = {awaits[n]} /\ st_wg_disp = "idle"
           /\ Rstart' = {} /\ st_wg_disp' = "st1_dispatch"
           /\ krnl_indx_ltchd' = awaits[n] /\ krnl_indx_ltchd' \notin Rstat'
  <2>1. r = 0 /\ w = 1 /\ c = 0
    <3>1. r = 0 /\ Rstart # {}
      BY <1>5, <1>7
    <3>2. w # 0 /\ c # 1
      BY <1>1, <1>5, <3>1
    <3> QED
      BY <1>2, <3>1, <3>2
  <2>2. m = n - h /\ Done' = d - h /\ d = n - 1
    BY <1>1, <1>2, <1>5, <1>7, <2>1
  <2>3. awaits'[Done' + 1] = awaits[n]
    BY <1>1, <1>2, <1>3, <2>2
  <2>4. DoneInv'
    BY <1>1, <1>2, <1>3, <1>6, <2>2 DEF DoneInv
  <2> QED
    BY <1>7, <2>3, <2>4 DEF HostInv, RunningInv, WrittenInv
<1>8. CASE /\ st_wg_disp = "st1_dispatch" /\ st_wg_disp' = "idle"
           /\ krnl_indx_ltchd \in complete'
           /\ Rstart' = IF S # {} THEN S ELSE Rstart
  <2>1. r = 1 /\ Running' = 0 /\ Written' = w + c
    BY <1>1, <1>2, <1>5, <1>8
  <2>2. Done' = d + 1 - h
    BY <1>1, <1>2, <1>3, <1>5, <2>1
  <2>3. awaits'[Done'] \in complete'
    <3>1. d + 1 - h \in 1..(n - h) /\ d + 1 - h + h = d + 1
      BY <1>1, <1>2, <1>3, <2>1
    <3> QED
      BY <1>1, <1>3, <1>8, <2>1, <2>2, <3>1
  <2>4. ASSUME NEW i \in 1..m, i <= Done'
        PROVE  awaits'[i] \in complete'
    <3>1. i = Done' \/ (i \in 1..(n - h) /\ i + h <= d)
      BY <1>1, <1>2, <1>3, <2>1, <2>2, <2>4
    <3> QED
      BY <1>6, <2>3, <3>1
  <2>5. DoneInv'
    <3>1. Done' >= 0
      BY <1>1, <1>2, <1>3, <2>2
    <3> QED
      BY <2>4, <3>1 DEF DoneInv
  <2>6. CASE c = 1
    BY <1>1, <1>8, <2>5, <2>6 DEF HostInv, RunningInv, WrittenInv
  <2>7. CASE c = 0 /\ Rstart # {}
    <3>1. n = 2 /\ h = 0 /\ m = 2 /\ w = 1
      BY <1>1, <1>2, <1>3, <1>5, <2>1, <2>7
    <3>2. Rstart' = {awaits'[m]}
      BY <1>1, <1>3, <1>8, <2>7, <3>1
    <3> QED
      BY <1>8, <2>5, <3>1, <3>2 DEF HostInv, RunningInv, WrittenInv
  <2>8. CASE c = 0 /\ Rstart = {}
    BY <1>1, <1>8, <2>5, <2>8 DEF HostInv, RunningInv, WrittenInv
  <2> QED
    BY <2>6, <2>7, <2>8
<1>9. CASE /\ st_wg_disp = "st1_dispatch" /\ st_wg_disp' = "st1_dispatch"
           /\ krnl_indx_ltchd' = krnl_indx_ltchd /\ Rstat' = Rstat
           /\ Rstart' = IF S # {} THEN S ELSE Rstart
  <2>1. r = 1 /\ Running' = 1 /\ Written' = w + c
    BY <1>1, <1>2, <1>5, <1>9
  <2>2. Done' = d - h
    BY <1>1, <1>2, <1>3, <1>5, <2>1
  <2>3. awaits'[Done' + 1] = krnl_indx_ltchd
    <3>1. d \in Int /\ n \in Int /\ d + 1 <= n /\ h <= d
      BY <1>1, <1>2, <1>3, <2>1
    <3>2. d - h + 1 \in 1..(n - h) /\ d - h + 1 + h = d + 1
      BY <3>1
    <3> QED
      BY <1>1, <1>3, <2>1, <2>2, <3>2
  <2>4. DoneInv'
    BY <1>1, <1>2, <1>3, <1>6, <2>2 DEF DoneInv
  <2>5. RunningInv'
    BY <1>3, <1>9, <2>1, <2>3 DEF RunningInv
  <2>6. CASE c = 1
    BY <1>1, <1>9, <2>4, <2>5, <2>6 DEF HostInv, WrittenInv
  <2>7. CASE c = 0 /\ Rstart # {}
    <3>1. w = 1 /\ m = n - h /\ m \in 1..(n - h)
      BY <1>1, <1>2, <1>3, <1>5, <2>1, <2>7
    <3>2. awaits'[m] = awaits[n]
      <4>1. m + h = n
        BY <1>1, <1>2, <3>1
      <4> QED
        BY <1>1, <3>1, <4>1
    <3>3. Rstart' = {awaits'[m]}
      BY <1>1, <1>3, <1>9, <2>7, <3>1, <3>2
    <3> QED
      BY <1>9, <2>4, <2>5, <3>3 DEF HostInv, WrittenInv
  <2>8. CASE c = 0 /\ Rstart = {}
    BY <1>1, <1>9, <2>4, <2>5, <2>8 DEF HostInv, WrittenInv
  <2> QED
    BY <2>6, <2>7, <2>8
<1>10. CASE /\ st_wg_disp = "idle" /\ st_wg_disp' = "idle" /\ Rstart = {}
            /\ Rstart' = IF S # {} THEN S ELSE Rstart
  <2>1. r = 0 /\ w = 0 /\ Running' = 0 /\ Written' = c
    BY <1>1, <1>2, <1>5, <1>10
  <2>2. Done' = d - h /\ d = n
    BY <1>1, <1>2, <1>5, <2>1
  <2>3. DoneInv'
    BY <1>1, <1>2, <1>3, <1>6, <2>2 DEF DoneInv
  <2> QED
    BY <1>1, <1>10, <2>3 DEF HostInv, RunningInv, WrittenInv
<1> QED
  BY <1>7, <1>8, <1>9, <1>10, ControlCases DEF n

-----------------------------------------------------------------------------
(* The theorems of the dispatcher with its host *)

LEMMA InitCInv == ControlInit => CInv
<1> SUFFICES ASSUME ControlInit PROVE CInv
  OBVIOUS
<1>1. IInv
  BY InitIInv DEF ControlInit
<1>2. ControlTypeOK
  BY <1>1, ControlAssumption DEF ControlInit, ControlTypeOK, IInv
<1>3. WorkInv /\ DispatchedInv /\ OverInv /\ FlagInv /\ IdleInv
  BY DEF ControlInit, Init, WorkInv, DispatchedInv, OverInv, FlagInv, IdleInv, NoneBegun
<1>4. HostInv
  BY DEF ControlInit, HostInv, DoneInv, RunningInv, WrittenInv, Done, Running, Written
<1> QED
  BY <1>1, <1>2, <1>3, <1>4 DEF CInv, CtlInv

LEMMA StutterIInv == IInv /\ UNCHANGED vars => IInv'
BY StepIInv

LEMMA StepCInv == CInv /\ [ControlNext]_allVars => CInv'
<1> SUFFICES ASSUME CInv, [ControlNext]_allVars PROVE CInv'
  OBVIOUS
<1>1. CASE ControlNext
  <2>1. PICK S, idle, wvalid, e, retire : Edge(S, idle, wvalid, e, retire)
    BY <1>1, ControlStep
  <2> QED
    BY <2>1, DispatcherStep, CtlStep, HostStep DEF CInv
<1>2. CASE UNCHANGED allVars
  <2>1. UNCHANGED <<vars, controlVars, hostVars>>
    BY <1>2 DEF allVars
  <2>2. IInv'
    BY <2>1, StutterIInv DEF CInv
  <2>3. UNCHANGED st_sch /\ TypeOK'
    BY <2>1, <2>2 DEF vars, schVars, IInv
  <2>4. CtlInv'
    BY <2>1, <2>3 DEF controlVars, hostVars, CInv, CtlInv, ControlTypeOK, WorkInv, DispatchedInv,
                      OverInv, FlagInv, IdleInv, NoneBegun
  <2>5. HostInv'
    BY <2>1 DEF controlVars, hostVars, CInv, HostInv, DoneInv, RunningInv, WrittenInv,
                Done, Running, Written
  <2> QED
    BY <2>2, <2>4, <2>5 DEF CInv
<1> QED
  BY <1>1, <1>2

\* For every number of units, wavefronts and controllers and all kernels, the
\* registers of the whole of dispatcher, control FSM and finish FSMs keep their types.
THEOREM ControlTypeCorrect == ControlSpec => []ControlTypeOK
<1>1. CInv => ControlTypeOK
  BY DEF CInv, CtlInv
<1> QED
  BY <1>1, InitCInv, StepCInv, PTL DEF ControlSpec

\* What the control FSM gives the dispatcher is an input it may have by itself: a
\* kernel only when it is idle.  So all that is proved of the dispatcher holds of
\* the dispatcher with its host, too.
THEOREM ControlIsADispatcher == ControlSpec => Spec
<1>1. ControlInit => Init
  BY DEF ControlInit
<1>2. CInv /\ [ControlNext]_allVars => [Next]_vars
  <2> SUFFICES ASSUME CInv, [ControlNext]_allVars PROVE Next \/ UNCHANGED vars
    OBVIOUS
  <2>1. CASE ControlNext
    <3>1. PICK S, idle, wvalid, e, retire : Edge(S, idle, wvalid, e, retire)
      BY <2>1, ControlStep
    <3> DEFINE k == IF start_kernel THEN Descriptor[new_krnl_indx] ELSE None
    <3>2. k \in Kernels \cup {None} /\ (k # None => start_kernel)
      BY NewIndex DEF CInv, CtlInv, start_kernel
    <3>3. start_kernel => st_sch = "idle"
      BY <3>1, DispatcherStep
    <3>4. Inputs(k, e, retire) /\ Clock(k, e, retire) /\ e \in BOOLEAN /\ retire \in Retirements
      BY <3>1, <3>2, <3>3 DEF Edge, Inputs
    <3> HIDE DEF k
    <3> QED
      BY <3>2, <3>4 DEF Next
  <2>2. CASE UNCHANGED allVars
    BY <2>2 DEF allVars
  <2> QED
    BY <2>1, <2>2
<1> QED
  BY <1>1, <1>2, InitCInv, StepCInv, PTL DEF ControlSpec, Spec

\* With the control FSM as its source of kernels the dispatcher still gives each
\* work-group of each kernel to a unit once, its wavefronts the offset of their group,
\* and ends a group only when all of its wavefronts ran.
THEOREM DispatcherUnderControl ==
  ControlSpec => []RunsWithItsOffset /\ WholeGroupRan /\ DispatchesTheGrid
BY ControlIsADispatcher, OffsetsRight, WholeGroupRanSafe, DispatcherImplements, PTL

\* A request finds its unit free, with the dispatcher started by the control FSM.
THEOREM RequestSafeUnderControl == ControlSpec => []RequestFindsUnitFree
<1>1. CInv => RequestFindsUnitFree
  BY IInvImplies DEF CInv
<1> QED
  BY <1>1, InitCInv, StepCInv, PTL DEF ControlSpec

\* The control FSM starts a kernel only when the dispatcher and all finish FSMs
\* are through with the kernel before.
THEOREM StartSafe == ControlSpec => []StartFindsAllIdle
<1>1. CInv => StartFindsAllIdle
  <2> SUFFICES ASSUME CInv, start_kernel
               PROVE  /\ st_sch = "idle" /\ ~WGsDispatched
                      /\ over /\ \E s \in {"idle1", "finish"} : \A m \in Cntrls : fin[m].st = s
    BY DEF StartFindsAllIdle
  <2>1. st_wg_disp = "idle"
    BY DEF start_kernel
  <2>2. st_sch = "idle" /\ ~WGsDispatched /\ over
    BY <2>1 DEF CInv, CtlInv, WorkInv, DispatchedInv, OverInv
  <2> QED
    BY <2>1, <2>2 DEF CInv, CtlInv, IdleInv, NoneBegun
<1> QED
  BY <1>1, InitCInv, StepCInv, PTL DEF ControlSpec

\* A status the host takes for the end of a kernel is that of the start it waits for.
THEOREM StatusIsTrue == ControlSpec => HostSeesFinished
<1> DEFINE A == awaits # <<>> /\ awaits' = Tail(awaits) => Head(awaits) \in complete
<1>1. CInv /\ [ControlNext]_allVars => [A]_allVars
  <2> SUFFICES ASSUME CInv, ControlNext, awaits # <<>>, awaits' = Tail(awaits)
               PROVE  Head(awaits) \in complete
    OBVIOUS
  <2>1. PICK S, idle, wvalid, e, retire : Edge(S, idle, wvalid, e, retire)
    BY ControlStep
  <2>2. awaits \in Seq(Indices)
    BY DEF CInv, CtlInv, ControlTypeOK
  <2>3. Len(awaits') < Len(awaits)
    BY <2>2
  <2> QED
    BY <2>1, <2>2, <2>3, HostCases
<1> HIDE DEF A
<1>2. ControlSpec => [][A]_allVars
  BY <1>1, InitCInv, StepCInv, PTL DEF ControlSpec
<1> QED
  BY <1>2 DEF A, HostSeesFinished

\* No start the host writes is dropped or overwritten.
THEOREM StartsKept == ControlSpec => NoStartLost
<1> DEFINE A == Len(awaits') > Len(awaits) => Rstart = {} /\ Rstart' = {awaits'[Len(awaits')]}
<1>1. CInv /\ [ControlNext]_allVars => [A]_allVars
  <2> SUFFICES ASSUME CInv, ControlNext, Len(awaits') > Len(awaits)
               PROVE  Rstart = {} /\ Rstart' = {awaits'[Len(awaits')]}
    OBVIOUS
  <2>1. PICK S, idle, wvalid, e, retire : Edge(S, idle, wvalid, e, retire)
    BY ControlStep
  <2>2. PICK h \in 0..1, c \in 0..1 :
          /\ Len(awaits') = Len(awaits) - h + c
          /\ c = 0 => S = {}
          /\ c = 1 => Rstart = {} /\ S # {} /\ S = {awaits'[Len(awaits')]} /\ wrote'
    BY <2>1, QueueShift
  <2>3. Len(awaits) \in Nat
    BY DEF CInv, CtlInv, ControlTypeOK
  <2>4. c = 1
    BY <2>2, <2>3
  <2> QED
    BY <2>1, <2>2, <2>4 DEF Edge, Control, StartRegister, start_kernel
<1> HIDE DEF A
<1>2. ControlSpec => [][A]_allVars
  BY <1>1, InitCInv, StepCInv, PTL DEF ControlSpec
<1> QED
  BY <1>2 DEF A, NoStartLost
=============================================================================
