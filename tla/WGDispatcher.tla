---------------------------- MODULE WGDispatcher ----------------------------
(***************************************************************************)
(* The work-group dispatcher of RTL/WG_dispatcher.vhd with the part of     *)
(* every compute unit that answers it (the WGD interface and the offset    *)
(* capture of RTL/CU_scheduler_vliw.vhd) and the registers between them    *)
(* (RTL/FGPU_vliw.vhd).                                                    *)
(*                                                                         *)
(* One step is one clock edge.  The dispatcher looks at the wavefronts of  *)
(* one unit per cycle and decides on what it saw three cycles ago; its     *)
(* request and the three words of the work-group's offset travel to unit c *)
(* through N_CU - c registers; ack and the active wavefronts come back     *)
(* without delay.  Preparing the kernel and running it are inputs: when    *)
(* start_exec comes and when a wavefront retires.  KernelControl adds what  *)
(* starts a kernel.                                                        *)
(***************************************************************************)
EXTENDS Integers, FiniteSets

CONSTANTS N_CU,      \* compute units
          N_WF_CU,   \* wavefronts of a compute unit
          Kernels,   \* descriptors a kernel may be started with
          None

CUs == 0..N_CU-1
WFs == 0..N_WF_CU-1

ASSUME SizesAssumption == N_CU \in Nat \ {0} /\ N_WF_CU \in Nat \ {0}

\* n_wg_m1: work-groups per dimension, minus 1; wg_size and offset: the same
\* per dimension; n_WFs_m1: wavefronts of a work-group, minus 1
ASSUME KernelsAssumption ==
  \A k \in Kernels : /\ k.n_wg_m1 \in Nat \X Nat \X Nat
                     /\ k.wg_size \in (Nat \ {0}) \X (Nat \ {0}) \X (Nat \ {0})
                     /\ k.offset \in Nat \X Nat \X Nat
                     /\ k.n_WFs_m1 \in WFs

\* neither a kernel nor a work-group
ASSUME NoneAssumption == None \notin Kernels \cup (Nat \X Nat \X Nat)

VARIABLES
  krnl,                              \* the descriptor of the kernel started last
  st_sch, id, nDisp, d0_ov, d1_ov,   \* scheduler FSM: next work-group, its count
  req,                               \* the unit requested, N_CU for none
  schedulingInProgress,              \* units requested and not yet acknowledged
  cd_indx, cd_indx_d0, cd_indx_d1, wf_active_slctd, n_inactive_wfs, alloc_CV_indx,
  wr_state, wg_info,                 \* the FSM that sends the offset
  line,                              \* the registers between dispatcher and units
  cu,                                \* each unit's interface and offset registers
  wf_active,                         \* each unit's active wavefronts
  rtm,                               \* each unit's run-time memory: offset per wavefront
  given, ran                         \* history: each unit's last work-group, and
                                     \* its wavefronts that have been activated

schVars  == <<krnl, st_sch, id, nDisp, d0_ov, d1_ov>>
pipeVars == <<cd_indx, cd_indx_d0, cd_indx_d1, wf_active_slctd, n_inactive_wfs, alloc_CV_indx>>
vars == <<schVars, req, schedulingInProgress, pipeVars, wr_state, wg_info,
          line, cu, wf_active, rtm, given, ran>>

NoOffset == <<0, 0, 0>>

Init ==
  /\ krnl \in Kernels
  /\ st_sch = "idle"
  /\ id = NoOffset /\ nDisp = NoOffset /\ d0_ov = FALSE /\ d1_ov = FALSE
  /\ req = N_CU
  /\ schedulingInProgress = {}
  /\ cd_indx = 0 /\ cd_indx_d0 = 0 /\ cd_indx_d1 = 0
  /\ wf_active_slctd = {} /\ n_inactive_wfs = 0 /\ alloc_CV_indx = 0
  /\ wr_state = "prepare"
  /\ wg_info = 0
  /\ line = [c \in CUs |-> [req |-> N_CU, info |-> 0]]
  /\ cu = [c \in CUs |->
             [st |-> "free", wf_alloc_indx |-> 0, allocated_wfs |-> 0, n_wfs |-> 0,
              wf_activate |-> {}, ack |-> FALSE, dx |-> "write_d0", wg_offset |-> NoOffset]]
  /\ wf_active = [c \in CUs |-> {}]
  /\ rtm = [c \in CUs |-> [w \in WFs |-> NoOffset]]
  /\ given = [c \in CUs |-> None]
  /\ ran = [c \in CUs |-> {}]

-----------------------------------------------------------------------------
(* The dispatcher: combinational outputs of its scheduler FSM *)

req_n == IF st_sch = "seekCV" THEN alloc_CV_indx ELSE N_CU

finish_i == st_sch = "wait_finish" /\ \A c \in CUs : wf_active[c] = {}

(* The scheduler FSM, one action per state *)

Idle(k) ==           \* k is None while the control FSM starts no kernel
  /\ st_sch = "idle"
  /\ IF k = None THEN UNCHANGED <<st_sch, krnl>> ELSE st_sch' = "read_delay" /\ krnl' = k
  /\ UNCHANGED <<id, nDisp, d0_ov, d1_ov>>

ReadDelay ==
  /\ st_sch = "read_delay"
  /\ st_sch' = "prepare"
  /\ UNCHANGED <<krnl, id, nDisp, d0_ov, d1_ov>>

Prepare(start_exec) ==
  /\ st_sch = "prepare"
  /\ IF start_exec THEN st_sch' = "seekCV" /\ id' = krnl.offset
                   ELSE UNCHANGED <<st_sch, id>>
  /\ UNCHANGED <<krnl, nDisp, d0_ov, d1_ov>>

SeekCV ==
  /\ st_sch = "seekCV"
  /\ IF alloc_CV_indx # N_CU
     THEN st_sch' = "allocateWFs" /\ d0_ov' = (nDisp[1] = krnl.n_wg_m1[1])
     ELSE UNCHANGED <<st_sch, d0_ov>>
  /\ UNCHANGED <<krnl, id, nDisp, d1_ov>>

AllocateWFs ==
  /\ st_sch = "allocateWFs"
  /\ st_sch' = "checkAgain"
  /\ d1_ov' = (d0_ov /\ nDisp[2] = krnl.n_wg_m1[2])
  /\ UNCHANGED <<krnl, id, nDisp, d0_ov>>

\* fault: dimension 1 is not started again when dimension 2 moves on
AdvanceNoRestart(x, start, by) ==
  <<IF d0_ov THEN start[1] ELSE x[1] + by[1],
    IF d0_ov THEN x[2] + by[2] ELSE x[2],
    IF d1_ov THEN x[3] + by[3] ELSE x[3]>>

\* the coordinates of the next work-group, from those of this one: at the end
\* of dimension 0 dimension 1 moves on, at the end of both dimension 2 does
Advance(x, start, by) ==
  <<IF d0_ov THEN start[1] ELSE x[1] + by[1],
    IF d1_ov THEN start[2] ELSE IF d0_ov THEN x[2] + by[2] ELSE x[2],
    IF d1_ov THEN x[3] + by[3] ELSE x[3]>>

CheckAgain ==
  /\ st_sch = "checkAgain"
  /\ st_sch' = IF d1_ov /\ nDisp[3] = krnl.n_wg_m1[3] THEN "wait_wf_active" ELSE "seekCV"
  /\ id' = Advance(id, krnl.offset, krnl.wg_size)
  /\ nDisp' = Advance(nDisp, NoOffset, <<1, 1, 1>>)
  /\ UNCHANGED <<krnl, d0_ov, d1_ov>>

WaitWfActive ==
  /\ st_sch = "wait_wf_active"
  /\ st_sch' = IF schedulingInProgress = {} THEN "wait_finish" ELSE "wait_wf_active"
  /\ UNCHANGED <<krnl, id, nDisp, d0_ov, d1_ov>>

WaitFinish ==
  /\ st_sch = "wait_finish"
  /\ IF finish_i
     THEN st_sch' = "idle" /\ nDisp' = NoOffset /\ d0_ov' = FALSE /\ d1_ov' = FALSE
     ELSE UNCHANGED <<st_sch, nDisp, d0_ov, d1_ov>>
  /\ UNCHANGED <<krnl, id>>

Scheduler(k, start_exec) ==
  \/ Idle(k) \/ ReadDelay \/ Prepare(start_exec) \/ SeekCV \/ AllocateWFs
  \/ CheckAgain \/ WaitWfActive \/ WaitFinish

(* The search for a unit: a pipeline that never stalls *)
Search ==
  IF finish_i
  THEN /\ cd_indx' = 0 /\ cd_indx_d0' = 0 /\ cd_indx_d1' = 0
       /\ wf_active_slctd' = {} /\ n_inactive_wfs' = 0 /\ alloc_CV_indx' = 0
  ELSE /\ cd_indx' = (cd_indx + 1) % N_CU
       /\ wf_active_slctd' = wf_active[cd_indx] /\ cd_indx_d0' = cd_indx
       /\ n_inactive_wfs' = N_WF_CU - Cardinality(wf_active_slctd) /\ cd_indx_d1' = cd_indx_d0
       /\ alloc_CV_indx' = IF /\ n_inactive_wfs > krnl.n_WFs_m1
                              /\ cd_indx_d1 \notin schedulingInProgress
                           THEN cd_indx_d1 ELSE N_CU

Acks == {c \in CUs : cu[c].ack}

\* fault: a requested unit is not marked, only its wavefronts tell it is taken
RequestUnmarked ==
  /\ req' = IF finish_i THEN N_CU ELSE req_n
  /\ schedulingInProgress' = IF finish_i THEN {} ELSE schedulingInProgress \ Acks

\* fault: an acknowledge that comes in the cycle of a request is missed
AckMissed ==
  /\ req' = IF finish_i THEN N_CU ELSE req_n
  /\ schedulingInProgress' = IF finish_i THEN {}
                             ELSE IF req_n \in CUs THEN schedulingInProgress \cup {req_n}
                             ELSE schedulingInProgress \ Acks

RequestRegisters ==
  /\ req' = IF finish_i THEN N_CU ELSE req_n
  /\ schedulingInProgress' = IF finish_i THEN {}
                             ELSE (schedulingInProgress \cup ({req_n} \cap CUs)) \ Acks

(* The three words of the offset follow the request *)
SendOffset(start_exec) ==
  /\ wg_info' = CASE wr_state = "write_d1" -> id[2]
                  [] wr_state = "write_d2" -> id[3]
                  [] OTHER                 -> id[1]
  /\ wr_state' = CASE wr_state = "prepare"  -> IF st_sch = "prepare" /\ start_exec
                                               THEN "write_d0" ELSE "prepare"
                   [] wr_state = "write_d0" -> IF finish_i THEN "prepare"
                                               ELSE IF req_n # N_CU THEN "write_d1"
                                               ELSE "write_d0"
                   [] wr_state = "write_d1" -> "write_d2"
                   [] wr_state = "write_d2" -> "write_d0"

\* fault: only the request is delayed on its way
BroadcastInfoEarly ==
  line' = [c \in CUs |-> [req |-> IF c = N_CU - 1 THEN req ELSE line[c + 1].req,
                          info |-> wg_info]]

(* The registers along the units: the highest unit is the nearest *)
Broadcast == line' = [c \in CUs |-> IF c = N_CU - 1 THEN [req |-> req, info |-> wg_info]
                                                    ELSE line[c + 1]]

-----------------------------------------------------------------------------
(* A compute unit *)

sch_rqst(c) == line[c].req = c

\* the offset words are taken in the three cycles that start with the request
DxState(c) == CASE cu[c].dx = "write_d0" -> IF sch_rqst(c) THEN "write_d1" ELSE "write_d0"
                [] cu[c].dx = "write_d1" -> "write_d2"
                [] cu[c].dx = "write_d2" -> "write_d0"

WgOffset(c) ==
  CASE cu[c].dx = "write_d0" /\ sch_rqst(c) -> [cu[c].wg_offset EXCEPT ![1] = line[c].info]
    [] cu[c].dx = "write_d1" -> [cu[c].wg_offset EXCEPT ![2] = line[c].info]
    [] cu[c].dx = "write_d2" -> [cu[c].wg_offset EXCEPT ![3] = line[c].info]
    [] OTHER -> cu[c].wg_offset

\* fault: the wavefront index does not wrap
NextWFWide(w) == w + 1

NextWF(w) == (w + 1) % N_WF_CU

\* fault: the unit frees itself as soon as all wavefronts are set up
ReleaseEarly(c, waiting) == [waiting EXCEPT !.st = "free", !.ack = TRUE]

\* the unit frees itself when none of its wavefronts is active any more
Release(c, waiting) ==
  IF wf_active[c] = {} THEN [waiting EXCEPT !.st = "free", !.ack = TRUE]
                       ELSE [waiting EXCEPT !.st = "wait_wg_finish"]

(* The interface FSM; u is the unit's record with the pulses back to zero *)
Interface(c) ==
  LET u == [cu[c] EXCEPT !.ack = FALSE, !.wf_activate = {},
                         !.dx = DxState(c), !.wg_offset = WgOffset(c)]
  IN CASE u.st = "free" /\ sch_rqst(c) ->
            [u EXCEPT !.st = "reserve", !.wf_alloc_indx = 0,
                      !.n_wfs = krnl.n_WFs_m1 + 1, !.allocated_wfs = 0]
       [] u.st = "reserve" /\ u.wf_alloc_indx \notin wf_active[c] ->
            [u EXCEPT !.st = "write_wg_d0", !.allocated_wfs = @ + 1,
                      !.wf_activate = {u.wf_alloc_indx}]
       [] u.st = "reserve" /\ u.wf_alloc_indx \in wf_active[c] ->
            [u EXCEPT !.wf_alloc_indx = NextWF(@)]
       [] u.st = "write_wg_d0" -> [u EXCEPT !.st = "write_wg_d1"]
       [] u.st = "write_wg_d1" -> [u EXCEPT !.st = "write_wg_d2"]
       [] u.st = "write_wg_d2" ->
            LET v == [u EXCEPT !.wf_alloc_indx = NextWF(@)]
            IN IF u.allocated_wfs = u.n_wfs THEN Release(c, v) ELSE [v EXCEPT !.st = "reserve"]
       [] u.st = "wait_wg_finish" -> Release(c, u)
       [] OTHER -> u

\* the words of the offset, one per cycle, go to the wavefront being set up
RtmWrite(c) ==
  LET u == cu[c]
      Write(d) == [rtm[c] EXCEPT ![u.wf_alloc_indx][d] = u.wg_offset[d]]
  IN CASE u.st = "write_wg_d0" -> Write(1)
       [] u.st = "write_wg_d1" -> Write(2)
       [] u.st = "write_wg_d2" -> Write(3)
       [] OTHER -> rtm[c]

ComputeUnits(retire) ==
  /\ cu' = [c \in CUs |-> Interface(c)]
  /\ rtm' = [c \in CUs |-> RtmWrite(c)]
  /\ wf_active' = [c \in CUs |-> (wf_active[c] \ retire[c]) \cup cu[c].wf_activate]

History ==
  /\ given' = IF req_n \in CUs THEN [given EXCEPT ![req_n] = nDisp] ELSE given
  /\ ran' = [c \in CUs |-> IF c = req_n THEN {} ELSE ran[c] \cup cu[c].wf_activate]

-----------------------------------------------------------------------------
Clock(k, start_exec, retire) ==
  /\ Scheduler(k, start_exec)
  /\ Search /\ RequestRegisters /\ SendOffset(start_exec) /\ Broadcast
  /\ ComputeUnits(retire)
  /\ History

(* start is looked at only in idle, start_exec only in prepare, and any      *)
(* active wavefront may retire.                                             *)
Inputs(k, start_exec, retire) == /\ k # None => st_sch = "idle"
                                 /\ start_exec => st_sch = "prepare"
                                 /\ \A c \in CUs : retire[c] \subseteq wf_active[c]

Retirements == [CUs -> SUBSET WFs]

Next == \E k \in Kernels \cup {None}, start_exec \in BOOLEAN, retire \in Retirements :
          Inputs(k, start_exec, retire) /\ Clock(k, start_exec, retire)

Spec == Init /\ [][Next]_vars

-----------------------------------------------------------------------------
(* Properties *)

CUStates == {"free", "reserve", "write_wg_d0", "write_wg_d1", "write_wg_d2", "wait_wg_finish"}
DxStates == {"write_d0", "write_d1", "write_d2"}

TypeOK ==
  /\ krnl \in Kernels
  /\ st_sch \in {"idle", "read_delay", "prepare", "seekCV", "allocateWFs", "checkAgain",
                 "wait_wf_active", "wait_finish"}
  /\ id \in Nat \X Nat \X Nat /\ nDisp \in Nat \X Nat \X Nat
  /\ d0_ov \in BOOLEAN /\ d1_ov \in BOOLEAN
  /\ req \in 0..N_CU
  /\ schedulingInProgress \subseteq CUs
  /\ cd_indx \in CUs /\ cd_indx_d0 \in CUs /\ cd_indx_d1 \in CUs
  /\ wf_active_slctd \subseteq WFs /\ n_inactive_wfs \in 0..N_WF_CU
  /\ alloc_CV_indx \in 0..N_CU
  /\ wr_state \in {"prepare"} \cup DxStates
  /\ wg_info \in Nat
  /\ line \in [CUs -> [req : 0..N_CU, info : Nat]]
  /\ cu \in [CUs -> [st : CUStates, wf_alloc_indx : WFs, allocated_wfs : 0..N_WF_CU,
                     n_wfs : 0..N_WF_CU, wf_activate : SUBSET WFs, ack : BOOLEAN,
                     dx : DxStates, wg_offset : Nat \X Nat \X Nat]]
  /\ wf_active \in [CUs -> SUBSET WFs]
  /\ rtm \in [CUs -> [WFs -> Nat \X Nat \X Nat]]
  /\ given \in [CUs -> (Nat \X Nat \X Nat) \cup {None}]
  /\ ran \in [CUs -> SUBSET WFs]

Grid(k) == (0..k.n_wg_m1[1]) \X (0..k.n_wg_m1[2]) \X (0..k.n_wg_m1[3])

\* v comes after w in the order the dispatcher counts: dimension 0 fastest
After(v, w) == \/ v[3] > w[3]
               \/ v[3] = w[3] /\ v[2] > w[2]
               \/ v[3] = w[3] /\ v[2] = w[2] /\ v[1] > w[1]

Todo == CASE st_sch = "seekCV" -> {g \in Grid(krnl) : g = nDisp \/ After(g, nDisp)}
          [] st_sch \in {"allocateWFs", "checkAgain"} -> {g \in Grid(krnl) : After(g, nDisp)}
          [] OTHER -> {}

Groups == INSTANCE WorkGroups
            WITH Units <- CUs,
                 Grids <- {Grid(k) : k \in Kernels},
                 busy <- st_sch \notin {"idle", "read_delay", "prepare"},
                 todo <- Todo,
                 running <- [c \in CUs |-> IF c \in schedulingInProgress THEN given[c]
                                                                        ELSE None]

\* Whatever the stale look at the units and the wrap of the three counters do,
\* each work-group of the grid is dispatched once, to a unit that has none, and
\* the kernel ends only after all of them.
DispatchesTheGrid == Groups!Spec

\* A request finds the unit it was sent to idle, however many registers it
\* travelled through and however old the count of free wavefronts was: the unit
\* is free, collects no other offset and has no active wavefront.
RequestFindsUnitFree ==
  \A c \in CUs : sch_rqst(c) => /\ cu[c].st = "free" /\ cu[c].dx = "write_d0"
                                /\ wf_active[c] = {}

BeingSetUp(c, w) == /\ cu[c].wf_alloc_indx = w
                    /\ cu[c].st \in {"write_wg_d0", "write_wg_d1", "write_wg_d2"}

OffsetOf(wg) == <<krnl.offset[1] + wg[1] * krnl.wg_size[1],
                  krnl.offset[2] + wg[2] * krnl.wg_size[2],
                  krnl.offset[3] + wg[3] * krnl.wg_size[3]>>

\* Every running wavefront reads from the run-time memory the offset of the
\* work-group its unit was given: the three words, which follow the request one
\* per cycle while the scheduler already computes the next work-group, are not
\* mixed with those of another one.
RunsWithItsOffset ==
  \A c \in CUs : \A w \in wf_active[c] :
    BeingSetUp(c, w) \/ rtm[c][w] = OffsetOf(given[c])

\* A unit's work-group is taken off the books only when exactly as many
\* wavefronts as the descriptor says have run and none is active.
WholeGroupRan ==
  [][\A c \in CUs : c \in schedulingInProgress /\ c \notin schedulingInProgress' =>
       Cardinality(ran[c]) = krnl.n_WFs_m1 + 1 /\ wf_active[c] = {}]_vars
=============================================================================
