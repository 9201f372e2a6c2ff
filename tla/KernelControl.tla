--------------------------- MODULE KernelControl ---------------------------
(***************************************************************************)
(* The dispatcher with what starts it and what declares a kernel finished: *)
(* the host's start and status registers and the control FSM of            *)
(* RTL/FGPU_vliw.vhd, the finish FSM of every memory controller            *)
(* (RTL/gmem_cntrl_hbm.vhd) and a host that writes and polls.              *)
(*                                                                         *)
(* One step is one clock edge of all of them.  Inputs besides those of the *)
(* dispatcher: whether the units' memory controllers are idle, whether the *)
(* receivers of a controller are, and whether it is writing.               *)
(***************************************************************************)
EXTENDS WGDispatcher, Sequences, FiniteSetsExt

CONSTANTS Indices,     \* numbers a kernel may be started under
          Descriptor,  \* the kernel the host has stored under each of them
          Cleans,      \* the numbers whose bit in RcleanCache is set
          Cntrls       \* memory controllers

ASSUME ControlAssumption == /\ 0 \in Indices /\ Indices \subseteq Nat /\ IsFiniteSet(Indices)
                            /\ Descriptor \in [Indices -> Kernels]
                            /\ Cleans \subseteq Indices /\ Cntrls # {}

VARIABLES
  Rstart, Rstat,         \* the bits of the host's registers
  st_wg_disp,            \* control FSM
  krnl_indx_ltchd,       \* the kernel the dispatcher was started with last
  WGsDispatched,         \* the dispatcher's registered finish
  fin,                   \* each controller's finish FSM: st, masked, exec
  finish_exec_d0,
  awaits, wrote,         \* host: the kernels it waits for in order; wrote last cycle
  over, drained,         \* history: since its start the last kernel's work-groups
                         \* are over, and controllers that were idle after that
  complete               \* history: kernels that ran to their end since written

controlVars == <<Rstart, Rstat, st_wg_disp, krnl_indx_ltchd, WGsDispatched, fin, finish_exec_d0>>
hostVars    == <<awaits, wrote, over, drained, complete>>
allVars     == <<vars, controlVars, hostVars>>

ControlInit ==
  /\ Init
  /\ Rstart = {} /\ Rstat = {}
  /\ st_wg_disp = "idle"
  /\ krnl_indx_ltchd = 0
  /\ WGsDispatched = FALSE
  /\ fin = [m \in Cntrls |-> [st |-> "idle1", masked |-> FALSE, exec |-> FALSE]]
  /\ finish_exec_d0 = FALSE
  /\ awaits = <<>> /\ wrote = FALSE
  /\ over = TRUE /\ drained = Cntrls /\ complete = {}

-----------------------------------------------------------------------------
(* Control FSM and registers *)

finish_exec == \A m \in Cntrls : fin[m].exec

start_kernel == st_wg_disp = "idle" /\ Rstart # {}

new_krnl_indx == Min(Rstart)

\* fault: the FSM looks at the registered finish flags
ControlFSMLate ==
  st_wg_disp' = IF st_wg_disp = "idle" THEN IF Rstart # {} THEN "st1_dispatch" ELSE "idle"
                ELSE IF finish_exec_d0 THEN "idle" ELSE "st1_dispatch"

ControlFSM ==
  st_wg_disp' = IF st_wg_disp = "idle" THEN IF Rstart # {} THEN "st1_dispatch" ELSE "idle"
                ELSE IF finish_exec THEN "idle" ELSE "st1_dispatch"

\* a write of S to the start register, S = {} for none, does not come through
\* in the cycle of a start
StartRegister(S) ==
  Rstart' = IF start_kernel THEN Rstart \ {new_krnl_indx}
            ELSE IF S # {} THEN S ELSE Rstart

StatusRegister ==
  Rstat' = IF start_kernel THEN Rstat \ {new_krnl_indx}
           ELSE IF finish_exec /\ ~finish_exec_d0 THEN Rstat \cup {krnl_indx_ltchd}
           ELSE Rstat

LatchIndex ==
  krnl_indx_ltchd' = IF start_kernel /\ st_sch = "idle" THEN new_krnl_indx ELSE krnl_indx_ltchd

(* The finish FSM of a memory controller *)

\* fault: a start does not take the mask back
FinishMaskKept(m, idle, wvalid) ==
  LET f == fin[m]
  IN [st |-> CASE f.st = "idle1" /\ WGsDispatched -> "idle2"
               [] f.st = "idle2" /\ idle          -> "finish"
               [] f.st = "finish" /\ start_kernel -> "idle1"
               [] OTHER                           -> f.st,
      masked |-> f.st = "finish",
      exec |-> f.masked /\ ~start_kernel /\ ~(krnl_indx_ltchd \in Cleans /\ wvalid)]

\* fault: the FSM does not wait for the memory
FinishAtOnce(m, idle, wvalid) ==
  LET f == fin[m]
  IN [st |-> CASE f.st = "idle1" /\ WGsDispatched -> "finish"
               [] f.st = "finish" /\ start_kernel -> "idle1"
               [] OTHER                           -> f.st,
      masked |-> f.st = "finish" /\ ~start_kernel,
      exec |-> f.masked /\ ~start_kernel /\ ~(krnl_indx_ltchd \in Cleans /\ wvalid)]

\* idle: the units and the controller's receivers are idle.  clean_cache is
\* loaded in the cycle in which the dispatcher latches the number.
Finish(m, idle, wvalid) ==
  LET f == fin[m]
  IN [st |-> CASE f.st = "idle1" /\ WGsDispatched -> "idle2"
               [] f.st = "idle2" /\ idle          -> "finish"
               [] f.st = "finish" /\ start_kernel -> "idle1"
               [] OTHER                           -> f.st,
      masked |-> f.st = "finish" /\ ~start_kernel,
      exec |-> f.masked /\ ~start_kernel /\ ~(krnl_indx_ltchd \in Cleans /\ wvalid)]

Control(S, idle, wvalid) ==
  /\ ControlFSM /\ StartRegister(S) /\ StatusRegister /\ LatchIndex
  /\ WGsDispatched' = finish_i
  /\ finish_exec_d0' = finish_exec
  /\ fin' = [m \in Cntrls |-> Finish(m, m \in idle, m \in wvalid)]

-----------------------------------------------------------------------------
(* The host.  It has at most one kernel waiting behind another one, and     *)
(* reads the status of the one it started first.  Writes are two cycles      *)
(* apart, and a status read after a write comes later than the cycle after   *)
(* it: both are what the register interface takes.                           *)

Host(S) ==
  /\ wrote' = (S # {})
  /\ \/ S = {} /\ UNCHANGED awaits
     \/ /\ S = {} /\ ~wrote
        /\ awaits # <<>> /\ Head(awaits) \in Rstat
        /\ awaits' = Tail(awaits)
     \/ /\ ~wrote /\ Len(awaits) < 2
        /\ \E k \in S : k \notin Range(awaits) /\ awaits' = Append(awaits, k)

ControlHistory(S, idle) ==
  /\ over' = IF start_kernel THEN FALSE ELSE over \/ finish_i
  /\ drained' = CASE start_kernel -> {} [] over -> drained \cup idle [] OTHER -> drained
  /\ complete' = (complete \ S) \cup
       {k \in {krnl_indx_ltchd} : st_wg_disp # "idle" /\ over /\ drained = Cntrls}

\* Inputs are left at zero where nothing looks at them: the controllers that may
\* be idle or busy now, and those that may be writing.
Looking == IF over /\ (drained # Cntrls \/ \E m \in Cntrls : fin[m].st = "idle2")
           THEN Cntrls ELSE {}
Writing == {m \in Cntrls : fin[m].masked /\ krnl_indx_ltchd \in Cleans}

ControlStepWhere(P(_, _, _, _)) ==
  \E S \in {{}} \cup {{k} : k \in Indices}, idle \in SUBSET Looking, wvalid \in SUBSET Writing :
    /\ Host(S)
    /\ Control(S, idle, wvalid)
    /\ ControlHistory(S, idle)
    /\ \E start_exec \in {FALSE, st_sch = "prepare"}, retire \in Retirements :
         /\ \A c \in CUs : retire[c] \subseteq wf_active[c]
         /\ P(start_exec, retire, idle, wvalid)
         /\ Clock(IF start_kernel THEN Descriptor[new_krnl_indx] ELSE None, start_exec, retire)

ControlNext == ControlStepWhere(LAMBDA e, r, i, w : TRUE)

ControlSpec == ControlInit /\ [][ControlNext]_allVars

-----------------------------------------------------------------------------
(* Properties *)

ControlTypeOK ==
  /\ TypeOK
  /\ Rstart \subseteq Indices /\ Rstat \subseteq Indices
  /\ st_wg_disp \in {"idle", "st1_dispatch"}
  /\ krnl_indx_ltchd \in Indices
  /\ WGsDispatched \in BOOLEAN /\ finish_exec_d0 \in BOOLEAN
  /\ fin \in [Cntrls -> [st : {"idle1", "idle2", "finish"}, masked : BOOLEAN, exec : BOOLEAN]]
  /\ awaits \in Seq(Indices) /\ Len(awaits) <= 2 /\ wrote \in BOOLEAN
  /\ over \in BOOLEAN /\ drained \subseteq Cntrls /\ complete \subseteq Indices

\* The control FSM, which looks at the memory controllers' finish flags only,
\* starts a kernel when the dispatcher is idle and every finish FSM is through
\* (or none has begun): a start is never missed, and no flag of the kernel
\* before is still to come.
StartFindsAllIdle ==
  start_kernel => /\ st_sch = "idle" /\ ~WGsDispatched
                  /\ over /\ \E s \in {"idle1", "finish"} : \A m \in Cntrls : fin[m].st = s

\* When the host sees the status of a kernel it started, that start of it has run:
\* its last wavefront retired and every controller was idle some time after that.
\* Neither a finish flag that is still up from the kernel before, nor the status of
\* an earlier start of the same kernel behind another one, is taken for it.
HostSeesFinished ==
  [][awaits # <<>> /\ awaits' = Tail(awaits) => Head(awaits) \in complete]_allVars

\* The host never writes the start register in the cycle in which a kernel is
\* started, nor over a bit that has not been taken: with one kernel queued behind
\* another and writes two cycles apart no start is lost.
NoStartLost ==
  [][Len(awaits') > Len(awaits) => Rstart = {} /\ Rstart' = {awaits'[Len(awaits')]}]_allVars

\* The clock does not stop, and again and again comes a cycle in which the memory
\* is idle and writes nothing (it is looked at only when no wavefront is active);
\* a kernel's preparation ends, no wavefront runs for ever, and the host reads the
\* status.
ControlFairSpec ==
  /\ ControlSpec
  /\ WF_allVars(ControlStepWhere(LAMBDA e, r, i, w : i = Looking /\ w = {}))
  /\ []<>(st_sch # "prepare")
  /\ \A c \in CUs, w \in WFs : []<>(w \notin wf_active[c])
  /\ []<>(awaits = <<>> \/ Head(awaits) \notin Rstat)

\* Every kernel the host starts is seen finished by the host.
EveryStartFinishes == \A k \in Indices : k \in Range(awaits) ~> k \notin Range(awaits)
=============================================================================
