------------------------------ MODULE Barriers ------------------------------
(***************************************************************************)
(* The two barriers of RTL/CU_scheduler_vliw.vhd: the wavefronts of a      *)
(* work-group wait for each other and for their loads and stores; all      *)
(* units wait for each other (with RTL/FGPU_vliw.vhd), of which only the   *)
(* memory accesses behind the barrier are held back.                       *)
(*                                                                         *)
(* One step is one clock edge.  A wavefront is its FSM with its position   *)
(* in the program; all wavefronts of a kernel run the same program, in     *)
(* which only memory accesses and barriers are told apart.  Inputs: which  *)
(* instructions are there and can be issued (move), which loads and stores *)
(* are over (done), which units are given their work-group (give).         *)
(***************************************************************************)
EXTENDS Naturals, Sequences, FiniteSets

CONSTANTS N_CU, N_WF_CU,
          Kernels     \* program, the units it runs on, wavefronts of a work-group

CUs == 0..N_CU-1
WFs == 0..N_WF_CU-1
Ops == {"load", "store", "sync", "gsync"}
Access == {"load", "store"}

ASSUME SizesAssumption == N_CU \in Nat /\ N_WF_CU \in Nat

ASSUME KernelsAssumption ==
  \A k \in Kernels : /\ k.prog \in Seq(Ops) /\ k.prog # <<>>
                     /\ k.units \subseteq CUs
                     /\ k.n_wfs \in 1..N_WF_CU

\* A global barrier is taken for the one before when no access is between them.
ASSUME AccessBetweenAssumption ==
  \A k \in Kernels : \A p, q \in DOMAIN k.prog :
    p < q /\ k.prog[p] = "gsync" /\ k.prog[q] = "gsync"
      => \E i \in p..q : k.prog[i] \in Access

VARIABLES
  krnl,                  \* the kernel that runs
  todo,                  \* its units that have not been given their work-group
  intr,                  \* each unit's WGD interface: state, wavefront, wf_activate
  wf,                    \* each unit's wavefronts
  wf_reach_gsync_d0, gsync_reached_ltch,            \* per unit
  cu_active, wf_reach_gsync_ltch, gsync_reached     \* FGPU_vliw

vars == <<krnl, todo, intr, wf, wf_reach_gsync_d0, gsync_reached_ltch,
          cu_active, wf_reach_gsync_ltch, gsync_reached>>

\* pc 0: not activated for this kernel
Idle == [st |-> "idle", pc |-> 0, last_rd |-> {}, last_rd_v |-> FALSE,
         wr |-> {}, last_wr_num |-> 0, sync_reach |-> TRUE, gsync_reach |-> TRUE]

Init ==
  /\ krnl \in Kernels
  /\ todo = krnl.units
  /\ intr = [c \in CUs |-> [st |-> "free", wf_alloc_indx |-> 0, wf_activate |-> {}]]
  /\ wf = [c \in CUs |-> [w \in WFs |-> Idle]]
  /\ wf_reach_gsync_d0 = [c \in CUs |-> TRUE]
  /\ gsync_reached_ltch = [c \in CUs |-> TRUE]
  /\ cu_active = {} /\ wf_reach_gsync_ltch = {}
  /\ gsync_reached = TRUE

-----------------------------------------------------------------------------
(* A unit's work-group: one wavefront is activated every four cycles, in     *)
(* order, as a unit that is given work has no active one                     *)

Interface(c, give) ==
  LET u == [intr[c] EXCEPT !.wf_activate = {}]
      last == u.wf_alloc_indx = krnl.n_wfs - 1
  IN CASE u.st = "free" /\ give -> [u EXCEPT !.st = "reserve", !.wf_alloc_indx = 0]
       [] u.st = "reserve" -> [u EXCEPT !.st = "write_wg_d0", !.wf_activate = {u.wf_alloc_indx}]
       [] u.st = "write_wg_d0" -> [u EXCEPT !.st = "write_wg_d1"]
       [] u.st = "write_wg_d1" -> [u EXCEPT !.st = "write_wg_d2"]
       [] u.st = "write_wg_d2" /\ last -> [u EXCEPT !.st = "free"]
       [] u.st = "write_wg_d2" /\ ~last -> [u EXCEPT !.st = "reserve", !.wf_alloc_indx = @ + 1]
       [] OTHER -> u

(* A wavefront *)

op(w) == IF w.pc \in DOMAIN krnl.prog THEN krnl.prog[w.pc] ELSE "ret"

\* every wavefront of the unit has reached the barrier; an idle one counts too
AllReach(c)  == \A v \in WFs : wf[c][v].sync_reach
AllReachG(c) == \A v \in WFs : wf[c][v].gsync_reach

\* no load of any wavefront of the unit, and no store of this one, is under way
Settled(c, w) == /\ \A v \in WFs : ~wf[c][v].last_rd_v
                 /\ wf[c][w].last_wr_num = 0

\* fault: a store that is issued when another one is over is not counted
AccountMissed(c, w, issued, done) ==
  LET s == wf[c][w]
      over == {p \in s.wr : <<c, w, p>> \in done}
  IN [s EXCEPT !.last_rd = {p \in @ : <<c, w, p>> \notin done} \cup
                             (IF issued /\ op(s) = "load" THEN {s.pc} ELSE {}),
               !.last_rd_v = (s.last_rd # {}),
               !.wr = (@ \ over) \cup (IF issued /\ op(s) = "store" THEN {s.pc} ELSE {}),
               !.last_wr_num = IF over # {} THEN @ - 1
                               ELSE @ + (IF issued /\ op(s) = "store" THEN 1 ELSE 0)]

\* the bookkeeping of loads and stores, beside whatever the FSM does; wr is
\* history: which stores last_wr_num counts
Account(c, w, issued, done) ==
  LET s == wf[c][w]
      over == {p \in s.wr : <<c, w, p>> \in done}
  IN [s EXCEPT !.last_rd = {p \in @ : <<c, w, p>> \notin done} \cup
                             (IF issued /\ op(s) = "load" THEN {s.pc} ELSE {}),
               !.last_rd_v = (s.last_rd # {}),
               !.wr = (@ \ over) \cup (IF issued /\ op(s) = "store" THEN {s.pc} ELSE {}),
               !.last_wr_num = @ + (IF issued /\ op(s) = "store" THEN 1 ELSE 0) - Cardinality(over)]

\* fault: a wavefront that is activated is not taken out of the barrier
ActivateReached(s) == [s EXCEPT !.st = "wait_pc_rdy", !.pc = 1, !.gsync_reach = FALSE]

Activate(s) == [s EXCEPT !.st = "wait_pc_rdy", !.pc = 1,
                         !.sync_reach = FALSE, !.gsync_reach = FALSE]

\* check_rdy: an access behind a global barrier waits for the other units
CheckRdy(c, s) ==
  CASE op(s) \in Access /\ gsync_reached_ltch[c] -> [s EXCEPT !.st = "global_synchronize"]
    [] op(s) = "ret" -> [s EXCEPT !.st = "idle", !.sync_reach = TRUE]
    [] OTHER -> [s EXCEPT !.st = "rdy"]

Issue(s) ==
  [s EXCEPT !.pc = @ + 1,
            !.st = CASE op(s) = "sync"  -> "wait_load2"
                     [] op(s) = "gsync" -> "wait_load"
                     [] OTHER           -> "wait_for_selecting_PC"]

\* s is the wavefront with its loads and stores already accounted for
WfNext(c, w, move, done) ==
  LET here == wf[c][w].st
      goes == <<c, w>> \in move
      s == Account(c, w, here = "rdy" /\ goes, done)
  IN CASE here = "idle" /\ w \in intr[c].wf_activate -> Activate(s)
       [] here = "idle" /\ w \notin intr[c].wf_activate ->
            [s EXCEPT !.sync_reach = TRUE, !.gsync_reach = TRUE]
       [] here = "wait_pc_rdy" -> [s EXCEPT !.st = "check_rdy"]
       [] here = "check_rdy" /\ goes -> CheckRdy(c, s)
       [] here = "rdy" /\ goes -> Issue(s)
       [] here = "wait_load" ->
            IF AllReachG(c) THEN [s EXCEPT !.st = "wait_for_selecting_PC", !.gsync_reach = FALSE]
                            ELSE [s EXCEPT !.gsync_reach = @ \/ Settled(c, w)]
       [] here = "wait_load2" ->
            IF AllReach(c) THEN [s EXCEPT !.st = "wait_for_selecting_PC", !.sync_reach = FALSE]
                           ELSE [s EXCEPT !.sync_reach = @ \/ Settled(c, w)]
       [] here = "wait_for_selecting_PC" -> [s EXCEPT !.st = "wait_pc_rdy"]
       [] here = "global_synchronize" /\ gsync_reached -> [s EXCEPT !.st = "rdy"]
       [] OTHER -> s

-----------------------------------------------------------------------------
(* The global barrier: a unit that reached it says so for one cycle, the    *)
(* top level remembers which did, and tells all units when all have          *)

\* fault: the latch is cleared first
GsyncLatchCleared(c) == IF gsync_reached THEN FALSE
                        ELSE wf_reach_gsync_d0[c] \/ gsync_reached_ltch[c]

GsyncLatch(c) == IF wf_reach_gsync_d0[c] THEN TRUE
                 ELSE gsync_reached_ltch[c] /\ ~gsync_reached

\* fault: units without work are waited for
AllUnitsActive == \A c \in CUs : c \in wf_reach_gsync_ltch

AllUnits == \A c \in CUs : c \in wf_reach_gsync_ltch \/ c \notin cu_active

Global ==
  /\ cu_active' = {c \in CUs : \E w \in WFs : wf[c][w].st # "idle"}
  /\ wf_reach_gsync_ltch' = {c \in cu_active : AllReachG(c)}
                              \cup (IF AllUnits THEN {} ELSE wf_reach_gsync_ltch)
  /\ gsync_reached' = (AllUnits \/ (gsync_reached /\ wf_reach_gsync_ltch = {}))

-----------------------------------------------------------------------------
(* The inputs *)

Group == 0..krnl.n_wfs-1

Outstanding ==
  UNION {UNION {{<<c, w, p>> : p \in wf[c][w].last_rd \cup wf[c][w].wr} : w \in WFs} : c \in CUs}

\* a unit is told of one load and one store of each wavefront per cycle
OneDone(done) == \A x, y \in done : /\ x[1] = y[1] /\ x[2] = y[2]
                                   /\ krnl.prog[x[3]] = krnl.prog[y[3]]
                                   => x = y

\* every wavefront of the kernel has been activated
SetUp == todo = {} /\ \A c \in CUs : intr[c].st = "free" /\ intr[c].wf_activate = {}

\* What may move: an instruction that is there and not held back by a load or a
\* full queue; one that a unit may issue.  Global barriers are assumed to be
\* issued only when all units are at work: nothing in the code waits for it.
Movable == {x \in CUs \X WFs :
              LET s == wf[x[1]][x[2]]
              IN \/ s.st = "check_rdy"
                 \/ s.st = "rdy" /\ (op(s) = "gsync" => SetUp)}

\* a unit issues one instruction at a time
OneIssue(move) ==
  \A x, y \in move : x[1] = y[1] /\ wf[x[1]][x[2]].st = "rdy" /\ wf[y[1]][y[2]].st = "rdy"
                       => x = y

Over == /\ todo = {} /\ Outstanding = {}
        /\ \A c \in CUs : intr[c].st = "free" /\ intr[c].wf_activate = {}
        /\ \A c \in CUs, w \in WFs : wf[c][w].st = "idle"

\* the next kernel starts when the last one is over; the dispatcher gives each
\* of its units a work-group at some time
Clock(give, move, done) ==
  /\ intr' = [c \in CUs |-> Interface(c, c \in give)]
  /\ wf' = [c \in CUs |-> [w \in WFs |-> WfNext(c, w, move, done)]]
  /\ wf_reach_gsync_d0' = [c \in CUs |-> AllReachG(c)]
  /\ gsync_reached_ltch' = [c \in CUs |-> GsyncLatch(c)]
  /\ Global
  /\ krnl' = krnl
  /\ todo' = todo \ give

Launch ==
  /\ Over
  /\ krnl' \in Kernels
  /\ todo' = krnl'.units
  /\ wf' = [c \in CUs |-> [w \in WFs |-> [wf[c][w] EXCEPT !.pc = 0]]]
  /\ UNCHANGED <<intr, wf_reach_gsync_d0, gsync_reached_ltch,
                 cu_active, wf_reach_gsync_ltch, gsync_reached>>

Next == \/ Launch
        \/ \E give \in SUBSET todo, move \in SUBSET Movable, done \in SUBSET Outstanding :
             OneIssue(move) /\ OneDone(done) /\ Clock(give, move, done)

Spec == Init /\ [][Next]_vars

-----------------------------------------------------------------------------
(* Properties *)

WfStates == {"idle", "wait_pc_rdy", "check_rdy", "rdy", "wait_load", "wait_load2",
             "wait_for_selecting_PC", "global_synchronize"}

TypeOK ==
  /\ krnl \in Kernels /\ todo \subseteq krnl.units
  /\ intr \in [CUs -> [st : {"free", "reserve", "write_wg_d0", "write_wg_d1", "write_wg_d2"},
                       wf_alloc_indx : WFs, wf_activate : SUBSET WFs]]
  /\ \A c \in CUs, w \in WFs :
       LET s == wf[c][w]
       IN /\ s \in [st : WfStates, pc : 0..Len(krnl.prog) + 1,
                     last_rd : SUBSET DOMAIN krnl.prog, last_rd_v : BOOLEAN,
                     wr : SUBSET DOMAIN krnl.prog, last_wr_num : 0..Len(krnl.prog),
                     sync_reach : BOOLEAN, gsync_reach : BOOLEAN]
          /\ s.last_wr_num = Cardinality(s.wr)
  /\ wf_reach_gsync_d0 \in [CUs -> BOOLEAN] /\ gsync_reached_ltch \in [CUs -> BOOLEAN]
  /\ cu_active \subseteq CUs /\ wf_reach_gsync_ltch \subseteq CUs
  /\ gsync_reached \in BOOLEAN

\* A wavefront leaves the barrier of its work-group only when every wavefront of the
\* group is at that barrier, also one that is activated after the others came to
\* theirs, and no load or store any of them issued before it is under way.
LocalBarrier ==
  [][\A c \in CUs, w \in WFs :
       wf[c][w].st = "wait_load2" /\ wf'[c][w].st # "wait_load2" =>
         \A v \in Group : /\ wf[c][v].st = "wait_load2" /\ wf[c][v].pc = wf[c][w].pc
                          /\ wf[c][v].last_rd = {} /\ wf[c][v].wr = {}]_vars

Gsyncs(n) == {q \in DOMAIN krnl.prog : q < n /\ krnl.prog[q] = "gsync"}

\* No wavefront issues a load or store that comes after a global barrier before every
\* wavefront of every unit of the kernel has come to that barrier and all loads and
\* stores issued before it are over, though a unit leaves the barrier itself when its
\* own wavefronts have come.
GlobalBarrier ==
  [][\A c \in CUs, w \in WFs :
       /\ wf[c][w].st = "rdy" /\ op(wf[c][w]) \in Access
       /\ wf'[c][w].pc = wf[c][w].pc + 1
       => \A q \in Gsyncs(wf[c][w].pc) :
            /\ \A d \in krnl.units, v \in Group : wf[d][v].pc > q
            /\ \A x \in Outstanding : x[3] > q]_vars

\* The clock does not stop; a load or store that is under way and an instruction that
\* waits to be fetched or issued do not stay for ever, and every unit gets its work.
FairSpec ==
  /\ Spec
  /\ WF_vars(Clock({}, {}, {}))
  /\ []<>(todo = {})
  /\ \A c \in CUs, w \in WFs : /\ []<>(wf[c][w].st # "check_rdy")
                                /\ []<>(wf[c][w].st # "rdy")
                                /\ []<>(wf[c][w].last_rd = {} /\ wf[c][w].wr = {})

\* Every wavefront gets past every barrier, and past the wait for the other units.
EveryBarrierPassed ==
  \A c \in CUs, w \in WFs :
    wf[c][w].st \in {"wait_load", "wait_load2", "global_synchronize"} ~>
      wf[c][w].st \notin {"wait_load", "wait_load2", "global_synchronize"}
=============================================================================
