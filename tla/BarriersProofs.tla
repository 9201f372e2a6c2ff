--------------------------- MODULE BarriersProofs ---------------------------
(***************************************************************************)
(* The two barriers hold for every number of units and of wavefronts and   *)
(* all kernels.                                                            *)
(*                                                                         *)
(* The barrier of a work-group: its wavefronts are past the same sync      *)
(* instructions, as all that wait leave in the same cycle.  One that has   *)
(* ended, and counts as having reached the barrier, is past every sync, so *)
(* nobody waits.  One that is not activated yet counts too; but until it   *)
(* is, the wavefront activated before it has not reached a barrier: it     *)
(* needs five cycles to, and the next one is activated in the fourth.      *)
(*                                                                         *)
(* The global barrier: units leave it one by one, and those that have left *)
(* the one at q are latched at the top level (Waiting).  Until all have    *)
(* left it each of them is held back (HeldBack): in the first cycle by its *)
(* place in the FSM, after that by gsync_reached_ltch, as gsync_reached    *)
(* falls when the first one is latched and cannot rise before the last one *)
(* is.  So none gets to the next barrier, which is behind an access.  A    *)
(* unit that is not latched is active, or all its wavefronts have ended    *)
(* and are past every barrier (SetUpInv); and one that has just ended is   *)
(* not taken for one that came to a barrier (EndedInv).                    *)
(***************************************************************************)
EXTENDS Barriers, FiniteSetTheorems, TLAPS

Wavefronts == [st : WfStates, pc : Nat, last_rd : SUBSET Nat, last_rd_v : BOOLEAN,
               wr : SUBSET Nat, last_wr_num : Nat, sync_reach : BOOLEAN, gsync_reach : BOOLEAN]

InterfaceStates == {"free", "reserve", "write_wg_d0", "write_wg_d1", "write_wg_d2"}

Length == Len(krnl.prog)

TypeInv ==
  /\ krnl \in Kernels /\ todo \subseteq CUs
  /\ intr \in [CUs -> [st : InterfaceStates, wf_alloc_indx : Nat, wf_activate : SUBSET WFs]]
  /\ wf \in [CUs -> [WFs -> Wavefronts]]

\* what a wavefront's record says by itself
WfInv(s) ==
  /\ s.st = "idle" => (s.pc = 0 \/ s.pc = Length + 1) /\ s.sync_reach
  /\ s.st # "idle" => s.pc \in 1..(Length + 1)
  /\ s.st \in {"rdy", "global_synchronize"} => s.pc <= Length
  /\ s.st = "wait_load2" => s.pc > 1 /\ krnl.prog[s.pc - 1] = "sync"
  /\ s.st \notin {"idle", "wait_load2"} => ~s.sync_reach
  /\ s.st = "wait_load2" /\ s.sync_reach => s.last_rd = {} /\ s.wr = {}
  /\ s.st # "wait_for_selecting_PC" /\ s.last_rd # {} => s.last_rd_v
  /\ \A p \in s.last_rd \cup s.wr : 0 < p /\ p < s.pc
  /\ s.last_wr_num = Cardinality(s.wr)

WavefrontsInv == \A c \in CUs, w \in WFs : /\ WfInv(wf[c][w])
                                           /\ w \notin Group => wf[c][w].pc = 0

\* w has been activated, and no one after it
Latest(c, w) == \A v \in Group : wf[c][v].pc > 0 <=> v <= w

\* the interface and the wavefront it has activated last
InterfaceInv(c) ==
  LET u == intr[c]
      i == u.wf_alloc_indx
  IN /\ u.st = "free" => \/ \A v \in Group : wf[c][v].pc = 0
                         \/ c \notin todo /\ \A v \in Group : wf[c][v].pc > 0
     /\ u.st # "free" => c \notin todo /\ i \in Group
     /\ c \in todo => \A v \in Group : wf[c][v].pc = 0
     /\ u.wf_activate = IF u.st = "write_wg_d0" THEN {i} ELSE {}
     /\ u.st \in {"reserve", "write_wg_d0"} =>
          /\ Latest(c, i - 1)
          /\ i > 0 => ~wf[c][i - 1].sync_reach
     /\ u.st = "reserve" /\ i > 0 =>
          wf[c][i - 1].st \in {"check_rdy", "rdy", "global_synchronize"} /\ wf[c][i - 1].pc = 1
     /\ u.st = "write_wg_d0" /\ i > 0 => wf[c][i - 1].st # "idle"
     /\ u.st \in {"write_wg_d1", "write_wg_d2"} => Latest(c, i) /\ wf[c][i].pc = 1
     /\ u.st = "write_wg_d1" => wf[c][i].st = "wait_pc_rdy"
     /\ u.st = "write_wg_d2" => wf[c][i].st = "check_rdy"

InterfacesInv == \A c \in CUs : InterfaceInv(c)

\* s has left the barrier at p
Past(s, p) == s.pc > p + 1 \/ (s.pc = p + 1 /\ s.st # "wait_load2")

TogetherInv ==
  \A c \in CUs : \A v, w \in Group : \A p \in 1..Length :
    krnl.prog[p] = "sync" /\ Past(wf[c][v], p) => Past(wf[c][w], p)

BInv == TypeInv /\ WavefrontsInv /\ InterfacesInv /\ TogetherInv

-----------------------------------------------------------------------------
(* One step of one wavefront *)

LEMMA Programs ==
  ASSUME TypeInv
  PROVE  /\ krnl.prog \in Seq(Ops) /\ Length \in Nat /\ Length > 0
         /\ DOMAIN krnl.prog = 1..Length
         /\ krnl.n_wfs \in 1..N_WF_CU /\ N_WF_CU \in Nat /\ Group \subseteq WFs
<1>1. krnl.prog \in Seq(Ops) /\ krnl.prog # <<>> /\ krnl.n_wfs \in 1..N_WF_CU
  BY KernelsAssumption DEF TypeInv
<1> QED
  BY <1>1, SizesAssumption DEF Length, Group, WFs

\* a is the record s with its loads and stores accounted for
AccountedFor(s, a, issued) ==
  /\ a \in Wavefronts
  /\ a.st = s.st /\ a.pc = s.pc /\ a.sync_reach = s.sync_reach
  /\ a.last_rd # {} /\ ~issued => s.last_rd # {}
  /\ s.last_rd = {} /\ s.wr = {} /\ ~issued => a.last_rd = {} /\ a.wr = {}
  /\ a.last_rd # {} => s.last_rd # {} \/ op(s) = "load"
  /\ a.last_rd_v = (s.last_rd # {})
  /\ \A p \in a.last_rd \cup a.wr : 0 < p /\ (p < s.pc \/ (issued /\ p = s.pc))
  /\ a.last_wr_num = Cardinality(a.wr)

LEMMA Accounted ==
  ASSUME TypeInv, NEW c \in CUs, NEW w \in WFs, NEW issued \in BOOLEAN, NEW done,
         WfInv(wf[c][w]), issued => wf[c][w].st = "rdy"
  PROVE  AccountedFor(wf[c][w], Account(c, w, issued, done), issued)
<1> DEFINE s == wf[c][w]
           over == {p \in s.wr : <<c, w, p>> \in done}
           rd == {p \in s.last_rd : <<c, w, p>> \notin done} \cup
                   (IF issued /\ op(s) = "load" THEN {s.pc} ELSE {})
           wr == (s.wr \ over) \cup (IF issued /\ op(s) = "store" THEN {s.pc} ELSE {})
           num == s.last_wr_num + (IF issued /\ op(s) = "store" THEN 1 ELSE 0) - Cardinality(over)
           a == Account(c, w, issued, done)
<1>1. s \in Wavefronts /\ Length \in Nat
  BY Programs DEF TypeInv
<1>2. a = [s EXCEPT !.last_rd = rd, !.last_rd_v = (s.last_rd # {}), !.wr = wr, !.last_wr_num = num]
  BY <1>1 DEF Account, Wavefronts
<1>3. issued => s.pc \in Nat /\ 0 < s.pc
  BY <1>1 DEF WfInv
<1>4. \A p \in s.last_rd \cup s.wr : p \in Nat /\ 0 < p /\ p < s.pc
  BY <1>1 DEF WfInv, Wavefronts
<1>5. IsFiniteSet(s.wr)
  <2>1. s.wr \subseteq 0..s.pc /\ s.pc \in Nat
    BY <1>1, <1>4 DEF Wavefronts
  <2>2. IsFiniteSet(0..s.pc)
    BY <2>1, FS_Interval
  <2> QED
    BY <2>1, <2>2, FS_Subset
<1>6. num = Cardinality(wr) /\ num \in Nat
  <2>1. over \subseteq s.wr /\ IsFiniteSet(over) /\ IsFiniteSet(s.wr \ over)
    BY <1>5, FS_Subset
  <2>2. Cardinality(s.wr \ over) = Cardinality(s.wr) - Cardinality(over)
    <3>1. s.wr \cap over = over
      BY <2>1
    <3> QED
      BY <1>5, <3>1, FS_Difference
  <2>3. s.pc \notin s.wr
    BY <1>1, <1>4 DEF Wavefronts
  <2>4. /\ Cardinality((s.wr \ over) \cup {s.pc}) = Cardinality(s.wr \ over) + 1
        /\ IsFiniteSet((s.wr \ over) \cup {s.pc})
    BY <2>1, <2>3, FS_AddElement
  <2>5. /\ Cardinality(s.wr) \in Nat /\ Cardinality(over) \in Nat
        /\ Cardinality(s.wr \ over) \in Nat
    BY <1>5, <2>1, FS_CardinalityType
  <2>6. s.last_wr_num = Cardinality(s.wr)
    BY DEF WfInv
  <2>7. CASE issued /\ op(s) = "store"
    BY <2>2, <2>4, <2>5, <2>6, <2>7
  <2>8. CASE ~(issued /\ op(s) = "store")
    <3>1. wr = s.wr \ over
      BY <2>8
    <3>2. num = Cardinality(s.wr) - Cardinality(over)
      BY <2>5, <2>6, <2>8
    <3> QED
      BY <2>2, <2>5, <3>1, <3>2
  <2> QED
    BY <2>7, <2>8
<1>7. rd \in SUBSET Nat /\ wr \in SUBSET Nat
  BY <1>3, <1>4
<1> HIDE DEF num, a
<1>8. /\ a \in Wavefronts
      /\ a.st = s.st /\ a.pc = s.pc /\ a.sync_reach = s.sync_reach
      /\ a.last_rd = rd /\ a.wr = wr /\ a.last_rd_v = (s.last_rd # {}) /\ a.last_wr_num = num
  BY <1>1, <1>2, <1>6, <1>7 DEF Wavefronts
<1>9. \A p \in rd \cup wr : 0 < p /\ (p < s.pc \/ (issued /\ p = s.pc))
  BY <1>1, <1>3, <1>4 DEF Wavefronts
<1>10. AccountedFor(s, a, issued)
  BY <1>6, <1>8, <1>9 DEF AccountedFor
<1> QED
  BY <1>10 DEF a

\* how a wavefront moves from s to n
Moves(c, w, s, n) ==
  /\ s.st = "idle" /\ w \in intr[c].wf_activate => n.st = "wait_pc_rdy" /\ n.pc = 1
  /\ s.st = "idle" /\ w \notin intr[c].wf_activate => n.st = "idle" /\ n.pc = s.pc
  /\ s.st = "wait_pc_rdy" => n.st = "check_rdy" /\ n.pc = s.pc
  /\ s.st = "check_rdy" =>
       /\ n.pc = s.pc /\ n.st # "wait_load2"
       /\ n.st \in {"check_rdy", "rdy", "global_synchronize"} \/ s.pc = Length + 1
  /\ s.st = "rdy" => ~n.sync_reach
  /\ s.st = "rdy" =>
       \/ n.st = "rdy" /\ n.pc = s.pc
       \/ /\ n.pc = s.pc + 1 /\ n.st # "idle"
          /\ krnl.prog[s.pc] = "sync" => n.st = "wait_load2"
  /\ s.st = "wait_load2" /\ AllReach(c) => n.st = "wait_for_selecting_PC" /\ n.pc = s.pc
  /\ s.st = "wait_load2" /\ ~AllReach(c) => n.st = "wait_load2" /\ n.pc = s.pc
  /\ s.st = "global_synchronize" => n.st \in {"global_synchronize", "rdy"} /\ n.pc = s.pc
  /\ s.st \in {"wait_load", "wait_for_selecting_PC"} =>
       n.st \notin {"idle", "wait_load2"} /\ n.pc = s.pc

\* n differs from a in what the FSM assigns only
Kept(a, n) == /\ n \in Wavefronts
              /\ n.last_rd = a.last_rd /\ n.last_rd_v = a.last_rd_v
              /\ n.wr = a.wr /\ n.last_wr_num = a.last_wr_num

LEMMA WavefrontStep ==
  ASSUME TypeInv, NEW c \in CUs, NEW w \in WFs, NEW move, NEW done, WfInv(wf[c][w]),
         w \in intr[c].wf_activate => wf[c][w].pc = 0
  PROVE  LET n == WfNext(c, w, move, done)
         IN n \in Wavefronts /\ WfInv(n) /\ Moves(c, w, wf[c][w], n)
<1> DEFINE goes == <<c, w>> \in move
<1> SUFFICES ASSUME NEW s, s = wf[c][w],
                    NEW issued \in BOOLEAN, issued <=> s.st = "rdy" /\ goes,
                    NEW a, a = Account(c, w, issued, done),
                    NEW n, n = WfNext(c, w, move, done)
             PROVE  n \in Wavefronts /\ WfInv(n) /\ Moves(c, w, s, n)
  OBVIOUS
<1> HIDE DEF goes
<1>1. s \in Wavefronts /\ WfInv(s)
  BY DEF TypeInv
<1>2. AccountedFor(s, a, issued)
  BY Accounted
<1>3. /\ Length \in Nat /\ Length > 0 /\ s.pc \in Nat /\ s.st \in WfStates
      /\ s.sync_reach \in BOOLEAN
  BY <1>1, Programs DEF Wavefronts
<1>4. /\ s.pc \in 1..Length => op(s) = krnl.prog[s.pc] /\ op(s) # "ret"
      /\ s.pc \notin 1..Length => op(s) = "ret"
      /\ op(a) = op(s)
  <2>1. DOMAIN krnl.prog = 1..Length /\ krnl.prog \in Seq(Ops)
    BY Programs
  <2>2. \A i \in 1..Length : krnl.prog[i] \in Ops
    BY <2>1 DEF Length
  <2> QED
    BY <1>2, <2>1, <2>2 DEF op, Ops, AccountedFor
<1>5. /\ a = Account(c, w, wf[c][w].st = "rdy" /\ <<c, w>> \in move, done)
      /\ s = wf[c][w] /\ n = WfNext(c, w, move, done)
  <2>1. (wf[c][w].st = "rdy" /\ <<c, w>> \in move) = issued
    BY DEF goes
  <2> QED
    BY <2>1
<1>6. CASE s.st = "idle" /\ w \in intr[c].wf_activate
  <2>1. n = [a EXCEPT !.st = "wait_pc_rdy", !.pc = 1, !.sync_reach = FALSE, !.gsync_reach = FALSE]
    BY <1>5, <1>6 DEF WfNext, Activate
  <2>2. Kept(a, n) /\ n.st = "wait_pc_rdy" /\ n.pc = 1 /\ n.sync_reach = FALSE
    <3>1. a \in Wavefronts
      BY <1>2 DEF AccountedFor
    <3> DEFINE b == [a EXCEPT !.st = "wait_pc_rdy", !.pc = 1]
    <3>2. b \in Wavefronts
      BY <3>1 DEF Wavefronts, WfStates
    <3>3. n = [b EXCEPT !.sync_reach = FALSE, !.gsync_reach = FALSE]
      BY <2>1, <3>1 DEF Wavefronts
    <3>4. n \in Wavefronts
      BY <3>2, <3>3 DEF Wavefronts
    <3> QED
      BY <2>1, <3>1, <3>4 DEF Wavefronts, Kept
  <2>3. \A p \in a.last_rd \cup a.wr : FALSE
    <3>1. s.pc = 0 /\ ~issued
      BY <1>6
    <3> QED
      BY <1>2, <3>1 DEF AccountedFor, Wavefronts
  <2> QED
    BY <1>1, <1>2, <1>3, <1>6, <2>2, <2>3 DEF AccountedFor, Kept, WfInv, Moves
<1>7. CASE s.st = "idle" /\ w \notin intr[c].wf_activate
  <2>1. n = [a EXCEPT !.sync_reach = TRUE, !.gsync_reach = TRUE]
    BY <1>5, <1>7 DEF WfNext
  <2>2. Kept(a, n) /\ n.st = s.st /\ n.pc = s.pc /\ n.sync_reach = TRUE
    BY <1>2, <2>1 DEF AccountedFor, Wavefronts, WfStates, Kept
  <2> QED
    BY <1>1, <1>2, <1>3, <1>7, <2>2 DEF AccountedFor, Kept, WfInv, Moves
<1>8. CASE s.st = "wait_pc_rdy"
  <2>1. n = [a EXCEPT !.st = "check_rdy"]
    BY <1>5, <1>8 DEF WfNext
  <2>2. Kept(a, n) /\ n.st = "check_rdy" /\ n.pc = s.pc /\ n.sync_reach = s.sync_reach
    BY <1>2, <2>1 DEF AccountedFor, Wavefronts, WfStates, Kept
  <2> QED
    BY <1>1, <1>2, <1>3, <1>8, <2>2 DEF AccountedFor, Kept, WfInv, Moves
<1>9. CASE s.st = "check_rdy"
  <2>1. \/ n = a
        \/ n = [a EXCEPT !.st = "global_synchronize"] /\ op(a) \in Access
        \/ n = [a EXCEPT !.st = "idle", !.sync_reach = TRUE] /\ op(a) = "ret"
        \/ n = [a EXCEPT !.st = "rdy"] /\ op(a) # "ret"
    BY <1>5, <1>9 DEF WfNext, CheckRdy
  <2>2. /\ op(a) \in Access => s.pc <= Length
        /\ op(a) # "ret" => s.pc <= Length
        /\ op(a) = "ret" => s.pc = Length + 1
    <3>1. s.pc \in 1..(Length + 1)
      BY <1>1, <1>9 DEF WfInv
    <3> QED
      BY <1>3, <1>4, <3>1 DEF Access
  <2>3. /\ Kept(a, n) /\ n.pc = s.pc
        /\ \/ n.st = s.st /\ n.sync_reach = s.sync_reach
           \/ n.st = "global_synchronize" /\ s.pc <= Length /\ n.sync_reach = s.sync_reach
           \/ n.st = "idle" /\ s.pc = Length + 1 /\ n.sync_reach
           \/ n.st = "rdy" /\ s.pc <= Length /\ n.sync_reach = s.sync_reach
    BY <1>2, <2>1, <2>2 DEF AccountedFor, Wavefronts, WfStates, Kept
  <2> QED
    BY <1>1, <1>2, <1>3, <1>9, <2>3 DEF AccountedFor, Kept, WfInv, Moves
<1>10. CASE s.st = "rdy" /\ ~issued
  <2>1. n = a
    BY <1>5, <1>10 DEF WfNext, goes
  <2>2. Kept(a, n) /\ n.st = s.st /\ n.pc = s.pc /\ n.sync_reach = s.sync_reach
    BY <1>2, <2>1 DEF AccountedFor, Wavefronts, WfStates, Kept
  <2> QED
    BY <1>1, <1>2, <1>3, <1>10, <2>2 DEF AccountedFor, Kept, WfInv, Moves
<1>11. CASE s.st = "rdy" /\ issued
  <2> DEFINE st == CASE op(a) = "sync"  -> "wait_load2"
                     [] op(a) = "gsync" -> "wait_load"
                     [] OTHER           -> "wait_for_selecting_PC"
  <2>1. n = [a EXCEPT !.pc = s.pc + 1, !.st = st]
    <3>1. n = Issue(a)
      BY <1>5, <1>11 DEF WfNext, goes
    <3> QED
      BY <1>2, <3>1 DEF Issue, AccountedFor, Wavefronts
  <2>2. s.pc \in 1..Length /\ op(a) = krnl.prog[s.pc]
    BY <1>1, <1>3, <1>4, <1>11 DEF WfInv
  <2>3. /\ st \in {"wait_load2", "wait_load", "wait_for_selecting_PC"}
        /\ st = "wait_load2" <=> krnl.prog[s.pc] = "sync"
        /\ st # "wait_for_selecting_PC" => op(s) # "load"
    BY <1>4, <2>2
  <2> HIDE DEF st
  <2>4. Kept(a, n) /\ n.st = st /\ n.pc = s.pc + 1 /\ n.sync_reach = s.sync_reach
    <3>1. a \in Wavefronts /\ a.sync_reach = s.sync_reach /\ s.pc + 1 \in Nat /\ st \in WfStates
      BY <1>2, <1>3, <2>3 DEF AccountedFor, WfStates
    <3>2. n \in Wavefronts
      BY <2>1, <3>1 DEF Wavefronts
    <3> QED
      BY <2>1, <3>1, <3>2 DEF Wavefronts, Kept
  <2>5. Moves(c, w, s, n)
    BY <1>1, <1>11, <2>3, <2>4 DEF Moves, WfInv
  <2>6. \A p \in n.last_rd \cup n.wr : 0 < p /\ p < n.pc
    <3>1. \A p \in a.last_rd \cup a.wr : p \in Nat /\ 0 < p /\ (p < s.pc \/ p = s.pc)
      BY <1>2 DEF AccountedFor, Wavefronts
    <3> QED
      BY <1>3, <2>4, <3>1 DEF Kept
  <2>7. n.st # "wait_for_selecting_PC" /\ n.last_rd # {} => n.last_rd_v
    BY <1>2, <2>3, <2>4 DEF Kept, AccountedFor
  <2>8. /\ n.st # "idle" /\ n.pc \in 1..(Length + 1)
        /\ n.st \notin {"rdy", "global_synchronize"}
        /\ n.st = "wait_load2" => n.pc > 1 /\ krnl.prog[n.pc - 1] = "sync"
        /\ ~n.sync_reach
    BY <1>1, <1>3, <1>11, <2>2, <2>3, <2>4 DEF WfInv
  <2>9. WfInv(n)
    BY <1>2, <2>4, <2>6, <2>7, <2>8 DEF WfInv, AccountedFor, Kept
  <2> QED
    BY <2>4, <2>5, <2>9 DEF Kept
<1>12. CASE s.st = "wait_load"
  <2>1. \/ n = [a EXCEPT !.st = "wait_for_selecting_PC", !.gsync_reach = FALSE]
        \/ n = [a EXCEPT !.gsync_reach = a.gsync_reach \/ Settled(c, w)]
    BY <1>2, <1>5, <1>12 DEF WfNext, AccountedFor, Wavefronts
  <2>2. /\ Kept(a, n) /\ n.pc = s.pc /\ n.sync_reach = s.sync_reach
        /\ n.st \in {"wait_load", "wait_for_selecting_PC"}
    BY <1>2, <1>12, <2>1 DEF AccountedFor, Wavefronts, WfStates, Kept
  <2> QED
    BY <1>1, <1>2, <1>3, <1>12, <2>2 DEF AccountedFor, Kept, WfInv, Moves
<1>13. CASE s.st = "wait_load2" /\ AllReach(c)
  <2>1. n = [a EXCEPT !.st = "wait_for_selecting_PC", !.sync_reach = FALSE]
    BY <1>5, <1>13 DEF WfNext
  <2>2. Kept(a, n) /\ n.st = "wait_for_selecting_PC" /\ n.pc = s.pc /\ n.sync_reach = FALSE
    BY <1>2, <2>1 DEF AccountedFor, Wavefronts, WfStates, Kept
  <2> QED
    BY <1>1, <1>2, <1>3, <1>13, <2>2 DEF AccountedFor, Kept, WfInv, Moves
<1>14. CASE s.st = "wait_load2" /\ ~AllReach(c)
  <2>1. n = [a EXCEPT !.sync_reach = a.sync_reach \/ Settled(c, w)]
    BY <1>2, <1>5, <1>14 DEF WfNext, AccountedFor, Wavefronts
  <2>2. s.sync_reach \/ Settled(c, w) => a.last_rd = {} /\ a.wr = {}
    <3>1. Settled(c, w) => ~s.last_rd_v /\ s.last_wr_num = 0
      BY DEF Settled
    <3>2. s.last_wr_num = 0 => s.wr = {}
      <4>1. /\ s.last_wr_num = Cardinality(s.wr)
            /\ s.wr \subseteq 0..s.pc /\ s.pc \in Int
        BY <1>1 DEF WfInv, Wavefronts
      <4>2. IsFiniteSet(0..s.pc)
        BY <1>3, FS_Interval
      <4>3. IsFiniteSet(s.wr)
        BY <4>1, <4>2, FS_Subset
      <4> QED
        BY <4>1, <4>3, FS_EmptySet
    <3> QED
      BY <1>1, <1>2, <1>14, <3>1, <3>2 DEF WfInv, AccountedFor
  <2>3. /\ Kept(a, n) /\ n.pc = s.pc /\ n.st = s.st
        /\ n.sync_reach = (s.sync_reach \/ Settled(c, w))
    BY <1>2, <2>1 DEF AccountedFor, Wavefronts, WfStates, Kept
  <2> QED
    BY <1>1, <1>2, <1>3, <1>14, <2>2, <2>3 DEF AccountedFor, Kept, WfInv, Moves
<1>15. CASE s.st = "wait_for_selecting_PC"
  <2>1. n = [a EXCEPT !.st = "wait_pc_rdy"]
    BY <1>5, <1>15 DEF WfNext
  <2>2. Kept(a, n) /\ n.st = "wait_pc_rdy" /\ n.pc = s.pc /\ n.sync_reach = s.sync_reach
    BY <1>2, <2>1 DEF AccountedFor, Wavefronts, WfStates, Kept
  <2> QED
    BY <1>1, <1>2, <1>3, <1>15, <2>2 DEF AccountedFor, Kept, WfInv, Moves
<1>16. CASE s.st = "global_synchronize"
  <2>1. n = a \/ n = [a EXCEPT !.st = "rdy"]
    BY <1>5, <1>16 DEF WfNext
  <2>2. /\ Kept(a, n) /\ n.pc = s.pc /\ n.sync_reach = s.sync_reach
        /\ n.st \in {"global_synchronize", "rdy"}
    BY <1>2, <1>16, <2>1 DEF AccountedFor, Wavefronts, WfStates, Kept
  <2> QED
    BY <1>1, <1>2, <1>3, <1>16, <2>2 DEF AccountedFor, Kept, WfInv, Moves
<1> QED
  BY <1>3, <1>6, <1>7, <1>8, <1>9, <1>10, <1>11, <1>12, <1>13, <1>14, <1>15, <1>16
  DEF WfStates

-----------------------------------------------------------------------------
(* The barrier is left by all wavefronts of the work-group at once *)

LEMMA NotActivatedIsIdle ==
  ASSUME BInv, NEW c \in CUs, NEW w \in WFs
  PROVE  /\ wf[c][w] \in Wavefronts /\ wf[c][w].pc \in Nat /\ WfInv(wf[c][w])
         /\ wf[c][w].pc = 0 => wf[c][w].st = "idle"
         /\ w \notin Group => wf[c][w].st = "idle"
<1>1. wf[c][w] \in Wavefronts /\ WfInv(wf[c][w]) /\ (w \notin Group => wf[c][w].pc = 0)
  BY DEF BInv, TypeInv, WavefrontsInv
<1>2. wf[c][w].pc \in Nat
  BY <1>1 DEF Wavefronts
<1>3. wf[c][w].pc = 0 => wf[c][w].st = "idle"
  BY <1>1, <1>2 DEF WfInv
<1> QED
  BY <1>1, <1>2, <1>3

LEMMA AllActivated ==
  ASSUME BInv, NEW c \in CUs, AllReach(c), NEW w \in Group, wf[c][w].pc > 0
  PROVE  \A v \in Group : wf[c][v].pc > 0
<1> DEFINE u == intr[c]
           i == u.wf_alloc_indx
<1>1. InterfaceInv(c) /\ u.st \in InterfaceStates /\ i \in Nat
  BY DEF BInv, InterfacesInv, TypeInv
<1>2. /\ Group \subseteq WFs /\ w \in Nat /\ krnl.n_wfs \in Nat
      /\ \A v \in Group : wf[c][v].pc \in Nat
  BY Programs, NotActivatedIsIdle DEF BInv, Group
<1>3. \A v \in Group : wf[c][v].sync_reach
  BY <1>2 DEF AllReach
<1>4. CASE u.st = "free"
  BY <1>1, <1>2, <1>4 DEF InterfaceInv
<1>5. CASE u.st \in {"reserve", "write_wg_d0"}
  <2>1. Latest(c, i - 1) /\ i \in Group
    BY <1>1, <1>5 DEF InterfaceInv
  <2>2. w <= i - 1
    BY <1>2, <2>1 DEF Latest
  <2>3. i > 0 /\ i - 1 \in Group
    BY <1>1, <1>2, <2>1, <2>2 DEF Group
  <2> QED
    BY <1>1, <1>3, <1>5, <2>3 DEF InterfaceInv
<1>6. CASE u.st \in {"write_wg_d1", "write_wg_d2"}
  <2>1. i \in Group /\ wf[c][i].st \in {"wait_pc_rdy", "check_rdy"}
    BY <1>1, <1>6 DEF InterfaceInv
  <2>2. ~wf[c][i].sync_reach
    BY <1>2, <2>1, NotActivatedIsIdle DEF WfInv
  <2> QED
    BY <1>3, <2>1, <2>2
<1> QED
  BY <1>1, <1>4, <1>5, <1>6 DEF InterfaceStates

LEMMA Release ==
  ASSUME BInv, NEW c \in CUs, AllReach(c), NEW w \in WFs, wf[c][w].st = "wait_load2"
  PROVE  \A v \in Group : /\ wf[c][v].st = "wait_load2" /\ wf[c][v].pc = wf[c][w].pc
                          /\ wf[c][v].last_rd = {} /\ wf[c][v].wr = {}
<1> DEFINE p == wf[c][w].pc - 1
<1>1. w \in Group /\ WfInv(wf[c][w]) /\ wf[c][w].pc \in Nat
  BY NotActivatedIsIdle
<1>2. Length \in Nat /\ Group \subseteq WFs
  BY Programs DEF BInv
<1>3. /\ p \in 1..Length /\ krnl.prog[p] = "sync" /\ wf[c][w].pc = p + 1
      /\ wf[c][w].pc > 0
  BY <1>1, <1>2 DEF WfInv
<1> SUFFICES ASSUME NEW v \in Group
             PROVE  /\ wf[c][v].st = "wait_load2" /\ wf[c][v].pc = wf[c][w].pc
                    /\ wf[c][v].last_rd = {} /\ wf[c][v].wr = {}
  OBVIOUS
<1>4. v \in WFs /\ WfInv(wf[c][v]) /\ wf[c][v].pc \in Nat /\ wf[c][v].pc > 0
  BY <1>1, <1>2, <1>3, AllActivated, NotActivatedIsIdle
<1>5. wf[c][v].sync_reach
  BY <1>4 DEF AllReach
<1>6. ~Past(wf[c][w], p)
  BY <1>3 DEF Past
<1>7. ~Past(wf[c][v], p)
  BY <1>1, <1>3, <1>6 DEF BInv, TogetherInv
<1>8. wf[c][v].st # "idle"
  <2> SUFFICES ASSUME wf[c][v].st = "idle" PROVE FALSE
    OBVIOUS
  <2>1. wf[c][v].pc = Length + 1
    BY <1>4 DEF WfInv
  <2> QED
    BY <1>2, <1>3, <1>7, <2>1 DEF Past
<1>9. wf[c][v].st = "wait_load2" /\ wf[c][v].last_rd = {} /\ wf[c][v].wr = {}
  BY <1>4, <1>5, <1>8 DEF WfInv
<1> DEFINE q == wf[c][v].pc - 1
<1>10. q \in 1..Length /\ krnl.prog[q] = "sync" /\ wf[c][v].pc = q + 1
  BY <1>2, <1>4, <1>9 DEF WfInv
<1>11. ~Past(wf[c][v], q)
  BY <1>9, <1>10 DEF Past
<1>12. ~Past(wf[c][w], q)
  BY <1>1, <1>10, <1>11 DEF BInv, TogetherInv
<1> HIDE DEF p, q
<1>13. ~(p + 1 > q + 1) /\ ~(q + 1 > p + 1)
  BY <1>3, <1>7, <1>10, <1>12 DEF Past
<1> QED
  BY <1>2, <1>3, <1>9, <1>10, <1>13

-----------------------------------------------------------------------------
(* One clock edge *)

\* what all wavefronts do in a step
LEMMA ClockWavefronts ==
  ASSUME BInv, NEW give, NEW move, NEW done, Clock(give, move, done), NEW c \in CUs, NEW w \in WFs
  PROVE  /\ wf'[c][w] \in Wavefronts /\ wf'[c][w].pc \in Nat /\ WfInv(wf'[c][w])
         /\ Moves(c, w, wf[c][w], wf'[c][w])
         /\ w \in intr[c].wf_activate => w \in Group /\ wf[c][w].pc = 0
<1>1. InterfaceInv(c) /\ intr[c].st \in InterfaceStates /\ intr[c].wf_alloc_indx \in Nat
  BY DEF BInv, InterfacesInv, TypeInv
<1>2. w \in intr[c].wf_activate => w \in Group /\ wf[c][w].pc = 0
  <2> SUFFICES ASSUME w \in intr[c].wf_activate PROVE w \in Group /\ wf[c][w].pc = 0
    OBVIOUS
  <2>1. intr[c].st = "write_wg_d0" /\ w = intr[c].wf_alloc_indx
    BY <1>1 DEF InterfaceInv
  <2>2. w \in Group /\ Latest(c, w - 1)
    BY <1>1, <2>1 DEF InterfaceInv
  <2>3. ~(wf[c][w].pc > 0)
    BY <1>1, <2>1, <2>2 DEF Latest
  <2> QED
    BY <2>2, <2>3, NotActivatedIsIdle
<1>3. wf'[c][w] = WfNext(c, w, move, done)
  BY DEF Clock
<1>4. WfNext(c, w, move, done) \in Wavefronts /\ WfInv(WfNext(c, w, move, done))
      /\ Moves(c, w, wf[c][w], WfNext(c, w, move, done))
  BY <1>2, NotActivatedIsIdle, WavefrontStep DEF BInv
<1> QED
  BY <1>2, <1>3, <1>4 DEF Wavefronts

LEMMA ActivatedStep ==
  ASSUME BInv, NEW give, NEW move, NEW done, Clock(give, move, done), NEW c \in CUs, NEW w \in WFs
  PROVE  wf'[c][w].pc > 0 <=> wf[c][w].pc > 0 \/ w \in intr[c].wf_activate
<1> DEFINE s == wf[c][w]
           n == wf'[c][w]
<1>1. /\ s.pc \in Nat /\ s.st \in WfStates /\ n.pc \in Nat
      /\ s.st # "idle" => s.pc > 0
      /\ Moves(c, w, s, n)
      /\ w \in intr[c].wf_activate => s.st = "idle"
  <2>1. s \in Wavefronts /\ s.pc \in Nat /\ s.pc = 0 => s.st = "idle"
    BY NotActivatedIsIdle
  <2> QED
    BY <2>1, NotActivatedIsIdle, ClockWavefronts DEF Wavefronts
<1> HIDE DEF s, n
<1>2. CASE s.st = "idle"
  BY <1>1, <1>2 DEF Moves, n, s
<1>3. CASE s.st # "idle"
  <2>1. n.pc = s.pc \/ n.pc = s.pc + 1
    BY <1>1, <1>3 DEF Moves, WfStates
  <2> QED
    BY <1>1, <1>3, <2>1 DEF n, s
<1> QED
  BY <1>2, <1>3

Interfaces == [st : InterfaceStates, wf_alloc_indx : Nat, wf_activate : SUBSET WFs]

\* how an interface moves from u to n
Turns(u, n, give) ==
  /\ u.st = "free" /\ give  => n.st = "reserve" /\ n.wf_alloc_indx = 0 /\ n.wf_activate = {}
  /\ u.st = "free" /\ ~give => n.st = "free" /\ n.wf_activate = {}
  /\ u.st = "reserve" => /\ n.st = "write_wg_d0" /\ n.wf_alloc_indx = u.wf_alloc_indx
                         /\ n.wf_activate = {u.wf_alloc_indx}
  /\ u.st = "write_wg_d0" => /\ n.st = "write_wg_d1" /\ n.wf_alloc_indx = u.wf_alloc_indx
                             /\ n.wf_activate = {}
  /\ u.st = "write_wg_d1" => /\ n.st = "write_wg_d2" /\ n.wf_alloc_indx = u.wf_alloc_indx
                             /\ n.wf_activate = {}
  /\ u.st = "write_wg_d2" /\ u.wf_alloc_indx = krnl.n_wfs - 1 => n.st = "free" /\ n.wf_activate = {}
  /\ u.st = "write_wg_d2" /\ u.wf_alloc_indx # krnl.n_wfs - 1 =>
       n.st = "reserve" /\ n.wf_alloc_indx = u.wf_alloc_indx + 1 /\ n.wf_activate = {}

LEMMA InterfaceStep ==
  ASSUME TypeInv, NEW c \in CUs, NEW give \in BOOLEAN,
         intr[c].st = "reserve" => intr[c].wf_alloc_indx \in WFs
  PROVE  /\ Interface(c, give) \in Interfaces
         /\ Turns(intr[c], Interface(c, give), give)
<1> SUFFICES ASSUME NEW u, u = intr[c], NEW n, n = Interface(c, give)
             PROVE  n \in Interfaces /\ Turns(u, n, give)
  OBVIOUS
<1>1. u \in Interfaces
  BY DEF TypeInv, Interfaces
<1>2. /\ u.st \in InterfaceStates /\ u.wf_alloc_indx \in Nat /\ 0 \in Nat
      /\ u = [st |-> u.st, wf_alloc_indx |-> u.wf_alloc_indx, wf_activate |-> u.wf_activate]
  BY <1>1 DEF Interfaces
<1> DEFINE v == [u EXCEPT !.wf_activate = {}]
           R(x, i, A) == [st |-> x, wf_alloc_indx |-> i, wf_activate |-> A]
<1>3. v = R(u.st, u.wf_alloc_indx, {})
  BY <1>2
<1>4. \A x \in InterfaceStates, i \in Nat, A \in SUBSET WFs : R(x, i, A) \in Interfaces
  BY DEF Interfaces
<1>5. \A x, i, A : /\ R(x, i, A).st = x /\ R(x, i, A).wf_alloc_indx = i
                   /\ R(x, i, A).wf_activate = A
  OBVIOUS
<1>6. n = CASE v.st = "free" /\ give -> [v EXCEPT !.st = "reserve", !.wf_alloc_indx = 0]
            [] v.st = "reserve" -> [v EXCEPT !.st = "write_wg_d0", !.wf_activate = {v.wf_alloc_indx}]
            [] v.st = "write_wg_d0" -> [v EXCEPT !.st = "write_wg_d1"]
            [] v.st = "write_wg_d1" -> [v EXCEPT !.st = "write_wg_d2"]
            [] v.st = "write_wg_d2" /\ v.wf_alloc_indx = krnl.n_wfs - 1 -> [v EXCEPT !.st = "free"]
            [] v.st = "write_wg_d2" /\ ~(v.wf_alloc_indx = krnl.n_wfs - 1) ->
                 [v EXCEPT !.st = "reserve", !.wf_alloc_indx = @ + 1]
            [] OTHER -> v
  BY DEF Interface
<1> HIDE DEF v
<1>7. CASE u.st = "free" /\ give
  <2>1. n = R("reserve", 0, {})
    BY <1>3, <1>6, <1>7
  <2>2. n \in Interfaces
    BY <1>2, <1>4, <2>1 DEF InterfaceStates
  <2>3. n.st = "reserve" /\ n.wf_alloc_indx = 0 /\ n.wf_activate = {}
    BY <1>5, <2>1
  <2> QED
    BY <1>7, <2>2, <2>3 DEF Turns
<1>8. CASE u.st = "free" /\ ~give
  <2>1. n = R("free", u.wf_alloc_indx, {})
    BY <1>3, <1>6, <1>8
  <2> QED
    BY <1>2, <1>4, <1>5, <1>8, <2>1 DEF InterfaceStates, Turns
<1>9. CASE u.st = "reserve"
  <2>1. n = R("write_wg_d0", u.wf_alloc_indx, {u.wf_alloc_indx})
    BY <1>3, <1>6, <1>9
  <2> QED
    BY <1>2, <1>4, <1>5, <1>9, <2>1 DEF InterfaceStates, Turns
<1>10. CASE u.st = "write_wg_d0"
  <2>1. n = R("write_wg_d1", u.wf_alloc_indx, {})
    BY <1>3, <1>6, <1>10
  <2> QED
    BY <1>2, <1>4, <1>5, <1>10, <2>1 DEF InterfaceStates, Turns
<1>11. CASE u.st = "write_wg_d1"
  <2>1. n = R("write_wg_d2", u.wf_alloc_indx, {})
    BY <1>3, <1>6, <1>11
  <2> QED
    BY <1>2, <1>4, <1>5, <1>11, <2>1 DEF InterfaceStates, Turns
<1>12. CASE u.st = "write_wg_d2" /\ u.wf_alloc_indx = krnl.n_wfs - 1
  <2>1. n = R("free", u.wf_alloc_indx, {})
    BY <1>3, <1>6, <1>12
  <2> QED
    BY <1>2, <1>4, <1>5, <1>12, <2>1 DEF InterfaceStates, Turns
<1>13. CASE u.st = "write_wg_d2" /\ u.wf_alloc_indx # krnl.n_wfs - 1
  <2>1. n = R("reserve", u.wf_alloc_indx + 1, {})
    BY <1>3, <1>6, <1>13
  <2>2. u.wf_alloc_indx + 1 \in Nat
    BY <1>2
  <2> QED
    BY <1>2, <1>4, <1>5, <1>13, <2>1, <2>2 DEF InterfaceStates, Turns
<1> QED
  BY <1>2, <1>7, <1>8, <1>9, <1>10, <1>11, <1>12, <1>13 DEF InterfaceStates

LEMMA InterfaceInvStep ==
  ASSUME BInv, NEW give, NEW move, NEW done, Clock(give, move, done), give \subseteq todo,
         NEW c \in CUs
  PROVE  InterfaceInv(c)' /\ intr'[c] \in Interfaces
<1> SUFFICES ASSUME NEW u, u = intr[c], NEW n, n = intr'[c],
                    NEW i, i = u.wf_alloc_indx
             PROVE  InterfaceInv(c)' /\ n \in Interfaces
  OBVIOUS
<1>1. InterfaceInv(c) /\ u \in Interfaces /\ i \in Nat /\ u.st \in InterfaceStates
  BY DEF BInv, InterfacesInv, TypeInv, Interfaces
<1>2. krnl' = krnl /\ todo' = todo \ give /\ Group' = Group
  BY DEF Clock, Group
<1>3. /\ Group \subseteq WFs /\ krnl.n_wfs \in Nat /\ krnl.n_wfs > 0 /\ Length \in Nat /\ Length > 0
      /\ \A v \in Group : v \in Nat
  BY Programs DEF BInv, Group
<1>4. u.st # "free" => i \in Group /\ c \notin todo
  BY <1>1 DEF InterfaceInv
<1>5. n \in Interfaces /\ Turns(u, n, c \in give)
  <2>1. n = Interface(c, c \in give)
    BY DEF Clock
  <2>2. u.st = "reserve" => i \in WFs
    BY <1>3, <1>4
  <2>3. (c \in give) \in BOOLEAN /\ TypeInv
    BY DEF BInv
  <2>4. /\ Interface(c, c \in give) \in Interfaces
        /\ Turns(intr[c], Interface(c, c \in give), c \in give)
    BY <2>2, <2>3, InterfaceStep
  <2> QED
    BY <2>1, <2>4
<1>6. \A v \in Group : /\ wf'[c][v].pc > 0 <=> wf[c][v].pc > 0 \/ v \in u.wf_activate
                       /\ wf[c][v].pc \in Nat /\ wf'[c][v].pc \in Nat
                       /\ wf'[c][v] \in Wavefronts /\ WfInv(wf'[c][v])
                       /\ Moves(c, v, wf[c][v], wf'[c][v])
  BY <1>3, ActivatedStep, ClockWavefronts, NotActivatedIsIdle
<1>7. u.wf_activate = IF u.st = "write_wg_d0" THEN {i} ELSE {}
  BY <1>1 DEF InterfaceInv
<1>8. CASE u.st = "free" /\ c \notin give
  <2>1. n.st = "free" /\ n.wf_activate = {}
    BY <1>5, <1>8 DEF Turns
  <2>2. \A v \in Group : wf'[c][v].pc > 0 <=> wf[c][v].pc > 0
    BY <1>6, <1>7, <1>8
  <2> QED
    BY <1>1, <1>2, <1>5, <1>6, <1>8, <2>1, <2>2 DEF InterfaceInv
<1>9. CASE u.st = "free" /\ c \in give
  <2>1. n.st = "reserve" /\ n.wf_alloc_indx = 0 /\ n.wf_activate = {}
    BY <1>5, <1>9 DEF Turns
  <2>2. \A v \in Group : ~(wf'[c][v].pc > 0)
    BY <1>1, <1>6, <1>7, <1>9 DEF InterfaceInv
  <2>3. 0 \in Group /\ c \notin todo'
    BY <1>2, <1>3, <1>9 DEF Group
  <2>4. Latest(c, 0 - 1)'
    BY <1>2, <1>3, <2>2 DEF Latest
  <2> QED
    BY <1>2, <1>5, <2>1, <2>3, <2>4 DEF InterfaceInv
<1>10. CASE u.st = "reserve"
  <2>1. n.st = "write_wg_d0" /\ n.wf_alloc_indx = i /\ n.wf_activate = {i}
    BY <1>5, <1>10 DEF Turns
  <2>2. Latest(c, i - 1) /\ i \in Group /\ c \notin todo'
    BY <1>1, <1>2, <1>4, <1>10 DEF InterfaceInv
  <2>3. Latest(c, i - 1)'
    BY <1>2, <1>6, <1>7, <1>10, <2>2 DEF Latest
  <2>4. i > 0 => ~wf'[c][i - 1].sync_reach /\ wf'[c][i - 1].st # "idle"
    <3> SUFFICES ASSUME i > 0 PROVE ~wf'[c][i - 1].sync_reach /\ wf'[c][i - 1].st # "idle"
      OBVIOUS
    <3>1. i - 1 \in Group
      BY <1>1, <1>3, <2>2 DEF Group
    <3>2. /\ wf[c][i - 1].st \in {"check_rdy", "rdy", "global_synchronize"}
          /\ wf[c][i - 1].pc = 1
      BY <1>1, <1>10 DEF InterfaceInv
    <3>3. Moves(c, i - 1, wf[c][i - 1], wf'[c][i - 1]) /\ WfInv(wf'[c][i - 1])
      BY <1>6, <3>1
    <3> QED
      BY <1>3, <3>2, <3>3 DEF Moves, WfInv
  <2> QED
    BY <1>2, <1>5, <2>1, <2>2, <2>3, <2>4 DEF InterfaceInv
<1>11. CASE u.st = "write_wg_d0"
  <2>1. n.st = "write_wg_d1" /\ n.wf_alloc_indx = i /\ n.wf_activate = {}
    BY <1>5, <1>11 DEF Turns
  <2>2. Latest(c, i - 1) /\ i \in Group /\ c \notin todo'
    BY <1>1, <1>2, <1>4, <1>11 DEF InterfaceInv
  <2>3. wf[c][i].pc = 0
    BY <1>1, <1>6, <2>2 DEF Latest
  <2>4. wf'[c][i].st = "wait_pc_rdy" /\ wf'[c][i].pc = 1
    <3>1. wf[c][i].st = "idle" /\ i \in intr[c].wf_activate
      BY <1>3, <1>7, <1>11, <2>2, <2>3, NotActivatedIsIdle
    <3> QED
      BY <1>6, <2>2, <3>1 DEF Moves
  <2>5. Latest(c, i)'
    <3>1. \A v \in Group : v \in Nat /\ (wf'[c][v].pc > 0 <=> wf[c][v].pc > 0 \/ v = i)
      BY <1>3, <1>6, <1>7, <1>11
    <3> QED
      BY <1>1, <1>2, <2>2, <3>1 DEF Latest
  <2> QED
    BY <1>2, <1>5, <2>1, <2>2, <2>4, <2>5 DEF InterfaceInv
<1>12. CASE u.st \in {"write_wg_d1", "write_wg_d2"}
  <2>1. Latest(c, i) /\ i \in Group /\ c \notin todo' /\ wf[c][i].pc = 1
    BY <1>1, <1>2, <1>4, <1>12 DEF InterfaceInv
  <2>2. Latest(c, i)'
    BY <1>2, <1>6, <1>7, <1>12, <2>1 DEF Latest
  <2>3. CASE u.st = "write_wg_d1"
    <3>1. n.st = "write_wg_d2" /\ n.wf_alloc_indx = i /\ n.wf_activate = {}
      BY <1>5, <2>3 DEF Turns
    <3>2. wf'[c][i].st = "check_rdy" /\ wf'[c][i].pc = 1
      BY <1>1, <1>6, <2>1, <2>3 DEF InterfaceInv, Moves
    <3> QED
      BY <1>2, <1>5, <2>1, <2>2, <3>1, <3>2 DEF InterfaceInv
  <2>4. CASE u.st = "write_wg_d2" /\ i = krnl.n_wfs - 1
    <3>1. n.st = "free" /\ n.wf_activate = {}
      BY <1>5, <2>4 DEF Turns
    <3>2. \A v \in Group : wf'[c][v].pc > 0
      BY <1>2, <1>3, <2>2, <2>4 DEF Latest, Group
    <3> QED
      BY <1>2, <1>5, <2>1, <3>1, <3>2 DEF InterfaceInv
  <2>5. CASE u.st = "write_wg_d2" /\ i # krnl.n_wfs - 1
    <3>1. n.st = "reserve" /\ n.wf_alloc_indx = i + 1 /\ n.wf_activate = {}
      BY <1>5, <2>5 DEF Turns
    <3>2. /\ wf'[c][i].st \in {"check_rdy", "rdy", "global_synchronize"} /\ wf'[c][i].pc = 1
          /\ ~wf'[c][i].sync_reach
      BY <1>1, <1>3, <1>6, <2>1, <2>5 DEF InterfaceInv, Moves, WfInv
    <3>3. i + 1 \in Group /\ i + 1 - 1 = i
      BY <1>1, <1>3, <2>1, <2>5 DEF Group
    <3> DEFINE j == i + 1
    <3>4. Latest(c, j - 1)' /\ n.wf_alloc_indx = j /\ j \in Group /\ wf'[c][j - 1] = wf'[c][i]
      BY <1>1, <2>2, <3>1, <3>3 DEF Latest
    <3> HIDE DEF j
    <3> QED
      BY <1>2, <1>5, <2>1, <3>1, <3>2, <3>4 DEF InterfaceInv
  <2> QED
    BY <1>12, <2>3, <2>4, <2>5
<1> QED
  BY <1>1, <1>5, <1>8, <1>9, <1>10, <1>11, <1>12 DEF InterfaceStates

\* a wavefront gets past a barrier only by leaving it
LEMMA PastStep ==
  ASSUME BInv, NEW give, NEW move, NEW done, Clock(give, move, done), NEW c \in CUs,
         NEW v \in Group, NEW p \in 1..Length, krnl.prog[p] = "sync"
  PROVE  Past(wf'[c][v], p) <=> \/ Past(wf[c][v], p)
                                \/ wf[c][v].st = "wait_load2" /\ AllReach(c) /\ wf[c][v].pc = p + 1
<1> SUFFICES ASSUME NEW s, s = wf[c][v], NEW n, n = wf'[c][v]
             PROVE  Past(n, p) <=> \/ Past(s, p)
                                   \/ s.st = "wait_load2" /\ AllReach(c) /\ s.pc = p + 1
  OBVIOUS
<1>1. /\ s.pc \in Nat /\ n.pc \in Nat /\ s.st \in WfStates /\ Moves(c, v, s, n)
      /\ v \in intr[c].wf_activate => s.pc = 0
      /\ p \in Nat /\ p > 0
  <2>1. v \in WFs /\ Length \in Nat
    BY Programs DEF BInv
  <2>2. s \in Wavefronts /\ s.pc \in Nat
    BY <2>1, NotActivatedIsIdle
  <2> QED
    BY <2>1, <2>2, ClockWavefronts DEF Wavefronts
<1>2. CASE s.st = "idle" /\ v \in intr[c].wf_activate
  <2>1. n.pc = 1 /\ s.pc = 0
    BY <1>1, <1>2 DEF Moves
  <2> QED
    BY <1>1, <1>2, <2>1 DEF Past
<1>3. CASE s.st = "rdy"
  <2>1. \/ n.st = "rdy" /\ n.pc = s.pc
        \/ n.pc = s.pc + 1 /\ (s.pc = p => n.st = "wait_load2")
    BY <1>1, <1>3 DEF Moves
  <2> QED
    BY <1>1, <1>3, <2>1 DEF Past
<1>4. CASE s.st = "wait_load2"
  BY <1>1, <1>4 DEF Moves, Past
<1>5. CASE \/ s.st = "idle" /\ v \notin intr[c].wf_activate
           \/ s.st \in {"wait_pc_rdy", "check_rdy", "wait_load", "wait_for_selecting_PC",
                        "global_synchronize"}
  <2>1. n.pc = s.pc /\ n.st # "wait_load2"
    BY <1>1, <1>5 DEF Moves
  <2> QED
    BY <1>1, <1>5, <2>1 DEF Past
<1> QED
  BY <1>1, <1>2, <1>3, <1>4, <1>5 DEF WfStates

LEMMA ClockStep ==
  ASSUME BInv, NEW give, NEW move, NEW done, Clock(give, move, done), give \subseteq todo
  PROVE  BInv'
<1>1. krnl' = krnl /\ todo' = todo \ give /\ Group' = Group /\ Length' = Length
  BY DEF Clock, Group, Length
<1>2. /\ intr' = [c \in CUs |-> Interface(c, c \in give)]
      /\ wf' = [c \in CUs |-> [w \in WFs |-> WfNext(c, w, move, done)]]
  BY DEF Clock
<1>3. TypeInv'
  <2>1. krnl' \in Kernels /\ todo' \subseteq CUs
    BY <1>1 DEF BInv, TypeInv
  <2>2. intr' \in [CUs -> Interfaces]
    <3>1. \A c \in CUs : intr'[c] \in Interfaces
      BY InterfaceInvStep
    <3> QED
      BY <1>2, <3>1
  <2>3. wf' \in [CUs -> [WFs -> Wavefronts]]
    <3>1. \A c \in CUs, w \in WFs : WfNext(c, w, move, done) \in Wavefronts
      <4> SUFFICES ASSUME NEW c \in CUs, NEW w \in WFs PROVE WfNext(c, w, move, done) \in Wavefronts
        OBVIOUS
      <4>1. wf'[c][w] \in Wavefronts
        BY ClockWavefronts
      <4> QED
        BY <1>2, <4>1
    <3> QED
      BY <1>2, <3>1
  <2> QED
    BY <2>1, <2>2, <2>3 DEF TypeInv, Interfaces
<1>4. WavefrontsInv'
  <2> SUFFICES ASSUME NEW c \in CUs, NEW w \in WFs
               PROVE  WfInv(wf[c][w])' /\ (w \notin Group => wf'[c][w].pc = 0)
    BY <1>1 DEF WavefrontsInv
  <2>1. WfInv(wf'[c][w]) /\ wf'[c][w].pc \in Nat
    BY ClockWavefronts
  <2>2. WfInv(wf[c][w])'
    BY <1>1, <2>1 DEF WfInv
  <2>3. ASSUME w \notin Group PROVE wf'[c][w].pc = 0
    <3>1. wf[c][w].pc = 0 /\ w \notin intr[c].wf_activate
      BY <2>3, ClockWavefronts DEF BInv, WavefrontsInv
    <3> QED
      BY <2>1, <3>1, ActivatedStep
  <2> QED
    BY <2>2, <2>3
<1>5. InterfacesInv'
  BY InterfaceInvStep DEF InterfacesInv
<1>6. TogetherInv'
  <2> SUFFICES ASSUME NEW c \in CUs, NEW v \in Group, NEW w \in Group, NEW p \in 1..Length,
                      krnl.prog[p] = "sync", Past(wf'[c][v], p)
               PROVE  Past(wf'[c][w], p)
    BY <1>1 DEF TogetherInv, Past
  <2>1. CASE Past(wf[c][v], p)
    <3>1. Past(wf[c][w], p)
      BY <2>1 DEF BInv, TogetherInv
    <3> QED
      BY <3>1, PastStep
  <2>2. CASE wf[c][v].st = "wait_load2" /\ AllReach(c) /\ wf[c][v].pc = p + 1
    <3>1. v \in WFs
      BY Programs DEF BInv
    <3>2. wf[c][w].st = "wait_load2" /\ wf[c][w].pc = p + 1
      BY <2>2, <3>1, Release
    <3> QED
      BY <2>2, <3>2, PastStep
  <2> QED
    BY <2>1, <2>2, PastStep
<1> QED
  BY <1>3, <1>4, <1>5, <1>6 DEF BInv

-----------------------------------------------------------------------------
(* The next kernel, and the theorem *)

LEMMA InitBInv == Init => BInv
<1> SUFFICES ASSUME Init PROVE BInv
  OBVIOUS
<1>1. /\ krnl \in Kernels /\ todo = krnl.units
      /\ intr = [c \in CUs |-> [st |-> "free", wf_alloc_indx |-> 0, wf_activate |-> {}]]
      /\ wf = [c \in CUs |-> [w \in WFs |-> Idle]]
  BY DEF Init
<1>2. Idle \in Wavefronts
  BY DEF Idle, Wavefronts, WfStates
<1>3. TypeInv
  <2>1. todo \subseteq CUs
    BY <1>1, KernelsAssumption
  <2> QED
    BY <1>1, <1>2, <2>1 DEF TypeInv, InterfaceStates
<1>4. /\ \A c \in CUs, w \in WFs : wf[c][w] = Idle
      /\ \A c \in CUs : intr[c].st = "free" /\ intr[c].wf_activate = {}
  BY <1>1
<1>5. Idle.pc = 0
  BY DEF Idle
<1>6. Length \in Nat /\ Group \subseteq WFs
  BY <1>3, Programs
<1>7. WfInv(Idle)
  BY <1>6, FS_EmptySet DEF WfInv, Idle
<1>8. WavefrontsInv
  BY <1>4, <1>5, <1>7 DEF WavefrontsInv
<1>9. InterfacesInv
  BY <1>4, <1>5, <1>6 DEF InterfacesInv, InterfaceInv
<1>10. TogetherInv
  BY <1>4, <1>5, <1>6 DEF TogetherInv, Past
<1> QED
  BY <1>3, <1>8, <1>9, <1>10 DEF BInv

LEMMA LaunchStep == BInv /\ Launch => BInv'
<1> SUFFICES ASSUME BInv, Launch PROVE BInv'
  OBVIOUS
<1>1. /\ krnl' \in Kernels /\ todo' = krnl'.units /\ intr' = intr
      /\ wf' = [c \in CUs |-> [w \in WFs |-> [wf[c][w] EXCEPT !.pc = 0]]]
      /\ \A c \in CUs : intr[c].st = "free" /\ intr[c].wf_activate = {}
      /\ \A c \in CUs, w \in WFs : wf[c][w].st = "idle"
      /\ Outstanding = {}
  BY DEF Launch, Over
<1>2. ASSUME NEW c \in CUs, NEW w \in WFs
      PROVE  /\ wf'[c][w] \in Wavefronts
             /\ wf'[c][w].st = "idle" /\ wf'[c][w].pc = 0 /\ wf'[c][w].sync_reach
             /\ wf'[c][w].last_rd = {} /\ wf'[c][w].wr = {} /\ wf'[c][w].last_wr_num = 0
  <2> SUFFICES ASSUME NEW s, s = wf[c][w], NEW n, n = wf'[c][w]
               PROVE  /\ n \in Wavefronts
                      /\ n.st = "idle" /\ n.pc = 0 /\ n.sync_reach
                      /\ n.last_rd = {} /\ n.wr = {} /\ n.last_wr_num = 0
    OBVIOUS
  <2>1. n = [s EXCEPT !.pc = 0]
    BY <1>1
  <2>2. s \in Wavefronts /\ s.st = "idle" /\ s.sync_reach /\ s.last_wr_num = Cardinality(s.wr)
    BY <1>1, NotActivatedIsIdle DEF WfInv
  <2>3. s.last_rd = {} /\ s.wr = {}
    <3>1. \A p : p \in s.last_rd \cup s.wr => <<c, w, p>> \in Outstanding
      BY DEF Outstanding
    <3> QED
      BY <1>1, <3>1
  <2>4. s.last_wr_num = 0
    BY <2>2, <2>3, FS_EmptySet
  <2> QED
    BY <2>1, <2>2, <2>3, <2>4 DEF Wavefronts
<1>3. TypeInv'
  <2>1. todo' \subseteq CUs
    BY <1>1, KernelsAssumption
  <2>2. wf' \in [CUs -> [WFs -> Wavefronts]]
    BY <1>1, <1>2
  <2> QED
    BY <1>1, <2>1, <2>2 DEF BInv, TypeInv
<1>4. Length' \in Nat /\ Group' \subseteq WFs
  <2>1. /\ krnl'.prog \in Seq(Ops) /\ krnl'.n_wfs \in 1..N_WF_CU
    BY <1>1, KernelsAssumption
  <2> QED
    BY <2>1, SizesAssumption DEF Length, Group, WFs
<1>5. WavefrontsInv'
  <2> SUFFICES ASSUME NEW c \in CUs, NEW w \in WFs
               PROVE  WfInv(wf[c][w])' /\ wf'[c][w].pc = 0
    BY DEF WavefrontsInv
  <2> QED
    BY <1>2, <1>4, FS_EmptySet DEF WfInv
<1>6. InterfacesInv'
  BY <1>1, <1>2, <1>4 DEF InterfacesInv, InterfaceInv
<1>7. TogetherInv'
  <2> SUFFICES ASSUME NEW c \in CUs, NEW v \in Group', NEW p \in (1..Length)'
               PROVE  ~Past(wf'[c][v], p)
    BY DEF TogetherInv, Past
  <2> QED
    BY <1>2, <1>4 DEF Past
<1> QED
  BY <1>3, <1>5, <1>6, <1>7 DEF BInv

LEMMA NextBInv == BInv /\ [Next]_vars => BInv'
<1> SUFFICES ASSUME BInv, [Next]_vars PROVE BInv'
  OBVIOUS
<1>1. CASE Launch
  BY <1>1, LaunchStep
<1>2. ASSUME NEW give \in SUBSET todo, NEW move, NEW done, Clock(give, move, done)
      PROVE  BInv'
  BY <1>2, ClockStep
<1>3. CASE UNCHANGED vars
  <2>1. krnl' = krnl /\ todo' = todo /\ intr' = intr /\ wf' = wf
    BY <1>3 DEF vars
  <2>2. Length' = Length /\ Group' = Group
    BY <2>1 DEF Length, Group
  <2>3. TypeInv'
    BY <2>1 DEF BInv, TypeInv
  <2>4. WavefrontsInv'
    <3> SUFFICES ASSUME NEW c \in CUs, NEW w \in WFs
                 PROVE  WfInv(wf[c][w])' /\ (w \notin Group => wf'[c][w].pc = 0)
      BY <2>2 DEF WavefrontsInv
    <3>1. WfInv(wf[c][w]) /\ (w \notin Group => wf[c][w].pc = 0)
      BY DEF BInv, WavefrontsInv
    <3> QED
      BY <2>1, <2>2, <3>1 DEF WfInv
  <2>5. InterfacesInv'
    <3> SUFFICES ASSUME NEW c \in CUs PROVE InterfaceInv(c)'
      BY DEF InterfacesInv
    <3>1. InterfaceInv(c)
      BY DEF BInv, InterfacesInv
    <3> QED
      BY <2>1, <2>2, <3>1 DEF InterfaceInv, Latest
  <2>6. TogetherInv'
    BY <2>1, <2>2 DEF BInv, TogetherInv, Past
  <2> QED
    BY <2>3, <2>4, <2>5, <2>6 DEF BInv
<1> QED
  BY <1>1, <1>2, <1>3 DEF Next

\* A wavefront leaves the barrier of its work-group only when every wavefront of the group
\* is at that barrier, with no load or store of theirs under way (CU_scheduler_vliw.vhd,
\* wait_load2), however the units, the kernels and their programs are chosen.
THEOREM LocalBarrierSafe == Spec => LocalBarrier
<1> DEFINE A == \A c \in CUs, w \in WFs :
                  wf[c][w].st = "wait_load2" /\ wf'[c][w].st # "wait_load2" =>
                    \A v \in Group : /\ wf[c][v].st = "wait_load2" /\ wf[c][v].pc = wf[c][w].pc
                                     /\ wf[c][v].last_rd = {} /\ wf[c][v].wr = {}
<1>1. BInv /\ [Next]_vars => [A]_vars
  <2> SUFFICES ASSUME BInv, Next, NEW c \in CUs, NEW w \in WFs,
                      wf[c][w].st = "wait_load2", wf'[c][w].st # "wait_load2"
               PROVE  \A v \in Group : /\ wf[c][v].st = "wait_load2" /\ wf[c][v].pc = wf[c][w].pc
                                       /\ wf[c][v].last_rd = {} /\ wf[c][v].wr = {}
    OBVIOUS
  <2>1. ~Launch
    BY DEF Launch, Over
  <2>2. PICK give \in SUBSET todo, move \in SUBSET Movable, done \in SUBSET Outstanding :
          Clock(give, move, done)
    BY <2>1 DEF Next
  <2>3. Moves(c, w, wf[c][w], wf'[c][w])
    BY <2>2, ClockWavefronts
  <2>4. AllReach(c)
    BY <2>3 DEF Moves
  <2> QED
    BY <2>4, Release
<1> HIDE DEF A
<1>2. Spec => [][A]_vars
  BY <1>1, InitBInv, NextBInv, PTL DEF Spec
<1> QED
  BY <1>2 DEF LocalBarrier, A

-----------------------------------------------------------------------------
(* The types of the remaining registers *)

LEMMA CountTo ==
  ASSUME NEW n \in Nat
  PROVE  IsFiniteSet(1..n) /\ Cardinality(1..n) = n
<1> DEFINE i == 1
<1>1. i \in Int /\ n \in Int
  OBVIOUS
<1> HIDE DEF i
<1>2. IsFiniteSet(i..n) /\ Cardinality(i..n) = IF i > n THEN 0 ELSE n - i + 1
  BY <1>1, FS_Interval
<1> QED
  BY <1>2 DEF i

RegistersInv ==
  /\ todo \subseteq krnl.units
  /\ \A c \in CUs : intr[c].wf_alloc_indx \in WFs
  /\ wf_reach_gsync_d0 \in [CUs -> BOOLEAN] /\ gsync_reached_ltch \in [CUs -> BOOLEAN]
  /\ cu_active \subseteq CUs /\ wf_reach_gsync_ltch \subseteq CUs
  /\ gsync_reached \in BOOLEAN

TInv == BInv /\ RegistersInv

LEMMA InitTInv == Init => TInv
<1> SUFFICES ASSUME Init PROVE RegistersInv
  BY InitBInv DEF TInv
<1>1. 0 \in WFs
  BY InitBInv, Programs DEF BInv, WFs
<1> QED
  BY <1>1 DEF Init, RegistersInv

\* a unit that works through its work-group counts within the wavefronts it has
LEMMA CountersStep ==
  ASSUME TInv, NEW give, NEW move, NEW done, Clock(give, move, done), give \subseteq todo,
         NEW c \in CUs
  PROVE  intr'[c].wf_alloc_indx \in WFs
<1> DEFINE n == intr'[c]
<1>1. n = Interface(c, c \in give) /\ Group' = Group
  BY DEF Clock, Group
<1>2. /\ BInv /\ intr[c].wf_alloc_indx \in WFs /\ 0 \in WFs /\ Group \subseteq WFs
      /\ intr[c] \in Interfaces
  BY Programs DEF TInv, RegistersInv, BInv, TypeInv, Interfaces, WFs
<1>3. CASE n.st # "free"
  <2>1. BInv'
    BY <1>2, ClockStep
  <2> QED
    BY <1>1, <1>2, <1>3, <2>1 DEF BInv, InterfacesInv, InterfaceInv
<1>4. CASE n.st = "free"
  <2>1. Turns(intr[c], n, c \in give)
    <3>1. InterfaceInv(c) /\ TypeInv /\ (c \in give) \in BOOLEAN
      BY <1>2 DEF BInv, InterfacesInv
    <3> QED
      BY <1>1, <1>2, <3>1, InterfaceStep
  <2>2. intr[c].st \in {"free", "write_wg_d2"} /\ ~(intr[c].st = "free" /\ c \in give)
    BY <1>2, <1>4, <2>1 DEF Turns, Interfaces, InterfaceStates
  <2>3. n.wf_alloc_indx = intr[c].wf_alloc_indx
    <3> DEFINE v == [intr[c] EXCEPT !.wf_activate = {}]
    <3>1. v.st = intr[c].st /\ v.wf_alloc_indx = intr[c].wf_alloc_indx
      BY <1>2 DEF Interfaces
    <3>2. [v EXCEPT !.st = "free"].wf_alloc_indx = v.wf_alloc_indx
      BY <1>2 DEF Interfaces
    <3>3. intr[c].st = "write_wg_d2" => v.wf_alloc_indx = krnl.n_wfs - 1
      <4>1. [v EXCEPT !.st = "reserve", !.wf_alloc_indx = @ + 1].st = "reserve"
        BY <1>2 DEF Interfaces
      <4> QED
        BY <1>1, <1>4, <3>1, <4>1 DEF Interface
    <3> QED
      BY <1>1, <2>2, <3>1, <3>2, <3>3 DEF Interface
  <2> QED
    BY <1>2, <2>3
<1> QED
  BY <1>3, <1>4

LEMMA NextTInv == TInv /\ [Next]_vars => TInv'
<1> SUFFICES ASSUME TInv, [Next]_vars PROVE RegistersInv'
  BY NextBInv DEF TInv
<1>1. CASE Launch
  BY <1>1 DEF Launch, TInv, RegistersInv
<1>2. ASSUME NEW give \in SUBSET todo, NEW move, NEW done, Clock(give, move, done)
      PROVE  RegistersInv'
  <2>1. \A c \in CUs : intr'[c].wf_alloc_indx \in WFs
    BY <1>2, CountersStep
  <2>2. todo' \subseteq krnl'.units
    BY <1>2 DEF Clock, TInv, RegistersInv
  <2>3. wf_reach_gsync_d0' \in [CUs -> BOOLEAN]
    BY <1>2 DEF Clock, AllReachG
  <2>4. gsync_reached_ltch' \in [CUs -> BOOLEAN]
    <3>1. \A c \in CUs : GsyncLatch(c) \in BOOLEAN
      BY DEF GsyncLatch
    <3> QED
      BY <1>2, <3>1 DEF Clock
  <2>5. /\ cu_active' \subseteq CUs /\ wf_reach_gsync_ltch' \subseteq CUs
        /\ gsync_reached' \in BOOLEAN
    BY <1>2 DEF Clock, Global, TInv, RegistersInv
  <2> QED
    BY <2>1, <2>2, <2>3, <2>4, <2>5 DEF RegistersInv
<1>3. CASE UNCHANGED vars
  BY <1>3 DEF vars, TInv, RegistersInv
<1> QED
  BY <1>1, <1>2, <1>3 DEF Next

\* In every state the registers and the wavefronts hold what they can hold, and the counter
\* of a wavefront's stores counts exactly those that are under way and never more than its
\* program has (CU_scheduler_vliw.vhd, wf_wait_vmem and last_wr_num).
THEOREM TypeCorrect == Spec => []TypeOK
<1>1. TInv => TypeOK
  <2> SUFFICES ASSUME TInv PROVE TypeOK
    OBVIOUS
  <2>1. BInv /\ RegistersInv /\ TypeInv
    BY DEF TInv, BInv
  <2>2. Length \in Nat /\ DOMAIN krnl.prog = 1..Length
    BY <2>1, Programs
  <2>3. intr \in [CUs -> [st : InterfaceStates, wf_alloc_indx : WFs, wf_activate : SUBSET WFs]]
    <3>1. ASSUME NEW c \in CUs
          PROVE  intr[c] \in [st : InterfaceStates, wf_alloc_indx : WFs, wf_activate : SUBSET WFs]
      BY <2>1 DEF TypeInv, RegistersInv
    <3> QED
      BY <2>1, <3>1 DEF TypeInv
  <2>4. ASSUME NEW c \in CUs, NEW w \in WFs, NEW s, s = wf[c][w]
        PROVE  /\ s \in [st : WfStates, pc : 0..Length + 1,
                     last_rd : SUBSET (1..Length), last_rd_v : BOOLEAN,
                     wr : SUBSET (1..Length), last_wr_num : 0..Length,
                     sync_reach : BOOLEAN, gsync_reach : BOOLEAN]
               /\ s.last_wr_num = Cardinality(s.wr)
    <3>1. s \in Wavefronts /\ s.pc \in Nat /\ WfInv(s)
      BY <2>1, <2>4, NotActivatedIsIdle
    <3>2. s.pc \in 0..Length + 1
      BY <2>2, <3>1 DEF WfInv
    <3>3. s.last_rd \in SUBSET (1..Length) /\ s.wr \in SUBSET (1..Length)
      BY <2>2, <3>1, <3>2 DEF WfInv, Wavefronts
    <3>4. s.last_wr_num = Cardinality(s.wr) /\ s.last_wr_num \in 0..Length
      <4>1. IsFiniteSet(1..Length) /\ Cardinality(1..Length) = Length
        BY <2>2, CountTo
      <4>2. Cardinality(s.wr) <= Length /\ Cardinality(s.wr) \in Nat
        BY <3>3, <4>1, FS_Subset, FS_CardinalityType
      <4> QED
        BY <2>2, <3>1, <4>2 DEF WfInv
    <3> QED
      BY <3>1, <3>2, <3>3, <3>4 DEF Wavefronts
  <2> QED
    BY <2>1, <2>2, <2>3, <2>4 DEF TypeOK, TypeInv, RegistersInv, Length, InterfaceStates
<1> QED
  BY <1>1, InitTInv, NextTInv, PTL DEF Spec

-----------------------------------------------------------------------------
(* The global barrier.  A unit's wavefronts leave it together, as they leave *)
(* the barrier of their work-group.                                          *)

GSites == {q \in 1..Length : krnl.prog[q] = "gsync"}

\* s has left the global barrier at q
Left(s, q) == s.pc > q + 1 \/ (s.pc = q + 1 /\ s.st # "wait_load")

\* what a wavefront's record says by itself
WfGInv(s) ==
  /\ s.st = "wait_load" => s.pc > 1 /\ krnl.prog[s.pc - 1] = "gsync"
  /\ s.st \notin {"idle", "wait_load"} => ~s.gsync_reach
  /\ s.st = "wait_load" /\ s.gsync_reach => s.last_rd = {} /\ s.wr = {}
  /\ \A q \in GSites : Left(s, q) => \A p \in s.last_rd \cup s.wr : p > q

WavefrontsGInv == \A c \in CUs, w \in WFs : WfGInv(wf[c][w])

\* a unit of the kernel that has been given its work-group, and one of no kernel
GivenInv ==
  \A c \in CUs :
    /\ c \in krnl.units \ todo /\ intr[c].st = "free" => \A v \in Group : wf[c][v].pc > 0
    /\ c \notin krnl.units => intr[c].st = "free" /\ \A v \in WFs : wf[c][v].pc = 0

\* a unit that has just ended is active for one more cycle, and does not count as one that
\* came to a barrier
EndedInv ==
  \A c \in cu_active : (\A v \in WFs : wf[c][v].st = "idle") => ~AllReachG(c)

Ended(c) == \A v \in Group : wf[c][v].st = "idle" /\ wf[c][v].pc = Length + 1

\* when one wavefront is at a global barrier all units are active but those that have ended
SetUpInv ==
  (\E c \in CUs, w \in WFs, q \in GSites : wf[c][w].pc > q) =>
     /\ SetUp
     /\ cu_active \subseteq krnl.units
     /\ \A d \in krnl.units : d \in cu_active \/ Ended(d)

TogetherGInv ==
  \A c \in CUs : \A v, w \in Group : \A q \in GSites :
    Left(wf[c][v], q) => Left(wf[c][w], q)

UnitLeft(c, q) == \A v \in Group : Left(wf[c][v], q)
Begun(q) == \E c \in krnl.units : UnitLeft(c, q)
AllLeft(q) == \A c \in krnl.units : UnitLeft(c, q)

\* nobody waits for another unit
Released == wf_reach_gsync_ltch = {} /\ \A q \in GSites : Begun(q) => AllLeft(q)

JustLeft(c, q) == \A v \in Group : wf[c][v].st = "wait_for_selecting_PC" /\ wf[c][v].pc = q + 1

\* c has left q: its next access is held back, and it has issued none since
HeldBack(c, q) ==
  /\ \/ wf_reach_gsync_d0[c] /\ JustLeft(c, q)
     \/ gsync_reached_ltch[c] /\ ~gsync_reached
  /\ \A v \in Group : /\ \A p \in 1..Length : q < p /\ p < wf[c][v].pc => krnl.prog[p] \notin Access
                      /\ wf[c][v].st = "rdy" => op(wf[c][v]) \notin Access

\* the units latched at the top level are those that have left q
Waiting(q) ==
  /\ wf_reach_gsync_ltch # {}
  /\ wf_reach_gsync_ltch = {c \in krnl.units : UnitLeft(c, q)}
  /\ \A r \in GSites : /\ r < q => AllLeft(r)
                       /\ r > q => ~Begun(r)
  /\ \A c \in wf_reach_gsync_ltch : HeldBack(c, q)
  /\ \/ ~AllLeft(q)
     \/ \E c \in wf_reach_gsync_ltch : JustLeft(c, q)

GateInv == Released \/ \E q \in GSites : Waiting(q)

GInv == /\ TInv /\ WavefrontsGInv /\ GivenInv /\ EndedInv /\ SetUpInv /\ TogetherGInv
        /\ GateInv

-----------------------------------------------------------------------------
(* One step of one wavefront, at the global barrier *)

LEMMA GAccounted ==
  ASSUME TypeInv, NEW c \in CUs, NEW w \in WFs, NEW issued \in BOOLEAN, NEW done
  PROVE  LET s == wf[c][w]
             a == Account(c, w, issued, done)
         IN /\ a.st = s.st /\ a.pc = s.pc /\ a.gsync_reach = s.gsync_reach
            /\ \A p \in a.last_rd \cup a.wr : p \in s.last_rd \cup s.wr \/ (issued /\ p = s.pc)
<1> DEFINE s == wf[c][w]
           a == Account(c, w, issued, done)
           over == {p \in s.wr : <<c, w, p>> \in done}
           rd == {p \in s.last_rd : <<c, w, p>> \notin done} \cup
                   (IF issued /\ op(s) = "load" THEN {s.pc} ELSE {})
           wr == (s.wr \ over) \cup (IF issued /\ op(s) = "store" THEN {s.pc} ELSE {})
           num == s.last_wr_num + (IF issued /\ op(s) = "store" THEN 1 ELSE 0) - Cardinality(over)
<1>1. s \in Wavefronts
  BY DEF TypeInv
<1>2. a = [s EXCEPT !.last_rd = rd, !.last_rd_v = (s.last_rd # {}), !.wr = wr, !.last_wr_num = num]
  BY <1>1 DEF Account, Wavefronts
<1>3. \A p \in rd \cup wr : p \in s.last_rd \cup s.wr \/ (issued /\ p = s.pc)
  OBVIOUS
<1> HIDE DEF num, rd, wr, s, a
<1>4. /\ a.st = s.st /\ a.pc = s.pc /\ a.gsync_reach = s.gsync_reach
      /\ a.last_rd = rd /\ a.wr = wr
  BY <1>1, <1>2 DEF Wavefronts
<1> QED
  BY <1>3, <1>4 DEF a, s

\* how a wavefront moves from s to n, as far as the global barrier goes
GMoves(c, w, s, n, goes) ==
  /\ s.st = "rdy" => \/ n.st = "rdy" /\ n.pc = s.pc
                     \/ /\ goes /\ n.pc = s.pc + 1 /\ n.st # "rdy"
                        /\ n.st = "wait_load" <=> krnl.prog[s.pc] = "gsync"
  /\ s.st = "wait_load" =>
       /\ n.pc = s.pc
       /\ n.st = IF AllReachG(c) THEN "wait_for_selecting_PC" ELSE "wait_load"
  /\ s.st \notin {"rdy", "wait_load"} => n.st # "wait_load"
  /\ s.st = "wait_for_selecting_PC" => n.st = "wait_pc_rdy"
  /\ n.st = "rdy" => s.st \in {"check_rdy", "rdy", "global_synchronize"}
  /\ s.st = "check_rdy" /\ n.st = "rdy" /\ gsync_reached_ltch[c] => op(s) \notin Access
  /\ s.st = "global_synchronize" /\ n.st = "rdy" => gsync_reached
  /\ s.st # "idle" /\ n.st = "idle" => ~n.gsync_reach

LEMMA GWavefrontStep ==
  ASSUME TypeInv, NEW c \in CUs, NEW w \in WFs, NEW move, NEW done, WfInv(wf[c][w]),
         WfGInv(wf[c][w]), w \in intr[c].wf_activate => wf[c][w].pc = 0
  PROVE  LET n == WfNext(c, w, move, done)
         IN WfGInv(n) /\ GMoves(c, w, wf[c][w], n, <<c, w>> \in move)
<1> DEFINE goes == <<c, w>> \in move
<1> SUFFICES ASSUME NEW s, s = wf[c][w],
                    NEW issued \in BOOLEAN, issued <=> s.st = "rdy" /\ goes,
                    NEW a, a = Account(c, w, issued, done),
                    NEW n, n = WfNext(c, w, move, done)
             PROVE  WfGInv(n) /\ GMoves(c, w, s, n, goes)
  OBVIOUS
<1> HIDE DEF goes
<1>1. s \in Wavefronts /\ WfInv(s) /\ WfGInv(s)
  BY DEF TypeInv
<1>2. AccountedFor(s, a, issued)
  BY Accounted
<1>3. /\ a.gsync_reach = s.gsync_reach
      /\ \A p \in a.last_rd \cup a.wr : p \in s.last_rd \cup s.wr \/ (issued /\ p = s.pc)
  BY GAccounted
<1>4. /\ Length \in Nat /\ s.pc \in Nat /\ s.st \in WfStates /\ s.gsync_reach \in BOOLEAN
      /\ GSites \subseteq 1..Length /\ a \in Wavefronts /\ a.st = s.st /\ a.pc = s.pc
  BY <1>1, <1>2, Programs DEF Wavefronts, AccountedFor, GSites
<1>5. n.st \in WfStates /\ Moves(c, w, s, n)
  BY WavefrontStep DEF Wavefronts
<1>6. (wf[c][w].st = "rdy" /\ <<c, w>> \in move) = issued
  BY DEF goes
<1>7. /\ a = Account(c, w, wf[c][w].st = "rdy" /\ <<c, w>> \in move, done)
      /\ s = wf[c][w] /\ n = WfNext(c, w, move, done)
  BY <1>6
<1>8. /\ s.pc \in 1..Length => op(s) = krnl.prog[s.pc]
      /\ op(a) = op(s)
  BY <1>4, Programs DEF op
<1>9. CASE s.st = "idle" /\ w \in intr[c].wf_activate
  <2>1. n.st = "wait_pc_rdy" /\ n.pc = 1
    BY <1>5, <1>9 DEF Moves
  <2>2. ~n.gsync_reach
    <3>1. n = Activate(a)
      BY <1>7, <1>9 DEF WfNext
    <3> QED
      BY <1>4, <3>1 DEF Activate, Wavefronts
  <2>3. \A q \in GSites : ~Left(n, q)
    BY <1>4, <2>1 DEF Left
  <2> QED
    BY <1>9, <2>1, <2>2, <2>3 DEF WfGInv, GMoves
\* what is left to show when nothing is issued and the barrier is not left
<1>10. ASSUME ~issued, n.pc = s.pc, n.last_rd = a.last_rd, n.wr = a.wr,
              s.st # "wait_load", n.st # "wait_load"
       PROVE  \A q \in GSites : Left(n, q) => \A p \in n.last_rd \cup n.wr : p > q
  BY <1>1, <1>3, <1>10 DEF WfGInv, Left
<1>11. CASE s.st = "idle" /\ w \notin intr[c].wf_activate
  <2>1. n = [a EXCEPT !.sync_reach = TRUE, !.gsync_reach = TRUE]
    BY <1>7, <1>11 DEF WfNext
  <2>2. n.st = "idle" /\ n.pc = s.pc /\ n.last_rd = a.last_rd /\ n.wr = a.wr
    BY <1>4, <1>11, <2>1 DEF Wavefronts
  <2> QED
    BY <1>10, <1>11, <2>2 DEF WfGInv, GMoves
<1>12. CASE s.st \in {"wait_pc_rdy", "wait_for_selecting_PC", "wait_load2"}
  <2>1. /\ n.pc = s.pc /\ n.last_rd = a.last_rd /\ n.wr = a.wr /\ n.gsync_reach = s.gsync_reach
        /\ n.st = IF s.st = "wait_pc_rdy" THEN "check_rdy"
                  ELSE IF s.st = "wait_for_selecting_PC" THEN "wait_pc_rdy"
                  ELSE IF AllReach(c) THEN "wait_for_selecting_PC" ELSE "wait_load2"
    <3>1. CASE s.st = "wait_pc_rdy"
      <4>1. n = [a EXCEPT !.st = "check_rdy"]
        BY <1>7, <3>1 DEF WfNext
      <4> QED
        BY <1>3, <1>4, <3>1, <4>1 DEF Wavefronts
    <3>2. CASE s.st = "wait_for_selecting_PC"
      <4>1. n = [a EXCEPT !.st = "wait_pc_rdy"]
        BY <1>7, <3>2 DEF WfNext
      <4> QED
        BY <1>3, <1>4, <3>2, <4>1 DEF Wavefronts
    <3>3. CASE s.st = "wait_load2"
      <4>1. n = IF AllReach(c) THEN [a EXCEPT !.st = "wait_for_selecting_PC", !.sync_reach = FALSE]
                               ELSE [a EXCEPT !.sync_reach = @ \/ Settled(c, w)]
        BY <1>7, <3>3 DEF WfNext
      <4> QED
        BY <1>3, <1>4, <3>3, <4>1 DEF Wavefronts
    <3> QED
      BY <1>12, <3>1, <3>2, <3>3
  <2>2. n.st \notin {"idle", "wait_load", "rdy"}
    BY <2>1
  <2> QED
    BY <1>1, <1>10, <1>12, <2>1, <2>2 DEF WfGInv, GMoves
<1>13. CASE s.st = "check_rdy"
  <2>1. \/ n = a
        \/ n = [a EXCEPT !.st = "global_synchronize"]
        \/ n = [a EXCEPT !.st = "idle", !.sync_reach = TRUE]
        \/ /\ n = [a EXCEPT !.st = "rdy"]
           /\ ~(op(a) \in Access /\ gsync_reached_ltch[c])
    BY <1>7, <1>13 DEF WfNext, CheckRdy
  <2>2. /\ n.pc = s.pc /\ n.last_rd = a.last_rd /\ n.wr = a.wr /\ n.gsync_reach = s.gsync_reach
        /\ n.st \in {"check_rdy", "global_synchronize", "idle", "rdy"}
        /\ n.st = "rdy" => ~(op(s) \in Access /\ gsync_reached_ltch[c])
    BY <1>3, <1>4, <1>8, <1>13, <2>1 DEF Wavefronts
  <2> QED
    BY <1>1, <1>10, <1>13, <2>2 DEF WfGInv, GMoves
<1>14. CASE s.st = "rdy" /\ ~issued
  <2>1. n = a
    BY <1>7, <1>14 DEF WfNext, goes
  <2> QED
    BY <1>1, <1>3, <1>4, <1>10, <1>14, <2>1 DEF WfGInv, GMoves
<1>15. CASE s.st = "rdy" /\ issued
  <2> DEFINE st == CASE op(a) = "sync"  -> "wait_load2"
                     [] op(a) = "gsync" -> "wait_load"
                     [] OTHER           -> "wait_for_selecting_PC"
  <2>1. n = [a EXCEPT !.pc = s.pc + 1, !.st = st]
    <3>1. n = Issue(a)
      BY <1>7, <1>15 DEF WfNext, goes
    <3> QED
      BY <1>4, <3>1 DEF Issue, Wavefronts
  <2>2. s.pc \in 1..Length /\ op(a) = krnl.prog[s.pc]
    BY <1>1, <1>4, <1>8, <1>15 DEF WfInv
  <2>3. /\ st \in {"wait_load2", "wait_load", "wait_for_selecting_PC"}
        /\ st = "wait_load" <=> krnl.prog[s.pc] = "gsync"
    BY <2>2
  <2> HIDE DEF st
  <2>4. /\ n.st = st /\ n.pc = s.pc + 1 /\ n.last_rd = a.last_rd /\ n.wr = a.wr
        /\ n.gsync_reach = s.gsync_reach
    BY <1>3, <1>4, <2>1 DEF Wavefronts
  <2>5. ~s.gsync_reach
    BY <1>1, <1>15 DEF WfGInv
  <2>6. ASSUME NEW q \in GSites, Left(n, q), NEW p \in n.last_rd \cup n.wr
        PROVE  p > q
    <3>1. q # s.pc
      BY <1>4, <2>3, <2>4, <2>6 DEF GSites, Left
    <3>2. q < s.pc /\ Left(s, q)
      BY <1>4, <1>15, <2>4, <2>6, <3>1 DEF Left
    <3> QED
      BY <1>1, <1>3, <1>4, <2>4, <3>2 DEF WfGInv
  <2>7. n.st = "wait_load" => n.pc > 1 /\ krnl.prog[n.pc - 1] = "gsync"
    <3> DEFINE p == s.pc
               r == n.pc
    <3>1. p \in Nat /\ p > 0 /\ r = p + 1
      BY <1>4, <2>2, <2>4
    <3> HIDE DEF p, r
    <3>2. r > 1 /\ r - 1 = p
      BY <3>1
    <3>3. n.pc > 1 /\ n.pc - 1 = s.pc
      BY <3>2 DEF p, r
    <3> QED
      BY <2>3, <2>4, <3>3
  <2>8. ~n.gsync_reach /\ n.st \notin {"idle", "rdy"}
    BY <2>3, <2>4, <2>5
  <2>9. WfGInv(n)
    BY <2>6, <2>7, <2>8 DEF WfGInv
  <2>10. GMoves(c, w, s, n, goes)
    BY <1>15, <2>3, <2>4, <2>8 DEF GMoves
  <2> QED
    BY <2>9, <2>10
<1>16. CASE s.st = "wait_load" /\ AllReachG(c)
  <2>1. n = [a EXCEPT !.st = "wait_for_selecting_PC", !.gsync_reach = FALSE]
    BY <1>7, <1>16 DEF WfNext
  <2>2. /\ n.st = "wait_for_selecting_PC" /\ n.pc = s.pc /\ ~n.gsync_reach
        /\ n.last_rd = a.last_rd /\ n.wr = a.wr
    BY <1>4, <2>1 DEF Wavefronts
  <2>3. s.gsync_reach
    BY <1>16 DEF AllReachG
  <2>4. \A p \in n.last_rd \cup n.wr : FALSE
    BY <1>1, <1>3, <1>16, <2>2, <2>3 DEF WfGInv
  <2> QED
    BY <1>16, <2>2, <2>4 DEF WfGInv, GMoves
<1>17. CASE s.st = "wait_load" /\ ~AllReachG(c)
  <2>1. n = [a EXCEPT !.gsync_reach = a.gsync_reach \/ Settled(c, w)]
    BY <1>4, <1>7, <1>17 DEF WfNext, Wavefronts
  <2>2. /\ n.st = "wait_load" /\ n.pc = s.pc /\ n.last_rd = a.last_rd /\ n.wr = a.wr
        /\ n.gsync_reach = (s.gsync_reach \/ Settled(c, w))
    BY <1>3, <1>4, <1>17, <2>1 DEF Wavefronts
  <2>3. s.gsync_reach \/ Settled(c, w) => a.last_rd = {} /\ a.wr = {}
    <3>1. Settled(c, w) => ~s.last_rd_v /\ s.last_wr_num = 0
      BY DEF Settled
    <3>2. s.last_wr_num = 0 => s.wr = {}
      <4>1. s.last_wr_num = Cardinality(s.wr) /\ s.wr \subseteq 0..s.pc /\ s.pc \in Int
        BY <1>1, <1>4 DEF WfInv, Wavefronts
      <4>2. IsFiniteSet(0..s.pc)
        <5> DEFINE p == s.pc
        <5>1. p \in Int
          BY <4>1
        <5> HIDE DEF p
        <5>2. IsFiniteSet(0..p)
          BY <5>1, FS_Interval
        <5> QED
          BY <5>2 DEF p
      <4>3. IsFiniteSet(s.wr)
        BY <4>1, <4>2, FS_Subset
      <4> QED
        BY <4>1, <4>3, FS_EmptySet
    <3>3. Settled(c, w) => s.last_rd = {}
      BY <1>1, <1>17, <3>1 DEF WfInv
    <3> QED
      BY <1>1, <1>3, <1>17, <3>1, <3>2, <3>3 DEF WfGInv
  <2>4. \A q \in GSites : Left(n, q) <=> Left(s, q)
    BY <1>17, <2>2 DEF Left
  <2> QED
    BY <1>1, <1>3, <1>17, <2>2, <2>3, <2>4 DEF WfGInv, GMoves
<1>18. CASE s.st = "global_synchronize"
  <2>1. \/ n = a
        \/ n = [a EXCEPT !.st = "rdy"] /\ gsync_reached
    BY <1>7, <1>18 DEF WfNext
  <2>2. /\ n.pc = s.pc /\ n.last_rd = a.last_rd /\ n.wr = a.wr /\ n.gsync_reach = s.gsync_reach
        /\ n.st = "global_synchronize" \/ (n.st = "rdy" /\ gsync_reached)
    BY <1>3, <1>4, <1>18, <2>1 DEF Wavefronts
  <2> QED
    BY <1>1, <1>10, <1>18, <2>2 DEF WfGInv, GMoves
<1>19. WfGInv(n) /\ GMoves(c, w, s, n, goes)
  BY <1>4, <1>9, <1>11, <1>12, <1>13, <1>14, <1>15, <1>16, <1>17, <1>18 DEF WfStates
<1> QED
  BY <1>19

-----------------------------------------------------------------------------
(* A unit's wavefronts leave a global barrier together *)

\* the wavefronts of c leave the global barrier at q in this cycle
Leaves(c, q) == AllReachG(c) /\ \A v \in Group : wf[c][v].st = "wait_load" /\ wf[c][v].pc = q + 1

LEMMA GTypes ==
  ASSUME GInv
  PROVE  /\ BInv /\ TypeInv /\ Length \in Nat /\ GSites \subseteq 1..Length
         /\ krnl.units \subseteq CUs
         /\ Group \subseteq WFs /\ 0 \in Group
<1>1. BInv /\ TypeInv
  BY DEF GInv, TInv, BInv
<1>2. krnl.units \subseteq CUs
  BY <1>1, KernelsAssumption DEF TypeInv
<1>3. 0 \in Group
  BY <1>1, Programs DEF Group
<1> QED
  BY <1>1, <1>2, <1>3, Programs DEF GSites

LEMMA GWavefronts ==
  ASSUME GInv, NEW c \in CUs, NEW w \in WFs
  PROVE  /\ wf[c][w] \in Wavefronts /\ wf[c][w].pc \in Nat /\ wf[c][w].st \in WfStates
         /\ WfInv(wf[c][w]) /\ WfGInv(wf[c][w])
<1>1. WfGInv(wf[c][w])
  BY DEF GInv, WavefrontsGInv
<1> QED
  BY <1>1, GTypes, NotActivatedIsIdle DEF Wavefronts

LEMMA GActivated ==
  ASSUME GInv, NEW c \in CUs, NEW w \in WFs, NEW q \in GSites, wf[c][w].pc > q
  PROVE  /\ SetUp /\ c \in krnl.units
         /\ \A d \in krnl.units, v \in Group : wf[d][v].pc > 0
         /\ cu_active \subseteq krnl.units
         /\ \A d \in krnl.units : d \in cu_active \/ Ended(d)
<1>1. /\ SetUp /\ cu_active \subseteq krnl.units
      /\ \A d \in krnl.units : d \in cu_active \/ Ended(d)
  BY DEF GInv, SetUpInv
<1>2. \A d \in krnl.units, v \in Group : wf[d][v].pc > 0
  BY <1>1, GTypes DEF GInv, GivenInv, SetUp
<1>3. c \in krnl.units
  <2>1. wf[c][w].pc # 0
    BY GTypes, GWavefronts
  <2> QED
    BY <2>1 DEF GInv, GivenInv
<1> QED
  BY <1>1, <1>2, <1>3

\* a wavefront at a global barrier
LEMMA AtBarrier ==
  ASSUME GInv, NEW c \in CUs, NEW w \in WFs, wf[c][w].st = "wait_load"
  PROVE  \E q \in GSites : wf[c][w].pc = q + 1
<1>1. /\ wf[c][w].pc > 1 /\ krnl.prog[wf[c][w].pc - 1] = "gsync"
      /\ wf[c][w].pc \in 1..(Length + 1) /\ Length \in Nat
  BY GTypes, GWavefronts DEF WfGInv, WfInv
<1> DEFINE q == wf[c][w].pc - 1
<1>2. q \in 1..Length /\ wf[c][w].pc = q + 1 /\ krnl.prog[q] = "gsync"
  BY <1>1
<1> QED
  BY <1>2 DEF GSites

LEMMA GRelease ==
  ASSUME GInv, NEW c \in CUs, AllReachG(c), NEW w \in WFs, wf[c][w].st = "wait_load"
  PROVE  \E q \in GSites : wf[c][w].pc = q + 1 /\ Leaves(c, q)
<1>1. PICK q \in GSites : wf[c][w].pc = q + 1
  BY AtBarrier
<1>2. /\ q \in Nat /\ Length \in Nat /\ q <= Length
      /\ wf[c][w].pc > q
  BY <1>1, GTypes
<1>3. c \in krnl.units /\ \A v \in Group : wf[c][v].pc > 0
  BY <1>2, GActivated
<1>4. w \in Group
  BY <1>2, GTypes, NotActivatedIsIdle
<1>5. ASSUME NEW v \in Group
      PROVE  wf[c][v].st = "wait_load" /\ wf[c][v].pc = q + 1
  <2>1. v \in WFs /\ WfInv(wf[c][v]) /\ WfGInv(wf[c][v]) /\ wf[c][v].pc \in Nat
    BY GTypes, GWavefronts
  <2>2. wf[c][v].gsync_reach
    BY <2>1 DEF AllReachG
  <2>3. ~Left(wf[c][w], q)
    BY <1>1, <1>2 DEF Left
  <2>4. ~Left(wf[c][v], q)
    BY <1>4, <2>3, GTypes DEF GInv, TogetherGInv
  <2>5. wf[c][v].st # "idle"
    <3> SUFFICES ASSUME wf[c][v].st = "idle" PROVE FALSE
      OBVIOUS
    <3>1. wf[c][v].pc = Length + 1
      BY <1>3, <2>1 DEF WfInv
    <3> QED
      BY <1>2, <2>4, <3>1 DEF Left
  <2>6. wf[c][v].st = "wait_load"
    BY <2>1, <2>2, <2>5 DEF WfGInv
  <2>7. PICK r \in GSites : wf[c][v].pc = r + 1
    BY <2>1, <2>6, AtBarrier
  <2>8. r \in Nat
    BY <2>7, GTypes
  <2>9. ~Left(wf[c][v], r)
    BY <2>6, <2>7, <2>8 DEF Left
  <2>10. ~Left(wf[c][w], r)
    BY <1>4, <2>7, <2>9, GTypes DEF GInv, TogetherGInv
  <2>11. q <= r /\ r <= q
    BY <1>1, <1>2, <2>4, <2>6, <2>7, <2>8, <2>10 DEF Left
  <2> QED
    BY <1>2, <2>6, <2>7, <2>8, <2>11
<1> QED
  BY <1>1, <1>5 DEF Leaves

\* what is known of a unit that leaves
LEMMA LeavesFacts ==
  ASSUME GInv, NEW c \in CUs, NEW q \in GSites, Leaves(c, q)
  PROVE  /\ c \in krnl.units /\ SetUp /\ c \in cu_active
         /\ \A r \in GSites : UnitLeft(c, r) <=> r < q
         /\ \A r \in GSites : Leaves(c, r) => r = q
<1>1. /\ wf[c][0].st = "wait_load" /\ wf[c][0].pc = q + 1 /\ 0 \in WFs /\ 0 \in Group
      /\ q \in Nat /\ wf[c][0].pc > q
  BY GTypes DEF Leaves
<1>2. /\ c \in krnl.units /\ SetUp
      /\ c \in cu_active \/ Ended(c)
  BY <1>1, GActivated
<1>3. c \in cu_active
  BY <1>1, <1>2 DEF Ended
<1>4. \A r \in GSites : UnitLeft(c, r) <=> r < q
  <2> SUFFICES ASSUME NEW r \in GSites PROVE UnitLeft(c, r) <=> r < q
    OBVIOUS
  <2>1. r \in Nat
    BY GTypes
  <2>2. \A v \in Group : Left(wf[c][v], r) <=> r < q
    BY <1>1, <2>1 DEF Leaves, Left
  <2> QED
    BY <1>1, <2>2 DEF UnitLeft
<1>5. \A r \in GSites : Leaves(c, r) => r = q
  BY <1>1, GTypes DEF Leaves
<1> QED
  BY <1>2, <1>3, <1>4, <1>5

\* the units whose arrival the top level latches are those that leave a global barrier
LEMMA Arrivals ==
  ASSUME GInv, NEW c \in CUs
  PROVE  c \in cu_active /\ AllReachG(c) <=> \E q \in GSites : Leaves(c, q)
<1>1. ASSUME c \in cu_active, AllReachG(c) PROVE \E q \in GSites : Leaves(c, q)
  <2>1. PICK w \in WFs : wf[c][w].st # "idle"
    BY <1>1 DEF GInv, EndedInv
  <2>2. wf[c][w].gsync_reach /\ WfGInv(wf[c][w])
    BY <1>1, GWavefronts DEF AllReachG
  <2>3. wf[c][w].st = "wait_load"
    BY <2>1, <2>2 DEF WfGInv
  <2> QED
    BY <1>1, <2>3, GRelease
<1>2. ASSUME NEW q \in GSites, Leaves(c, q) PROVE c \in cu_active /\ AllReachG(c)
  BY <1>2, LeavesFacts DEF Leaves
<1> QED
  BY <1>1, <1>2

\* what all wavefronts do in a step
LEMMA ClockGWavefronts ==
  ASSUME GInv, NEW give, NEW move, NEW done, Clock(give, move, done), NEW c \in CUs, NEW w \in WFs
  PROVE  /\ wf'[c][w].pc \in Nat /\ wf'[c][w].st \in WfStates
         /\ WfInv(wf'[c][w]) /\ WfGInv(wf'[c][w])
         /\ Moves(c, w, wf[c][w], wf'[c][w])
         /\ GMoves(c, w, wf[c][w], wf'[c][w], <<c, w>> \in move)
         /\ w \in intr[c].wf_activate => wf[c][w].pc = 0 /\ wf[c][w].st = "idle"
         /\ wf[c][w].st # "idle" /\ wf[c][w].st # "rdy" => wf'[c][w].pc = wf[c][w].pc
<1>1. /\ wf'[c][w] \in Wavefronts /\ wf'[c][w].pc \in Nat /\ WfInv(wf'[c][w])
      /\ Moves(c, w, wf[c][w], wf'[c][w])
      /\ w \in intr[c].wf_activate => wf[c][w].pc = 0
  BY GTypes, ClockWavefronts
<1>2. wf'[c][w] = WfNext(c, w, move, done)
  BY DEF Clock
<1>3. /\ WfGInv(WfNext(c, w, move, done))
      /\ GMoves(c, w, wf[c][w], WfNext(c, w, move, done), <<c, w>> \in move)
  BY <1>1, GTypes, GWavefronts, GWavefrontStep
<1>4. wf[c][w].pc = 0 => wf[c][w].st = "idle"
  BY GTypes, NotActivatedIsIdle
<1>5. wf[c][w].st # "idle" /\ wf[c][w].st # "rdy" => wf'[c][w].pc = wf[c][w].pc
  <2>1. wf[c][w].st \in WfStates
    BY GWavefronts
  <2> QED
    BY <1>1, <2>1 DEF Moves, WfStates
<1> QED
  BY <1>1, <1>2, <1>3, <1>4, <1>5 DEF Wavefronts

LEMMA LeftStep ==
  ASSUME GInv, NEW give, NEW move, NEW done, Clock(give, move, done), NEW c \in CUs,
         NEW v \in Group, NEW q \in GSites
  PROVE  Left(wf'[c][v], q) <=> Left(wf[c][v], q) \/ Leaves(c, q)
<1> SUFFICES ASSUME NEW s, s = wf[c][v], NEW n, n = wf'[c][v]
             PROVE  Left(n, q) <=> Left(s, q) \/ Leaves(c, q)
  OBVIOUS
<1>1. /\ v \in WFs /\ s.pc \in Nat /\ s.st \in WfStates /\ q \in Nat /\ q >= 1
      /\ Leaves(c, q) => s.st = "wait_load" /\ AllReachG(c)
  BY GTypes, GWavefronts DEF Leaves
<1>2. /\ n.pc \in Nat /\ Moves(c, v, s, n) /\ GMoves(c, v, s, n, <<c, v>> \in move)
      /\ v \in intr[c].wf_activate => s.pc = 0 /\ s.st = "idle"
      /\ s.st # "idle" /\ s.st # "rdy" => n.pc = s.pc
  BY <1>1, ClockGWavefronts
<1>3. CASE s.st = "idle"
  <2>1. \/ n.pc = 1 /\ s.pc = 0
        \/ n.st = "idle" /\ n.pc = s.pc
    BY <1>2, <1>3 DEF Moves
  <2> QED
    BY <1>1, <1>3, <2>1 DEF Left
<1>4. CASE s.st = "wait_load" /\ AllReachG(c)
  <2>1. n.st = "wait_for_selecting_PC" /\ n.pc = s.pc
    BY <1>2, <1>4 DEF GMoves
  <2>2. PICK r \in GSites : s.pc = r + 1 /\ Leaves(c, r)
    BY <1>1, <1>4, GRelease
  <2>3. Leaves(c, q) <=> s.pc = q + 1
    <3>1. r \in Nat
      BY <2>2, GTypes
    <3>2. Leaves(c, q) => s.pc = q + 1
      BY DEF Leaves
    <3> QED
      BY <1>1, <2>2, <3>1, <3>2
  <2> QED
    BY <1>1, <1>4, <2>1, <2>3 DEF Left
<1>5. CASE s.st = "wait_load" /\ ~AllReachG(c)
  BY <1>1, <1>2, <1>5 DEF GMoves, Left
<1>6. CASE s.st = "rdy"
  <2>1. \/ n.st = "rdy" /\ n.pc = s.pc
        \/ n.pc = s.pc + 1 /\ (s.pc = q => n.st = "wait_load")
    BY <1>2, <1>6 DEF GMoves, GSites
  <2> QED
    BY <1>1, <1>6, <2>1 DEF Left
<1>7. CASE s.st \notin {"idle", "wait_load", "rdy"}
  <2>1. n.pc = s.pc /\ n.st # "wait_load"
    BY <1>2, <1>7 DEF GMoves
  <2> QED
    BY <1>1, <1>7, <2>1 DEF Left
<1> QED
  BY <1>3, <1>4, <1>5, <1>6, <1>7

LEMMA UnitLeftStep ==
  ASSUME GInv, NEW give, NEW move, NEW done, Clock(give, move, done), NEW c \in CUs,
         NEW q \in GSites
  PROVE  /\ UnitLeft(c, q)' <=> UnitLeft(c, q) \/ Leaves(c, q)
         /\ Leaves(c, q) => JustLeft(c, q)'
<1>1. Group' = Group
  BY DEF Clock, Group
<1>2. \A v \in Group : Left(wf'[c][v], q) <=> Left(wf[c][v], q) \/ Leaves(c, q)
  BY LeftStep
<1>3. UnitLeft(c, q)' <=> \A v \in Group : Left(wf'[c][v], q)
  BY <1>1 DEF UnitLeft, Left
<1>4. UnitLeft(c, q)' <=> UnitLeft(c, q) \/ Leaves(c, q)
  BY <1>2, <1>3 DEF UnitLeft
<1>5. ASSUME Leaves(c, q), NEW v \in Group
      PROVE  wf'[c][v].st = "wait_for_selecting_PC" /\ wf'[c][v].pc = q + 1
  <2>1. wf[c][v].st = "wait_load" /\ wf[c][v].pc = q + 1 /\ AllReachG(c)
    BY <1>5 DEF Leaves
  <2>2. GMoves(c, v, wf[c][v], wf'[c][v], <<c, v>> \in move)
    BY GTypes, ClockGWavefronts
  <2> QED
    BY <2>1, <2>2 DEF GMoves
<1> QED
  BY <1>1, <1>4, <1>5 DEF JustLeft

-----------------------------------------------------------------------------
(* A clock edge keeps what is said of the wavefronts and the units *)

LEMMA GTurns ==
  ASSUME GInv, NEW give, NEW move, NEW done, Clock(give, move, done), NEW c \in CUs
  PROVE  /\ Turns(intr[c], intr'[c], c \in give) /\ InterfaceInv(c)
         /\ intr[c].st \in InterfaceStates
<1>1. /\ TypeInv /\ InterfaceInv(c) /\ intr[c].wf_alloc_indx \in WFs
      /\ (c \in give) \in BOOLEAN /\ intr'[c] = Interface(c, c \in give)
      /\ intr[c].st \in InterfaceStates
  BY GTypes DEF GInv, TInv, RegistersInv, BInv, InterfacesInv, Clock, TypeInv
<1> QED
  BY <1>1, InterfaceStep

LEMMA GivenStep ==
  ASSUME GInv, NEW give, NEW move, NEW done, Clock(give, move, done), give \subseteq todo
  PROVE  GivenInv'
<1>1. /\ todo \subseteq krnl.units /\ todo' = todo \ give /\ krnl' = krnl /\ Group' = Group
  BY DEF GInv, TInv, RegistersInv, Clock, Group
<1> SUFFICES ASSUME NEW c \in CUs
             PROVE  /\ c \in krnl.units \ todo' /\ intr'[c].st = "free" =>
                         \A v \in Group : wf'[c][v].pc > 0
                    /\ c \notin krnl.units =>
                         intr'[c].st = "free" /\ \A v \in WFs : wf'[c][v].pc = 0
  BY <1>1 DEF GivenInv
<1>2. /\ Turns(intr[c], intr'[c], c \in give) /\ InterfaceInv(c)
      /\ intr[c].st \in InterfaceStates
  BY GTurns
<1>3. \A v \in WFs : /\ wf'[c][v].pc > 0 <=> wf[c][v].pc > 0 \/ v \in intr[c].wf_activate
                     /\ wf'[c][v].pc \in Nat
  BY GTypes, ActivatedStep, ClockGWavefronts
<1>4. ASSUME c \in krnl.units \ todo', intr'[c].st = "free", NEW v \in Group
      PROVE  wf'[c][v].pc > 0
  <2>1. \/ intr[c].st = "free" /\ c \notin give
        \/ intr[c].st = "write_wg_d2" /\ intr[c].wf_alloc_indx = krnl.n_wfs - 1
    BY <1>2, <1>4 DEF Turns, InterfaceStates
  <2>2. CASE intr[c].st = "free" /\ c \notin give
    BY <1>1, <1>3, <1>4, <2>2, GTypes DEF GInv, GivenInv
  <2>3. CASE intr[c].st = "write_wg_d2" /\ intr[c].wf_alloc_indx = krnl.n_wfs - 1
    <3>1. Latest(c, krnl.n_wfs - 1)
      BY <1>2, <2>3 DEF InterfaceInv
    <3>2. v <= krnl.n_wfs - 1
      BY GTypes, Programs DEF Group
    <3> QED
      BY <1>3, <3>1, <3>2, GTypes DEF Latest
  <2> QED
    BY <2>1, <2>2, <2>3
<1>5. ASSUME c \notin krnl.units
      PROVE  intr'[c].st = "free" /\ \A v \in WFs : wf'[c][v].pc = 0
  <2>1. intr[c].st = "free" /\ c \notin give /\ \A v \in WFs : wf[c][v].pc = 0
    BY <1>1, <1>5 DEF GInv, GivenInv
  <2>2. intr'[c].st = "free" /\ intr[c].wf_activate = {}
    BY <1>2, <2>1 DEF Turns, InterfaceInv
  <2>3. ASSUME NEW v \in WFs PROVE wf'[c][v].pc = 0
    BY <1>3, <2>1, <2>2
  <2> QED
    BY <2>2, <2>3
<1> QED
  BY <1>4, <1>5

LEMMA EndedStep ==
  ASSUME GInv, NEW give, NEW move, NEW done, Clock(give, move, done)
  PROVE  EndedInv'
<1> SUFFICES ASSUME NEW c \in cu_active', \A v \in WFs : wf'[c][v].st = "idle"
             PROVE  ~AllReachG(c)'
  BY DEF EndedInv
<1>1. c \in CUs /\ \E w \in WFs : wf[c][w].st # "idle"
  BY DEF Clock, Global
<1>2. PICK w \in WFs : wf[c][w].st # "idle"
  BY <1>1
<1>3. ~wf'[c][w].gsync_reach
  BY <1>1, <1>2, ClockGWavefronts DEF GMoves
<1> QED
  BY <1>3 DEF AllReachG

LEMMA SetUpStep ==
  ASSUME GInv, NEW give, NEW move, NEW done, Clock(give, move, done), give \subseteq todo,
         move \subseteq Movable
  PROVE  SetUpInv'
<1>1. krnl' = krnl /\ Group' = Group /\ Length' = Length /\ GSites' = GSites
  BY DEF Clock, Group, Length, GSites
<1> SUFFICES ASSUME NEW c \in CUs, NEW w \in WFs, NEW q \in GSites, wf'[c][w].pc > q
             PROVE  /\ SetUp' /\ cu_active' \subseteq krnl.units
                    /\ \A d \in krnl.units : d \in cu_active' \/ Ended(d)'
  BY <1>1 DEF SetUpInv
<1> DEFINE s == wf[c][w]
           n == wf'[c][w]
<1>2. q \in Nat /\ q >= 1 /\ q <= Length /\ Length \in Nat /\ krnl.prog[q] = "gsync"
  BY GTypes DEF GSites
<1>3. SetUp
  <2>1. /\ s.pc \in Nat /\ s.st \in WfStates /\ WfInv(s)
        /\ n.pc \in Nat /\ Moves(c, w, s, n) /\ GMoves(c, w, s, n, <<c, w>> \in move)
        /\ s.st # "idle" /\ s.st # "rdy" => n.pc = s.pc
    BY GWavefronts, ClockGWavefronts
  <2>2. CASE s.pc > q
    BY <2>2, GActivated
  <2>3. CASE ~(s.pc > q)
    <3>1. s.st = "rdy" /\ n.pc = s.pc + 1 /\ <<c, w>> \in move
      <4>1. s.st = "idle" => n.pc = 1 \/ n.pc = s.pc
        BY <2>1 DEF Moves
      <4>2. s.st = "rdy"
        BY <1>2, <2>1, <2>3, <4>1
      <4> QED
        BY <2>1, <2>3, <4>2 DEF GMoves
    <3>2. s.pc = q
      BY <1>2, <2>1, <2>3, <3>1
    <3>3. op(s) = "gsync"
      BY <1>2, <3>2, GTypes, Programs DEF op
    <3>4. <<c, w>> \in Movable
      BY <3>1
    <3> QED
      BY <3>1, <3>3, <3>4 DEF Movable
  <2> QED
    BY <2>2, <2>3
<1>4. SetUp'
  <2>1. todo' = {} /\ give = {}
    BY <1>3 DEF SetUp, Clock
  <2>2. ASSUME NEW d \in CUs PROVE intr'[d].st = "free" /\ intr'[d].wf_activate = {}
    <3>1. Turns(intr[d], intr'[d], d \in give) /\ intr[d].st = "free"
      BY <1>3, GTurns DEF SetUp
    <3> QED
      BY <2>1, <3>1 DEF Turns
  <2> QED
    BY <2>1, <2>2 DEF SetUp
<1>5. \A d \in krnl.units, v \in Group : wf[d][v].pc > 0
  BY <1>3, GTypes DEF GInv, GivenInv, SetUp
<1>6. cu_active' = {d \in CUs : \E v \in WFs : wf[d][v].st # "idle"}
  BY DEF Clock, Global
<1>7. ASSUME NEW d \in cu_active' PROVE d \in krnl.units
  <2>1. d \in CUs /\ \E v \in WFs : wf[d][v].st # "idle"
    BY <1>6
  <2>2. PICK v \in WFs : wf[d][v].pc # 0
    BY <2>1, GTypes, NotActivatedIsIdle
  <2> QED
    BY <2>1, <2>2 DEF GInv, GivenInv
<1>8. ASSUME NEW d \in krnl.units, d \notin cu_active' PROVE Ended(d)'
  <2>1. d \in CUs /\ \A v \in WFs : wf[d][v].st = "idle"
    BY <1>6, <1>8, GTypes
  <2>2. ASSUME NEW v \in Group PROVE wf'[d][v].st = "idle" /\ wf'[d][v].pc = Length + 1
    <3>1. /\ v \in WFs /\ wf[d][v].st = "idle" /\ wf[d][v].pc = Length + 1
      BY <1>5, <2>1, GTypes, GWavefronts DEF WfInv
    <3>2. v \notin intr[d].wf_activate
      BY <1>3, <2>1 DEF SetUp
    <3>3. Moves(d, v, wf[d][v], wf'[d][v])
      BY <2>1, <3>1, ClockGWavefronts
    <3> QED
      BY <3>1, <3>2, <3>3 DEF Moves
  <2> QED
    BY <1>1, <2>2 DEF Ended
<1> QED
  BY <1>4, <1>7, <1>8

LEMMA TogetherGStep ==
  ASSUME GInv, NEW give, NEW move, NEW done, Clock(give, move, done)
  PROVE  TogetherGInv' /\ WavefrontsGInv'
<1>1. krnl' = krnl /\ Group' = Group /\ GSites' = GSites
  BY DEF Clock, Group, Length, GSites
<1>2. ASSUME NEW c \in CUs, NEW v \in Group, NEW w \in Group, NEW q \in GSites,
             Left(wf'[c][v], q)
      PROVE  Left(wf'[c][w], q)
  <2>1. \A u \in Group : Left(wf'[c][u], q) <=> Left(wf[c][u], q) \/ Leaves(c, q)
    BY LeftStep
  <2>2. Left(wf[c][v], q) => Left(wf[c][w], q)
    BY DEF GInv, TogetherGInv
  <2> QED
    BY <1>2, <2>1, <2>2
<1>3. TogetherGInv'
  BY <1>1, <1>2 DEF TogetherGInv, Left
<1>4. ASSUME NEW c \in CUs, NEW w \in WFs PROVE WfGInv(wf[c][w])'
  <2>1. WfGInv(wf'[c][w])
    BY ClockGWavefronts
  <2> QED
    BY <1>1, <2>1 DEF WfGInv, Left
<1> QED
  BY <1>3, <1>4 DEF WavefrontsGInv

-----------------------------------------------------------------------------
(* A clock edge keeps the latches in step with the units that have left *)

\* a unit that leaves is held back from the next cycle on
LEMMA HeldBackFirst ==
  ASSUME GInv, NEW give, NEW move, NEW done, Clock(give, move, done), NEW c \in CUs,
         NEW q \in GSites, Leaves(c, q)
  PROVE  HeldBack(c, q)' /\ JustLeft(c, q)'
<1>1. Group' = Group /\ krnl' = krnl /\ Length' = Length
  BY DEF Clock, Group, Length
<1>2. JustLeft(c, q)'
  BY UnitLeftStep
<1>3. \A v \in Group : wf'[c][v].st = "wait_for_selecting_PC" /\ wf'[c][v].pc = q + 1
  BY <1>1, <1>2 DEF JustLeft
<1>4. wf_reach_gsync_d0'[c]
  BY DEF Clock, Leaves
<1>5. ASSUME NEW v \in Group, NEW p \in 1..Length, q < p, p < wf'[c][v].pc PROVE FALSE
  BY <1>3, <1>5, GTypes
<1> QED
  BY <1>1, <1>2, <1>3, <1>4, <1>5 DEF HeldBack

\* a unit that is held back stays so while the top level does not release it
LEMMA HeldBackStays ==
  ASSUME GInv, NEW give, NEW move, NEW done, Clock(give, move, done), NEW c \in CUs,
         NEW q \in GSites, UnitLeft(c, q), HeldBack(c, q), ~gsync_reached'
  PROVE  HeldBack(c, q)'
<1>1. Group' = Group /\ krnl' = krnl /\ Length' = Length
  BY DEF Clock, Group, Length
<1>2. gsync_reached_ltch'[c]
  BY DEF HeldBack, Clock, GsyncLatch
<1>3. ASSUME NEW v \in Group
      PROVE  /\ \A p \in 1..Length : q < p /\ p < wf'[c][v].pc => krnl.prog[p] \notin Access
             /\ wf'[c][v].st = "rdy" => op(wf[c][v])' \notin Access
  <2> SUFFICES ASSUME NEW s, s = wf[c][v], NEW n, n = wf'[c][v]
               PROVE  /\ \A p \in 1..Length : q < p /\ p < n.pc => krnl.prog[p] \notin Access
                      /\ n.st = "rdy" => op(wf[c][v])' \notin Access
    OBVIOUS
  <2>1. /\ v \in WFs /\ s.pc \in Nat /\ s.st \in WfStates /\ q \in Nat /\ q >= 1 /\ Length \in Nat
        /\ Left(s, q)
    BY GTypes, GWavefronts DEF UnitLeft
  <2>2. /\ n.pc \in Nat /\ Moves(c, v, s, n) /\ GMoves(c, v, s, n, <<c, v>> \in move)
        /\ v \in intr[c].wf_activate => s.pc = 0
        /\ s.st # "idle" /\ s.st # "rdy" => n.pc = s.pc
    BY <2>1, ClockGWavefronts
  <2>3. /\ \A p \in 1..Length : q < p /\ p < s.pc => krnl.prog[p] \notin Access
        /\ s.st = "rdy" => op(s) \notin Access
        /\ \/ s.st = "wait_for_selecting_PC"
           \/ gsync_reached_ltch[c] /\ ~gsync_reached
    BY DEF HeldBack, JustLeft
  <2>4. s.st # "rdy" => n.pc = s.pc
    <3>1. s.st = "idle" => n.pc = s.pc
      BY <2>1, <2>2 DEF Moves, Left
    <3> QED
      BY <2>2, <3>1
  <2>5. s.st = "rdy" => n.pc = s.pc \/ n.pc = s.pc + 1
    BY <2>2 DEF GMoves
  <2>6. s.st = "rdy" /\ s.pc \in 1..Length => krnl.prog[s.pc] \notin Access
    <3>1. s.pc \in 1..Length => op(s) = krnl.prog[s.pc]
      BY GTypes, Programs DEF op
    <3> QED
      BY <2>3, <3>1
  <2>7. ASSUME NEW p \in 1..Length, q < p, p < n.pc PROVE krnl.prog[p] \notin Access
    <3>1. p < s.pc \/ (p = s.pc /\ s.st = "rdy")
      BY <2>1, <2>2, <2>4, <2>5, <2>7
    <3> QED
      BY <2>3, <2>6, <2>7, <3>1
  <2>8. ASSUME n.st = "rdy" PROVE op(wf[c][v])' \notin Access
    <3>1. s.st \in {"check_rdy", "rdy", "global_synchronize"}
      BY <2>2, <2>8 DEF GMoves
    <3>2. op(s) \notin Access
      BY <2>2, <2>3, <2>8, <3>1 DEF GMoves
    <3>3. n.pc = s.pc
      BY <2>2, <2>4, <2>8 DEF GMoves
    <3>4. op(wf[c][v])' = op(s)
      BY <1>1, <3>3 DEF op
    <3> QED
      BY <3>2, <3>4
  <2> QED
    BY <2>7, <2>8
<1> QED
  BY <1>1, <1>2, <1>3 DEF HeldBack

LEMMA LatchStep ==
  ASSUME GInv, NEW give, NEW move, NEW done, Clock(give, move, done)
  PROVE  /\ wf_reach_gsync_ltch' = {c \in krnl.units : \E q \in GSites : Leaves(c, q)}
                                     \cup (IF AllUnits THEN {} ELSE wf_reach_gsync_ltch)
         /\ gsync_reached' = (AllUnits \/ (gsync_reached /\ wf_reach_gsync_ltch = {}))
         /\ krnl' = krnl /\ GSites' = GSites
<1>1. cu_active \subseteq CUs
  BY DEF GInv, TInv, RegistersInv
<1>2. {c \in cu_active : AllReachG(c)} = {c \in krnl.units : \E q \in GSites : Leaves(c, q)}
  <2>1. ASSUME NEW c \in cu_active, AllReachG(c)
        PROVE  c \in krnl.units /\ \E q \in GSites : Leaves(c, q)
    BY <1>1, <2>1, Arrivals, LeavesFacts
  <2>2. ASSUME NEW c \in krnl.units, \E q \in GSites : Leaves(c, q)
        PROVE  c \in cu_active /\ AllReachG(c)
    BY <2>2, GTypes, Arrivals
  <2> QED
    BY <2>1, <2>2
<1> QED
  BY <1>2 DEF Clock, Global, GSites, Length

LEMMA AllLeftStays ==
  ASSUME GInv, NEW give, NEW move, NEW done, Clock(give, move, done), NEW q \in GSites,
         AllLeft(q)
  PROVE  AllLeft(q)'
<1>1. krnl' = krnl
  BY DEF Clock
<1>2. \A c \in krnl.units : UnitLeft(c, q)'
  BY GTypes, UnitLeftStep DEF AllLeft
<1> QED
  BY <1>1, <1>2 DEF AllLeft

LEMMA BegunStep ==
  ASSUME GInv, NEW give, NEW move, NEW done, Clock(give, move, done), NEW q \in GSites,
         Begun(q)', ~Begun(q)
  PROVE  \E c \in krnl.units : Leaves(c, q)
<1>1. PICK c \in krnl.units : UnitLeft(c, q)'
  BY DEF Begun, Clock
<1>2. UnitLeft(c, q) \/ Leaves(c, q)
  BY <1>1, GTypes, UnitLeftStep
<1> QED
  BY <1>2 DEF Begun

LEMMA ReleasedStep ==
  ASSUME GInv, NEW give, NEW move, NEW done, Clock(give, move, done), Released
  PROVE  GateInv'
<1>1. /\ wf_reach_gsync_ltch' = {c \in krnl.units : \E q \in GSites : Leaves(c, q)}
      /\ krnl' = krnl /\ GSites' = GSites
  BY LatchStep DEF Released
<1>2. CASE \A c \in krnl.units, q \in GSites : ~Leaves(c, q)
  <2>1. wf_reach_gsync_ltch' = {}
    BY <1>1, <1>2
  <2>2. ASSUME NEW q \in GSites, Begun(q)' PROVE AllLeft(q)'
    <3>1. Begun(q)
      BY <1>2, <2>2, BegunStep
    <3> QED
      BY <3>1, AllLeftStays DEF Released
  <2> QED
    BY <1>1, <2>1, <2>2 DEF Released, GateInv
<1>3. ASSUME NEW d \in krnl.units, NEW q \in GSites, Leaves(d, q)
      PROVE  GateInv'
  <2>1. q \in Nat /\ GSites \subseteq Nat /\ krnl.units \subseteq CUs
    BY GTypes
  <2>2. \A r \in GSites : UnitLeft(d, r) <=> r < q
    BY <1>3, <2>1, LeavesFacts
  <2>3. \A r \in GSites : Begun(r) => AllLeft(r) /\ r < q
    BY <2>2 DEF Released, AllLeft
  <2>4. ASSUME NEW c \in krnl.units, NEW r \in GSites, Leaves(c, r) PROVE r = q
    <3>1. /\ UnitLeft(c, q) <=> q < r
          /\ UnitLeft(c, r) <=> r < r
      BY <2>1, <2>4, LeavesFacts
    <3>2. ~(q < r)
      BY <2>1, <2>3, <3>1 DEF Begun
    <3>3. ~(r < q)
      BY <2>1, <2>2, <2>3, <3>1 DEF Begun, AllLeft
    <3>4. r \in Nat /\ q \in Nat
      BY <2>1
    <3> QED
      BY <3>2, <3>3, <3>4
  <2>5. wf_reach_gsync_ltch' = {c \in krnl.units : UnitLeft(c, q)'}
    <3>1. \A c \in krnl.units : UnitLeft(c, q)' <=> UnitLeft(c, q) \/ Leaves(c, q)
      BY <2>1, UnitLeftStep
    <3>2. \A c \in krnl.units : ~UnitLeft(c, q)
      BY <2>1, <2>3 DEF Begun
    <3> QED
      BY <1>1, <2>4, <3>1, <3>2
  <2>6. d \in wf_reach_gsync_ltch' /\ JustLeft(d, q)'
    BY <1>1, <1>3, <2>1, HeldBackFirst
  <2>7. ASSUME NEW c \in wf_reach_gsync_ltch' PROVE HeldBack(c, q)'
    BY <1>1, <2>1, <2>4, HeldBackFirst
  <2>8. ASSUME NEW r \in GSites
        PROVE  (r < q => AllLeft(r)') /\ (r > q => ~Begun(r)')
    <3>1. r < q => AllLeft(r)
      BY <2>2, <2>3 DEF Begun
    <3>2. r > q => ~Begun(r)
      BY <2>1, <2>3
    <3> QED
      BY <2>1, <2>4, <3>1, <3>2, AllLeftStays, BegunStep
  <2>9. Waiting(q)'
    BY <1>1, <2>5, <2>6, <2>7, <2>8 DEF Waiting
  <2> QED
    BY <1>1, <2>9 DEF GateInv
<1> QED
  BY <1>2, <1>3

\* while units wait for each other at q, none of those that have left it leaves another
\* barrier, and the others are still to leave it
LEMMA LeavesWaiting ==
  ASSUME GInv, NEW q \in GSites, Waiting(q), NEW c \in krnl.units, NEW r \in GSites,
         Leaves(c, r)
  PROVE  r = q /\ c \notin wf_reach_gsync_ltch
<1>1. /\ c \in CUs /\ q \in Nat /\ r \in Nat /\ q \in 1..Length /\ r \in 1..Length
      /\ Length \in Nat /\ 0 \in Group /\ krnl \in Kernels /\ DOMAIN krnl.prog = 1..Length
  BY GTypes, Programs DEF TypeInv
<1>2. /\ UnitLeft(c, q) <=> q < r
      /\ UnitLeft(c, r) <=> r < r
  BY <1>1, LeavesFacts
<1>3. ~UnitLeft(c, q)
  <2> SUFFICES ASSUME UnitLeft(c, q) PROVE FALSE
    OBVIOUS
  <2>1. HeldBack(c, q) /\ q < r
    BY <1>2 DEF Waiting
  <2>2. krnl.prog[q] = "gsync" /\ krnl.prog[r] = "gsync"
    BY DEF GSites
  <2>3. PICK i \in q..r : krnl.prog[i] \in Access
    BY <1>1, <2>1, <2>2, AccessBetweenAssumption
  <2>4. i \in 1..Length /\ q < i /\ i < r + 1
    BY <1>1, <2>2, <2>3 DEF Access
  <2>5. wf[c][0].pc = r + 1
    BY <1>1 DEF Leaves
  <2> QED
    BY <1>1, <2>1, <2>3, <2>4, <2>5 DEF HeldBack
<1>4. ~(r < q)
  BY <1>1, <1>2 DEF Waiting, AllLeft
<1> QED
  BY <1>1, <1>2, <1>3, <1>4 DEF Waiting

LEMMA WaitingStep ==
  ASSUME GInv, NEW give, NEW move, NEW done, Clock(give, move, done), NEW q \in GSites,
         Waiting(q)
  PROVE  GateInv'
<1>1. /\ wf_reach_gsync_ltch' = {c \in krnl.units : \E r \in GSites : Leaves(c, r)}
                                  \cup (IF AllUnits THEN {} ELSE wf_reach_gsync_ltch)
      /\ ~AllUnits => ~gsync_reached'
      /\ krnl' = krnl /\ GSites' = GSites
  BY LatchStep DEF Waiting
<1>2. \A c \in krnl.units, r \in GSites : Leaves(c, r) => r = q /\ c \notin wf_reach_gsync_ltch
  BY LeavesWaiting
<1>3. /\ q \in Nat /\ GSites \subseteq Nat /\ krnl.units \subseteq CUs /\ 0 \in Group
      /\ 0 \in WFs /\ q <= Length /\ Length \in Nat
  BY GTypes
<1>4. /\ wf_reach_gsync_ltch = {c \in krnl.units : UnitLeft(c, q)}
      /\ wf_reach_gsync_ltch # {}
      /\ \A r \in GSites : (r < q => AllLeft(r)) /\ (r > q => ~Begun(r))
      /\ \A c \in wf_reach_gsync_ltch : HeldBack(c, q)
  BY DEF Waiting
<1>5. /\ cu_active \subseteq krnl.units
      /\ \A d \in krnl.units : d \in cu_active \/ Ended(d)
  <2>1. PICK c \in krnl.units : UnitLeft(c, q)
    BY <1>4
  <2>2. wf[c][0].pc > q
    <3>1. wf[c][0].pc \in Nat /\ Left(wf[c][0], q)
      BY <1>3, <2>1, GWavefronts DEF UnitLeft
    <3> QED
      BY <1>3, <3>1 DEF Left
  <2> QED
    BY <1>3, <2>2, GActivated
<1>6. CASE AllUnits
  <2>1. ASSUME NEW d \in krnl.units PROVE UnitLeft(d, q)
    <3>1. d \in wf_reach_gsync_ltch \/ Ended(d)
      BY <1>3, <1>5, <1>6 DEF AllUnits
    <3>2. Ended(d) => UnitLeft(d, q)
      BY <1>3 DEF Ended, UnitLeft, Left
    <3> QED
      BY <1>4, <3>1, <3>2
  <2>2. \A c \in krnl.units, r \in GSites : ~Leaves(c, r)
    BY <1>2, <1>4, <2>1
  <2>3. wf_reach_gsync_ltch' = {}
    BY <1>1, <1>6, <2>2
  <2>4. ASSUME NEW r \in GSites, Begun(r)' PROVE AllLeft(r)'
    <3>1. Begun(r)
      BY <2>2, <2>4, BegunStep
    <3>2. r < q \/ r = q
      BY <1>3, <1>4, <3>1
    <3>3. AllLeft(r)
      BY <1>4, <2>1, <3>2 DEF AllLeft
    <3> QED
      BY <3>3, AllLeftStays
  <2> QED
    BY <1>1, <2>3, <2>4 DEF Released, GateInv
<1>7. CASE ~AllUnits
  <2>1. PICK e \in CUs : e \notin wf_reach_gsync_ltch /\ e \in cu_active
    BY <1>7 DEF AllUnits
  <2>2. e \in krnl.units /\ ~UnitLeft(e, q)
    BY <1>4, <1>5, <2>1
  <2>3. \A c \in krnl.units : UnitLeft(c, q)' <=> UnitLeft(c, q) \/ Leaves(c, q)
    BY <1>3, UnitLeftStep
  <2>4. wf_reach_gsync_ltch' = {c \in krnl.units : UnitLeft(c, q)'}
    BY <1>1, <1>2, <1>4, <1>7, <2>3
  <2>5. wf_reach_gsync_ltch' # {}
    BY <1>1, <1>4, <1>7
  <2>6. ASSUME NEW r \in GSites
        PROVE  (r < q => AllLeft(r)') /\ (r > q => ~Begun(r)')
    BY <1>2, <1>3, <1>4, AllLeftStays, BegunStep
  <2>7. ASSUME NEW c \in wf_reach_gsync_ltch' PROVE HeldBack(c, q)'
    <3>1. c \in krnl.units /\ (UnitLeft(c, q) \/ Leaves(c, q))
      BY <2>3, <2>4
    <3>2. CASE UnitLeft(c, q)
      BY <1>1, <1>3, <1>4, <1>7, <3>1, <3>2, HeldBackStays
    <3>3. CASE Leaves(c, q)
      BY <1>3, <3>1, <3>3, HeldBackFirst
    <3> QED
      BY <3>1, <3>2, <3>3
  <2>8. ASSUME AllLeft(q)' PROVE \E c \in wf_reach_gsync_ltch' : JustLeft(c, q)'
    <3>1. UnitLeft(e, q)'
      BY <1>1, <2>2, <2>8 DEF AllLeft
    <3>2. Leaves(e, q)
      BY <2>2, <2>3, <3>1
    <3>3. JustLeft(e, q)'
      BY <2>1, <3>2, HeldBackFirst
    <3>4. e \in wf_reach_gsync_ltch'
      BY <2>2, <2>4, <3>1
    <3> QED
      BY <3>3, <3>4
  <2>9. Waiting(q)'
    BY <1>1, <2>4, <2>5, <2>6, <2>7, <2>8 DEF Waiting
  <2> QED
    BY <1>1, <2>9 DEF GateInv
<1> QED
  BY <1>6, <1>7

-----------------------------------------------------------------------------
(* The invariant of the global barrier *)

LEMMA InitGInv == Init => GInv
<1> SUFFICES ASSUME Init PROVE GInv
  OBVIOUS
<1>1. TInv /\ TypeInv
  BY InitTInv DEF TInv, BInv
<1>2. /\ \A c \in CUs, w \in WFs : wf[c][w].st = "idle" /\ wf[c][w].pc = 0
                                   /\ wf[c][w].last_rd = {} /\ wf[c][w].wr = {}
      /\ \A c \in CUs : intr[c].st = "free"
      /\ todo = krnl.units /\ cu_active = {} /\ wf_reach_gsync_ltch = {}
  BY DEF Init, Idle
<1>3. 0 \in Group /\ Group \subseteq WFs /\ krnl.units \subseteq CUs
      /\ \A q \in GSites : q \in Nat /\ q > 0
  BY <1>1, Programs, KernelsAssumption DEF TypeInv, GSites, Group
<1>4. \A c \in CUs, w \in WFs, q \in GSites : ~Left(wf[c][w], q)
  BY <1>2, <1>3 DEF Left
<1>5. WavefrontsGInv
  BY <1>2, <1>4 DEF WavefrontsGInv, WfGInv
<1>6. GivenInv /\ EndedInv
  BY <1>2 DEF GivenInv, EndedInv
<1>7. SetUpInv
  BY <1>2, <1>3 DEF SetUpInv
<1>8. TogetherGInv
  BY <1>3, <1>4 DEF TogetherGInv
<1>9. \A q \in GSites : ~Begun(q)
  BY <1>3, <1>4 DEF Begun, UnitLeft
<1>10. GateInv
  BY <1>2, <1>9 DEF GateInv, Released
<1> QED
  BY <1>1, <1>5, <1>6, <1>7, <1>8, <1>10 DEF GInv

\* when a kernel is over no unit waits for another one
LEMMA OverIsReleased ==
  ASSUME GInv, Over
  PROVE  Released
<1> SUFFICES ASSUME NEW q \in GSites, Waiting(q) PROVE FALSE
  BY DEF GInv, GateInv
<1>1. /\ \A c \in CUs, w \in WFs : wf[c][w].st = "idle"
      /\ 0 \in Group /\ Group \subseteq WFs /\ krnl.units \subseteq CUs
      /\ q \in Nat /\ q <= Length /\ Length \in Nat
  BY GTypes DEF Over
<1>2. PICK c \in krnl.units : UnitLeft(c, q)
  BY DEF Waiting
<1>3. wf[c][0].pc > q
  <2>1. wf[c][0].pc \in Nat /\ Left(wf[c][0], q)
    BY <1>1, <1>2, GWavefronts DEF UnitLeft
  <2> QED
    BY <1>1, <2>1 DEF Left
<1>4. ASSUME NEW d \in krnl.units, NEW v \in Group PROVE Left(wf[d][v], q)
  <2>1. wf[d][v].pc > 0
    BY <1>1, <1>3, GActivated
  <2>2. wf[d][v].pc = Length + 1
    BY <1>1, <2>1, GWavefronts DEF WfInv
  <2> QED
    BY <1>1, <2>2 DEF Left
<1>5. AllLeft(q)
  BY <1>4 DEF AllLeft, UnitLeft
<1>6. \A d \in krnl.units : ~JustLeft(d, q)
  BY <1>1 DEF JustLeft
<1> QED
  BY <1>5, <1>6 DEF Waiting

LEMMA LaunchGInv == GInv /\ Launch => GInv'
<1> SUFFICES ASSUME GInv, Launch PROVE GInv'
  OBVIOUS
<1>1. TInv'
  BY NextTInv DEF GInv, Next
<1>2. /\ krnl' \in Kernels /\ todo' = krnl'.units /\ intr' = intr /\ cu_active' = cu_active
      /\ wf_reach_gsync_ltch' = wf_reach_gsync_ltch
      /\ \A c \in CUs : intr[c].st = "free"
      /\ \A c \in CUs, w \in WFs : wf[c][w].st = "idle"
  BY DEF Launch, Over
<1>3. ASSUME NEW c \in CUs, NEW w \in WFs
      PROVE  /\ wf'[c][w].st = "idle" /\ wf'[c][w].pc = 0
             /\ wf'[c][w].gsync_reach = wf[c][w].gsync_reach
  <2>1. wf'[c][w] = [wf[c][w] EXCEPT !.pc = 0] /\ wf[c][w] \in Wavefronts
    BY GWavefronts DEF Launch
  <2> QED
    BY <1>2, <2>1 DEF Wavefronts
<1>4. /\ 0 \in Group' /\ Group' \subseteq WFs /\ krnl'.units \subseteq CUs
      /\ \A q \in GSites' : q \in Nat /\ q > 0
  BY <1>2, KernelsAssumption, SizesAssumption DEF Group, WFs, GSites
<1>5. \A c \in CUs, w \in WFs, q \in GSites' : ~Left(wf'[c][w], q)
  BY <1>3, <1>4 DEF Left
<1>6. WavefrontsGInv'
  <2> SUFFICES ASSUME NEW c \in CUs, NEW w \in WFs PROVE WfGInv(wf[c][w])'
    BY DEF WavefrontsGInv
  <2>1. \A q \in GSites' : ~Left(wf[c][w], q)'
    BY <1>5 DEF Left
  <2> QED
    BY <1>3, <2>1 DEF WfGInv
<1>7. GivenInv'
  BY <1>2, <1>3 DEF GivenInv
<1>8. EndedInv'
  <2> SUFFICES ASSUME NEW c \in cu_active PROVE ~AllReachG(c)'
    BY <1>2 DEF EndedInv
  <2>1. c \in CUs
    BY DEF GInv, TInv, RegistersInv
  <2>2. ~AllReachG(c)
    BY <1>2, <2>1 DEF GInv, EndedInv
  <2> QED
    BY <1>3, <2>1, <2>2 DEF AllReachG
<1>9. SetUpInv'
  BY <1>3, <1>4 DEF SetUpInv
<1>10. TogetherGInv'
  <2>1. \A c \in CUs, w \in WFs, q \in GSites' : ~Left(wf[c][w], q)'
    BY <1>5 DEF Left
  <2> QED
    BY <1>4, <2>1 DEF TogetherGInv
<1>11. GateInv'
  <2>1. wf_reach_gsync_ltch' = {}
    BY <1>2, OverIsReleased DEF Launch, Released
  <2>2. \A q \in GSites' : ~Begun(q)'
    <3>1. \A c \in CUs, q \in GSites' : ~UnitLeft(c, q)'
      BY <1>4, <1>5 DEF UnitLeft, Left
    <3> QED
      BY <1>4, <3>1 DEF Begun
  <2> QED
    BY <2>1, <2>2 DEF GateInv, Released
<1> QED
  BY <1>1, <1>6, <1>7, <1>8, <1>9, <1>10, <1>11 DEF GInv

LEMMA NextGInv == GInv /\ [Next]_vars => GInv'
<1> SUFFICES ASSUME GInv, [Next]_vars PROVE GInv'
  OBVIOUS
<1>1. CASE Launch
  BY <1>1, LaunchGInv
<1>2. ASSUME NEW give \in SUBSET todo, NEW move \in SUBSET Movable, NEW done,
             Clock(give, move, done), Next
      PROVE  GInv'
  <2>1. TInv'
    BY <1>2, NextTInv DEF GInv
  <2>2. GateInv'
    <3>1. CASE Released
      BY <1>2, <3>1, ReleasedStep
    <3>2. ASSUME NEW q \in GSites, Waiting(q) PROVE GateInv'
      BY <1>2, <3>2, WaitingStep
    <3> QED
      BY <3>1, <3>2 DEF GInv, GateInv
  <2>3. GivenInv' /\ EndedInv' /\ SetUpInv' /\ TogetherGInv' /\ WavefrontsGInv'
    BY <1>2, GivenStep, EndedStep, SetUpStep, TogetherGStep
  <2> QED
    BY <2>1, <2>2, <2>3 DEF GInv
<1>3. CASE UNCHANGED vars
  <2>1. TInv'
    BY <1>3, NextTInv DEF GInv
  <2>2. /\ krnl' = krnl /\ todo' = todo /\ intr' = intr /\ wf' = wf
        /\ wf_reach_gsync_d0' = wf_reach_gsync_d0 /\ gsync_reached_ltch' = gsync_reached_ltch
        /\ cu_active' = cu_active /\ wf_reach_gsync_ltch' = wf_reach_gsync_ltch
        /\ gsync_reached' = gsync_reached
    BY <1>3 DEF vars
  <2>3. /\ Group' = Group /\ Length' = Length /\ GSites' = GSites /\ SetUp' = SetUp
    BY <2>2 DEF Group, Length, GSites, SetUp
  <2>4. WavefrontsGInv' /\ GivenInv' /\ EndedInv' /\ TogetherGInv' /\ SetUpInv'
    <3>1. WavefrontsGInv'
      BY <2>2, <2>3 DEF GInv, WavefrontsGInv, WfGInv, Left
    <3>2. GivenInv' /\ EndedInv'
      BY <2>2, <2>3 DEF GInv, GivenInv, EndedInv, AllReachG
    <3>3. TogetherGInv' /\ SetUpInv'
      BY <2>2, <2>3 DEF GInv, TogetherGInv, SetUpInv, Left, Ended
    <3> QED
      BY <3>1, <3>2, <3>3
  <2>5. GateInv'
    <3>1. /\ \A c, q : UnitLeft(c, q)' <=> UnitLeft(c, q)
          /\ \A c, q : JustLeft(c, q)' <=> JustLeft(c, q)
          /\ \A c, q : HeldBack(c, q)' <=> HeldBack(c, q)
      BY <2>2, <2>3 DEF UnitLeft, JustLeft, HeldBack, Left, op
    <3>2. /\ \A q : Begun(q)' <=> Begun(q)
          /\ \A q : AllLeft(q)' <=> AllLeft(q)
      BY <2>2, <3>1 DEF Begun, AllLeft
    <3> QED
      BY <2>2, <2>3, <3>1, <3>2 DEF GInv, GateInv, Released, Waiting
  <2> QED
    BY <2>1, <2>4, <2>5 DEF GInv
<1>4. CASE Next
  BY <1>1, <1>2, <1>4 DEF Next
<1> QED
  BY <1>3, <1>4

\* a wavefront that may issue a load or store finds every unit past the barriers before it
LEMMA Gate ==
  ASSUME GInv, NEW c \in CUs, NEW w \in WFs, wf[c][w].st = "rdy", op(wf[c][w]) \in Access,
         NEW q \in Gsyncs(wf[c][w].pc)
  PROVE  /\ \A d \in krnl.units, v \in Group : wf[d][v].pc > q
         /\ \A x \in Outstanding : x[3] > q
<1> DEFINE s == wf[c][w]
<1>1. /\ q \in GSites /\ q < s.pc /\ q \in Nat /\ s.pc \in Nat
      /\ krnl.units \subseteq CUs /\ Group \subseteq WFs
  <2>1. q \in 1..Length /\ krnl.prog[q] = "gsync" /\ q < s.pc
    BY GTypes, Programs DEF Gsyncs
  <2> QED
    BY <2>1, GTypes, GWavefronts DEF GSites
<1>2. c \in krnl.units /\ w \in Group
  BY <1>1, GActivated, GTypes, NotActivatedIsIdle
<1>3. UnitLeft(c, q) /\ Begun(q)
  <2>1. Left(s, q)
    BY <1>1 DEF Left
  <2>2. UnitLeft(c, q)
    BY <1>1, <1>2, <2>1 DEF GInv, TogetherGInv, UnitLeft
  <2> QED
    BY <1>2, <2>2 DEF Begun
<1>4. AllLeft(q)
  <2>1. CASE Released
    BY <1>1, <1>3, <2>1 DEF Released
  <2>2. ASSUME NEW r \in GSites, Waiting(r) PROVE AllLeft(q)
    <3>1. q # r
      BY <1>2, <1>3, <2>2 DEF Waiting, HeldBack
    <3>2. ~(q > r)
      BY <1>1, <1>3, <2>2 DEF Waiting
    <3>3. q < r
      BY <1>1, <3>1, <3>2, GTypes
    <3> QED
      BY <1>1, <2>2, <3>3 DEF Waiting
  <2> QED
    BY <2>1, <2>2 DEF GInv, GateInv
<1>5. ASSUME NEW d \in krnl.units, NEW v \in Group
      PROVE  Left(wf[d][v], q) /\ wf[d][v].pc > q
  <2>1. Left(wf[d][v], q) /\ wf[d][v].pc \in Nat
    BY <1>1, <1>4, <1>5, GWavefronts DEF AllLeft, UnitLeft
  <2> QED
    BY <1>1, <2>1 DEF Left
<1>6. ASSUME NEW d \in CUs, NEW v \in WFs, NEW p \in wf[d][v].last_rd \cup wf[d][v].wr
      PROVE  p > q
  <2>1. 0 < p /\ p < wf[d][v].pc /\ p \in Nat /\ wf[d][v].pc \in Nat /\ WfGInv(wf[d][v])
    BY GWavefronts DEF WfInv, Wavefronts
  <2>2. wf[d][v].pc # 0
    BY <2>1
  <2>3. d \in krnl.units /\ v \in Group
    BY <2>2, GTypes DEF GInv, GivenInv, BInv, WavefrontsInv
  <2> QED
    BY <1>1, <1>5, <2>1, <2>3 DEF WfGInv
<1>7. ASSUME NEW x \in Outstanding PROVE x[3] > q
  <2>1. PICK d \in CUs, v \in WFs :
          \E p \in wf[d][v].last_rd \cup wf[d][v].wr : x = <<d, v, p>>
    BY DEF Outstanding
  <2> QED
    BY <1>6, <2>1
<1> QED
  BY <1>5, <1>7

\* No wavefront issues a load or store behind a global barrier before every wavefront of
\* every unit of the kernel has come to that barrier and all accesses issued before it are
\* over (CU_scheduler_vliw.vhd, check_rdy and global_synchronize; FGPU_vliw.vhd, the latches
\* of gsync_reached), for every number of units and wavefronts and all kernels.
THEOREM GlobalBarrierSafe == Spec => GlobalBarrier
<1> DEFINE A == \A c \in CUs, w \in WFs :
                  /\ wf[c][w].st = "rdy" /\ op(wf[c][w]) \in Access
                  /\ wf'[c][w].pc = wf[c][w].pc + 1
                  => \A q \in Gsyncs(wf[c][w].pc) :
                       /\ \A d \in krnl.units, v \in Group : wf[d][v].pc > q
                       /\ \A x \in Outstanding : x[3] > q
<1>1. GInv => A
  BY Gate
<1> HIDE DEF A
<1>2. Spec => [][A]_vars
  BY <1>1, InitGInv, NextGInv, PTL DEF Spec
<1> QED
  BY <1>2 DEF GlobalBarrier, A
=============================================================================
