-------------------------- MODULE DivergenceSizes ---------------------------
(***************************************************************************)
(* The sizes with which a wavefront never runs out of records or of PC     *)
(* stack entries.  FGPU_definitions.vhd has 64 work-items, 8 records and   *)
(* 16 entries.                                                             *)
(***************************************************************************)
EXTENDS Divergence

\* Halving the wavefront from record 1 on leaves at most one work-item in the
\* last record: log2(WF_SIZE) + 2 records, one more than log2(WF_SIZE) + 1
\* because record 0 is never given to a path.
Width(w) == /\ w[1] = Cardinality(Threads)
            /\ \A r \in 1..NRecords-2 : w[r + 1] = w[r] \div 2
            /\ w[NRecords - 1] <= 1

ASSUME RecordsAssumption ==
  /\ NRecords >= 2
  /\ \E w \in [1..NRecords-1 -> 0..Cardinality(Threads)] : Width(w)

ASSUME EntriesAssumption == MaxCalls + NRecords <= PCStackSize
=============================================================================
