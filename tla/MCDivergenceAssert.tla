------------------------- MODULE MCDivergenceAssert -------------------------
(***************************************************************************)
(* A size the assertion of CU_scheduler_vliw.vhd accepts: 4 records are    *)
(* at least log2 of a wavefront of 8.                                      *)
(***************************************************************************)
EXTENDS Divergence, TLC

Instr(op, to) == [op |-> op, to |-> to]

\* three branches in a row
MCCode == 0 :> Instr("branch", 1) @@ 1 :> Instr("branch", 2) @@ 2 :> Instr("branch", 3)
       @@ 3 :> Instr("ret", 0)

\* The cfg gives NRecords = 4 = 2^2 and 8 = 2^3 work-items, so that
\* assert(2**N_RECORDS_WF_W >= WF_SIZE_W) is 2^2 >= 3.
=============================================================================
