---------------------------- MODULE MCDivergence ----------------------------
EXTENDS DivergenceSizes, TLC

Instr(op, to) == [op |-> op, to |-> to]

\* a kernel that calls f in a loop; f calls g in a loop; g loops over two
\* branches of its own
MCCode == 0 :> Instr("jump", 3)   @@ 1 :> Instr("branch", 0) @@ 2 :> Instr("ret", 0)
       @@ 3 :> Instr("jump", 6)   @@ 4 :> Instr("branch", 3) @@ 5 :> Instr("ret", 0)
       @@ 6 :> Instr("branch", 8) @@ 7 :> Instr("alu", 0)    @@ 8 :> Instr("branch", 6)
       @@ 9 :> Instr("ret", 0)

\* the work-items are alike
Alike == Permutations(Threads)
=============================================================================
