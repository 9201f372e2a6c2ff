----------------------------- MODULE MCBarriers -----------------------------
EXTENDS Barriers

Kernel(prog, units, n_wfs) == [prog |-> prog, units |-> units, n_wfs |-> n_wfs]

\* two wavefronts of one unit; two wavefronts on each of two units; three units
MCKernels == {Kernel(<<"store", "store", "sync", "load", "sync">>, {0}, 2),
              Kernel(<<"gsync", "load">>, {0, 1}, 2),
              Kernel(<<"store", "gsync", "load", "gsync", "store">>, {0, 1, 2}, 1)}
=============================================================================
