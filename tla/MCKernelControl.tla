--------------------------- MODULE MCKernelControl ---------------------------
EXTENDS KernelControl

Kernel(n_wg_m1, n_WFs_m1) ==
  [n_wg_m1 |-> n_wg_m1, n_WFs_m1 |-> n_WFs_m1, wg_size |-> <<2, 3, 5>>, offset |-> <<1, 2, 3>>]

\* in one grid dimensions 0 and 1 wrap into 2, in the other 0 wraps into 1 and
\* the work-groups are two wavefronts long
Wraps == Kernel(<<0, 1, 1>>, 0)
Long  == Kernel(<<1, 1, 0>>, 1)

MCKernels == {Wraps, Long}
MCIndices == {0, 1}
MCDescriptor == [k \in MCIndices |-> IF k = 0 THEN Wraps ELSE Long]
MCCleans == {1}
=============================================================================
