CONSTANTS N_CU = 3
          N_WF_CU = 2
          Kernels <- MCKernels
SPECIFICATION FairSpec
INVARIANT TypeOK
PROPERTIES LocalBarrier GlobalBarrier EveryBarrierPassed
