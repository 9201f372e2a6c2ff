CONSTANTS N_CU = 2
          N_WF_CU = 2
          None = None
          Kernels <- MCKernels
          Indices <- MCIndices
          Descriptor <- MCDescriptor
          Cleans <- MCCleans
          Cntrls = {m0, m1}
SPECIFICATION ControlFairSpec
INVARIANTS ControlTypeOK StartFindsAllIdle RequestFindsUnitFree RunsWithItsOffset
PROPERTIES EveryStartFinishes HostSeesFinished NoStartLost WholeGroupRan DispatchesTheGrid
