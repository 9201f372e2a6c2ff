CONSTANTS Programs <- MCPrograms
          FifoDepth = 4
          NReceivers = 3
          None = None
SPECIFICATION FairSpec
INVARIANTS TypeOK ReadsAfterWrites
PROPERTIES DataInOrder OnlyDataAheadStops
