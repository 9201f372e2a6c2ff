CONSTANTS CV_SIZE = 1
          a = a
          b = b
          Lines = {a, b}
          None = None
          Programs <- MCPrograms
          MetaAlmFull = 2
SPECIFICATION FairSpec
INVARIANTS LoadTypeOK DataOfItsRequest LanesGetTheirLine EveryLaneWritten
PROPERTIES EveryLoadAsked  IdleTwice
