CONSTANTS CV_SIZE = 1
          a = a
          b = b
          Lines = {a, b}
          None = None
          Programs <- MCReload
          MetaAlmFull = 2
SPECIFICATION LoadSpec
INVARIANT LoadsSeeStores
