CONSTANTS CV_SIZE = 1
          a = a
          Lines = {a}
          None = None
          Programs <- MCPrograms
SPECIFICATION Spec
INVARIANT StoresSentOnce
