SPECIFICATION Spec
CONSTANT Data = {w1, w2, w3, w4, w5, w6}
INVARIANT TypeOK
PROPERTY ImplementsQueue
