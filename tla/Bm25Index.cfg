SPECIFICATION Spec
CONSTANTS
    Writers = {w1, w2}
    Batches <- TwoDocuments
    c1 = c1
    c2 = c2
    c3 = c3
    Tokens = {t1, t2}
    MaxOps = 3
    MaxFaults = 2
    MaxRestarts = 1
SYMMETRY Interchangeable
INVARIANTS Kept StatisticsExact
