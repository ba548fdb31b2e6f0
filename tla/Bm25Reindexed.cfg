SPECIFICATION Spec
CONSTANTS
    Writers = {w1}
    Batches <- TwoDocuments
    c1 = c1
    c2 = c2
    c3 = c3
    Tokens = {t1, t2}
    MaxOps = 3
    MaxFaults = 0
    MaxRestarts = 0
SYMMETRY Interchangeable
INVARIANTS ReindexedClean
