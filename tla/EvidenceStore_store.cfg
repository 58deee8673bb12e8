\* Both stores: two writers of the same bytes, crashes, an operator who deletes orphans.
SPECIFICATION StoreSpec
CONSTANTS
    h1 = h1  h2 = h2  w1 = w1  w2 = w2
    Hashes = {h1, h2}
    Writers = {w1, w2}
    Deployments <- BothStores
    MaxDays = 2
SYMMETRY WriterSymmetry
INVARIANTS NoDanglingRow TornIsTransient NewObjectsSurvive
CHECK_DEADLOCK FALSE
