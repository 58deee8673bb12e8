\* Four attempts on one host, two workers that start anew now and then.
SPECIFICATION Spec
CONSTANTS
    a1 = a1  a2 = a2  a3 = a3  a4 = a4  h1 = h1  w1 = w1  w2 = w2
    Attempts <- FourAttempts
    Hosts <- OneHost
    HostOf <- SharedHost
    Ported <- PortedAttempt
    Workers <- TwoWorkers
    Pauses = {1, 4}
    FloorTicks = 1
    FetchTicks = 1
    LeaseTicks = 3
    Mishaps = {"clear", "fail"}
SYMMETRY Symmetry
INVARIANTS LeaseCoversRequest AtMostOneLateRequest
