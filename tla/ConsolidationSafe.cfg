SPECIFICATION Spec
CONSTANTS
    Nobody = Nobody
    MaxAttempts = 2
    MaxStalled = 1
    Workers = {w1, w2}
    Api = api
    Runs = {r1, r2}
    MaxSlots = 1
    Departed = Departed
    Faults = {"crash", "redis", "insert", "enqueue", "query", "work", "log", "catch"}
    MaxFaults = 2
    LeaseFirst = FALSE
    w1 = w1
    w2 = w2
    r1 = r1
    r2 = r2
SYMMETRY Symmetry
INVARIANTS TypeOK OneActiveRun OneExecutor
