SPECIFICATION LiveSpec
CONSTANTS
    Nobody = Nobody
    MaxAttempts = 2
    MaxStalled = 1
    Workers = {w1, w2}
    Api = api
    Runs = {r1}
    MaxSlots = 1
    Departed = Departed
    Faults = {"crash", "pause", "redis", "insert", "enqueue", "query", "work", "log", "catch"}
    MaxFaults = 1
    LeaseFirst = TRUE
PROPERTIES RunsEnd EndsOnce
