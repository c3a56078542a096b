SPECIFICATION Spec
CONSTANTS
    Nobody = Nobody
    Nowhere = Nowhere
    Assets = {a1}
    Workspaces = {ws1}
    Workers = {w1, w2}
    Clients = {c1}
    MaxJobs = 2
    MaxFaults = 1
    MaxAttempts = 1
    MaxStalled = 1
    Parts = {"rows", "page"}
    Ops = {"upload", "retry", "reprocess"}
    Faults = {"crash", "redisLoss", "eviction", "slow", "lateError", "dbDown"}
    Content <- SameContent
    sha = sha
SYMMETRY Slots
CHECK_DEADLOCK FALSE
INVARIANT ReadyIsIndexed
