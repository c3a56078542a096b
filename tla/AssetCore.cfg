SPECIFICATION LiveSpec
CONSTANTS
    Nobody = Nobody
    Nowhere = Nowhere
    Assets = {a1}
    Workspaces = {ws1}
    Workers = {w1, w2}
    Clients = {c1}
    MaxJobs = 2
    MaxFaults = 1
    MaxAttempts = 2
    MaxStalled = 1
    Ops = {"upload", "reprocess", "trash", "restore"}
    Faults = {"slow", "lostCall"}
    Content <- SameContent
    sha = sha
    Parts = {}
CHECK_DEADLOCK FALSE
INVARIANTS TypeOK QueuedIsServed RunningHasWorker
PROPERTY EveryAssetSettles
