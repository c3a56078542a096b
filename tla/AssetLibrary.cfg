SPECIFICATION Spec
CONSTANTS
    Nobody = Nobody
    Nowhere = Nowhere
    Assets = {a1, a2}
    Workspaces = {ws1, ws2}
    Workers = {}
    Clients = {c1, c2}
    MaxJobs = 3
    MaxFaults = 1
    MaxAttempts = 1
    MaxStalled = 1
    Parts = {}
    Ops = {"upload", "move", "trash", "restore", "purge"}
    Faults = {"apiCrash"}
    Content <- SameContent
    sha = sha
SYMMETRY Library
CHECK_DEADLOCK FALSE
INVARIANT FileBacked
