SPECIFICATION LiveSpec
CONSTANTS
    Nobody = Nobody
    Nowhere = Nowhere
    Assets = {a1}
    Workspaces = {ws1}
    Workers = {w1}
    Clients = {c1}
    MaxJobs = 1
    MaxFaults = 1
    MaxAttempts = 2
    MaxStalled = 1
    Parts = {}
    Ops = {"upload"}
    Faults = {"crash"}
    Content <- SameContent
    sha = sha
CHECK_DEADLOCK FALSE
PROPERTY RecoveredIsProcessed
