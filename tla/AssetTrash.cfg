SPECIFICATION Spec
CONSTANTS
    Nobody = Nobody
    Nowhere = Nowhere
    Assets = {a1}
    Workspaces = {ws1}
    Workers = {w1}
    Clients = {c1}
    MaxJobs = 1
    MaxFaults = 0
    MaxAttempts = 1
    MaxStalled = 1
    Parts = {"page"}
    Ops = {"upload", "trash"}
    Faults = {}
    Content <- SameContent
    sha = sha
CHECK_DEADLOCK FALSE
INVARIANT TrashLeavesNoPage
