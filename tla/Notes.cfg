SPECIFICATION LiveSpec
CONSTANTS
    Assets = {a1, a2}
    Requests = {r1, r2}
    NoAsset = NoAsset
    a1 = a1
    a2 = a2
    r1 = r1
    r2 = r2
    MaxTexts = 2
    MaxVersion = 2
    MaxRevisions = 3
    MaxFaults = 1
    Ops <- TabAndOthers
    Faults = {"crash", "db", "gbrain", "library"}
CHECK_DEADLOCK FALSE
INVARIANTS TypeOK HistoryIsWhole SyncedIsPublished
PROPERTIES FilesKept Republished
