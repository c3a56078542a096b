SPECIFICATION LiveSpec
CONSTANTS
    Assets = {a1, a2}
    Worded = {a1}
    Similar = {a1, a2}
    Settled = {a2}
    Indexers = {i1}
    Processes = {p1}
    Askers = {q1, q2}
    Home <- Together
    Kinds <- Mixed
    NoAsset = NoAsset
    MaxEditions = 2
    MaxFaults = 1
    Faults = {"crash", "db", "embed", "index"}
    p1 = p1
    q1 = q1
    q2 = q2
    a1 = a1
    a2 = a2
INVARIANTS TypeOK HitsAreCurrent ReadyIsFound
PROPERTIES LeftFades RequestsEnd
