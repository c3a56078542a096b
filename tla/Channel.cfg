SPECIFICATION LiveSpec
CONSTANTS
    Workers = {w1, w2}
    Slots = {s1, s2, s3}
    Host <- TwoAndOne
    w1 = w1
    w2 = w2
    s1 = s1
    s2 = s2
    s3 = s3
    Nobody = Nobody
    Departed = Departed
    MaxEvents = 1
    MaxAttempts = 3
    MaxFaults = 1
    Faults = {"crash", "shutdown", "db", "poll", "expire", "lag", "slow", "rebind"}
CHECK_DEADLOCK FALSE
INVARIANTS TypeOK EventStored OnePoller OneAttempt CompletedWasSent
PROPERTIES AnswersOnce TraceVerdict CompletedStays EveryEventEnds
