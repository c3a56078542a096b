SPECIFICATION LiveSpec
CONSTANTS
    Callers = {c1, c2, c3}
    Concurrency = 2
    MaxQueue = 1
    Threshold = 2
    MaxTries = 2
    Aborts = {"waiting", "fetching", "pausing", "recovering"}
    MaxAborts = 2
INVARIANTS BreakerConsistent
PROPERTIES ProbeLostInBackoff EveryCallEnds RecoversIfReported
