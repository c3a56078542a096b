SPECIFICATION LiveSpec
CONSTANTS
    Callers = {c1, c2, c3, c4, c5, c6}
    Concurrency = 2
    MaxQueue = 3
INVARIANTS Bookkeeping NoIdleSlot
PROPERTIES NoOvertaking IsSemaphore WaiterServed
