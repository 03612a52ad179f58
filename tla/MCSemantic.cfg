SPECIFICATION IndexSpec
CONSTANTS
    Docs = {d1}
    Requests = {r1, r2}
    MaxWorkers = 2
    MaxChanges = 1
    MaxIndexFaults = 1
INVARIANTS
    ReadyIsProven
    OneWorkerAtWork
PROPERTIES
    BecomesReady
CHECK_DEADLOCK FALSE
