CONSTANTS
    Jobs = {j1, j2, j3, j4}
    Consumers = {c1, c2}
    NoJob = nojob
    Capacity = 2
    MaxAttempts = 2
SPECIFICATION Spec
INVARIANTS
    TypeOK
    OneFate
    NeverBlockedWithinCapacity
PROPERTIES
    SettlesOrIsStuck
    ShutdownUnjams
CHECK_DEADLOCK FALSE
