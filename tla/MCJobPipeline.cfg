CONSTANTS
    Jobs = {j1, j2}
    Malformed = malformed
    ReadCount = 2
    r1 = r1
    r2 = r2
    Replicas = {r1, r2}
    MaxAttempts = 2
    MaxFaults = 1
    MaxStops = 1
    MaxMalformed = 1
SPECIFICATION Spec
INVARIANTS
    TypeOK
    NoSilentLoss
    ExclusiveEntries
    AttemptBudget
    SingleOutcome
    DeadLetterOnlyExhausted
    CountersCoverTopics
PROPERTIES
    AckAfterOutcome
SYMMETRY ReplicaSymmetry
CHECK_DEADLOCK FALSE
