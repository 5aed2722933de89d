CONSTANTS
    Versions = {v1, v2}
    NoVersion = none
    Txs = {t1, t2}
    Percentages = {10, 101}
    MaxRequests = 4
    MaxStatements = 4
    MaxFaults = 1
SPECIFICATION Spec
INVARIANTS
    TypeOK
    LastEventInProduction
    ProductionIsAudited
PROPERTY RequestsFinish
CHECK_DEADLOCK FALSE
