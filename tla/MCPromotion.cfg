CONSTANTS
    v1 = v1
    v2 = v2
    v3 = v3
    p1 = p1
    p2 = p2
    Versions = {v1, v2, v3}
    NoVersion = none
    Txs = {t1}
    Percentages = {0, 101}
    MaxRequests = 3
    MaxStatements = 3
    MaxFaults = 1
    Pipelines = {p1}
    Accuracies = {1, 2}
    MinImprovement = 1
    Unmeasured = unmeasured
    NoMetrics = nometrics
    NoRequest = norequest
SPECIFICATION PromotionSpec
INVARIANTS
    PromotionTypeOK
    AtMostOneProduction
    ExitZeroIsDeployed
PROPERTIES
    SwitchesAtomically
    PromotesOnlyBetter
SYMMETRY PromotionSymmetry
CHECK_DEADLOCK FALSE
