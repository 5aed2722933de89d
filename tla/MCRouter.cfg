CONSTANTS
    Workers = {1, 2}
    Supports <- MCSupports
    Configured <- MCConfigured
    GPU <- MCGPU
    Calls = {c1}
    Requests <- MCRequests
    Latencies = {25}
    StaleAfter = 6
    CallTimeout = 1
    RpcTimeout = 1
    Interval = 2
    Mortal = {1}
SPECIFICATION Spec
INVARIANTS
    TypeOK
    DeadWorkerExpires
    HealthyStaysLive
    RoutedToCapable
    RoutedToBest
