SPECIFICATION MSpec
CONSTANTS
    None = None
    Deployments <- Healthy
    Requests <- AllRequests
    Usages <- OneUsage
    Tools = {search}
    MaxParallel = 1
    Second = 2
    Lag = 0
    Gap = 0
INVARIANTS
    LatencyCapHolds
