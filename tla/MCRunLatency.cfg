SPECIFICATION MSpec
CONSTANTS
    None = None
    Deployments <- Healthy
    Requests <- PlainRequests
    Usages <- OneUsage
    Tools = {search}
    MaxParallel = 2
    Second = 2
    Lag = 0
    Gap = 0
INVARIANTS
    LatencyOfEveryRun
