SPECIFICATION MSpec
CONSTANTS
    None = None
    Deployments <- AllDeployments
    Requests <- AllRequests
    Usages <- SomeUsages
    Tools = {search}
    MaxParallel = 1
    Second = 2
    Lag = 1
    Gap = 1
INVARIANTS
    TypeOK
    OkIsWithinBudget
    OkTraceComplete
    ModelAnswerIffOk
    WallClockBound
    ErrorMeansNotBegun
    AnswersAsEvaluated
    MetricsTypeOK
    CountersMatchResponse
    CountersTellOutcome
    LatencyObservedOnce
PROPERTIES
    WarnedByNextResponse
    ImplementsContract
