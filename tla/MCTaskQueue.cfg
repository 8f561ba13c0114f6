CONSTANTS
    t1 = t1
    w1 = w1
    w2 = w2
    Tasks = {t1}
    VppTasks = {t1}
    Workers = {w1, w2}
    NoWorker = NoWorker
    NoTask = NoTask
    MaxAttempts = 2
    GatewayAnswers <- MCGatewayAnswers
    DeviceStatuses <- MCDeviceStatuses

SPECIFICATION FairSpec

INVARIANTS
    TypeOK
    ClaimsAreExclusive
    OverlapNeedsLapse
    DispatchedWasAcknowledged

PROPERTIES
    QueuedTaskSettles
    KeepsCommandPromise
