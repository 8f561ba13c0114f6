CONSTANTS
    o1 = o1
    x1 = x1
    x2 = x2
    w1 = w1
    w2 = w2
    i1 = i1
    i2 = i2
    Orders = {o1}
    TradeIds = {x1, x2}
    Quantity = 2
    Workers = {w1, w2}
    Instances = {i1, i2}
    InstanceOf <- MCCronRuns
    NoInstance = NoInstance
    NoOrder = NoOrder
    MaxAttempts = 2
    OperatorSets = {}
    VenueStatuses = {"submitted", "filled", "cancelled", "failed"}

SPECIFICATION FairSpec

INVARIANTS
    TypeOK
    MessageAgreesWithOrder
    UnknownAtVenueIsUnfinished
    NeverAheadOfVenue
    FullyTradedIsFilled

PROPERTIES
    KeepsOrderPromise
    SubmissionSettles

CHECK_DEADLOCK FALSE
