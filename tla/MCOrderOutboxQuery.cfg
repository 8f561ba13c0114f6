CONSTANTS
    o1 = o1
    x1 = x1
    x2 = x2
    w1 = w1
    w2 = w2
    i1 = i1
    i2 = i2
    Orders = {o1}
    TradeIds = {x1}
    Quantity = 1
    Workers = {w1, w2}
    Instances = {i1, i2}
    InstanceOf <- MCPods
    NoInstance = NoInstance
    NoOrder = NoOrder
    MaxAttempts = 2
    OperatorSets = {}
    VenueStatuses = {"submitted", "partially_filled", "filled", "cancelled", "failed"}

SPECIFICATION Spec

INVARIANTS
    MatchedIsNotLiveRejected

CHECK_DEADLOCK FALSE
