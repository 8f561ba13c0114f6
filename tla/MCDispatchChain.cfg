CONSTANTS
    o1 = o1
    x1 = x1
    w1 = w1
    i1 = i1
    Orders = {o1}
    TradeIds = {x1}
    Quantity = 2
    Workers = {w1}
    Instances = {i1}
    InstanceOf <- MCInstanceOf
    NoInstance = NoInstance
    NoOrder = NoOrder
    MaxAttempts = 2
    OperatorSets = {"closed", "half_open", "open"}
    VenueStatuses = {"submitted", "partially_filled", "cancel_pending", "cancelled"}
    Stations = {s1}
    AllocatedTo <- MCAllocatedTo
    Dispatchers = {d1}
    NoDispatcher = NoDispatcher
    NoTask = NoTask
    MaxDispatches = 1
    GatewayAnswers = {"succeeded"}
    DeviceStatuses = {"failed"}

SPECIFICATION ChainSpec

INVARIANTS
    CommandsAreSold

PROPERTIES
    KeepsSalePromise
