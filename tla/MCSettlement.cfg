CONSTANTS
    p1 = p1
    t1 = t1
    i1 = i1
    alice = alice
    bob = bob
    json = json
    csv = csv
    r1 = r1
    r2 = r2
    Periods = {p1}
    Trades = {t1}
    TradesIn <- MCTradesIn
    Intervals = {i1}
    MeteredBy <- MCMeteredBy
    Actors = {alice, bob}
    Exports = {json, csv}
    Requests = {r1, r2}
    NoPeriod = NoPeriod
    NoActor = NoActor
    MaxReadings = 1
    MaxEvents = 7

SPECIFICATION Spec

INVARIANTS
    TypeOK
    ChainIsHistory
    PaymentWasChecked

PROPERTIES
    KeepsSettlementPromise
