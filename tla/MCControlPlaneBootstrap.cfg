SPECIFICATION Spec
CONSTANTS
    Processes = {pr1, pr2}
    CacheKeys = {all, t1}
    TTL = 2
    MaxWrites = 1
    NoKey = noKey
    Events = {ev1, ev2, ev3}
    Replayers = {rp1, rp2}
    MaximumRows = 2
    Limits = {1, 2}
    MaxSequence = 4
    Messages = {m1, m2, m3}
    m1 = m1
    m2 = m2
    m3 = m3
    Form <- MCForm
    Stamped = {m1}
    MaxDeliveries = 3
    c1 = c1
    c2 = c2
    c3 = c3
    p1 = p1
    p2 = p2
    ChargePoints = {p1, p2}
    Connections = {c1, c2, c3}
    PointOf <- MCPointOf
    Commands = {k1}
    NoConnection = noConnection
    MaxVersion = 3
    Activators = {av1, av2}
    MaxTime = 2
    Open = open
    Models = {mo1, mo2}
    Actors = {ac1, ac2}
    Jobs = {j1, j2}
    MaxStarts = 3
    Nobody = nobody
    Recommendations = {rec1}
    Reviewers = {rv1, rv2}
    MaxPayloads = 2
    MaxTasks = 2
    Requests = {q1, q2, q3}
    IdempotencyKeys = {ik1, ik2}
    Unscoped = {ik2}
    Hashed = {h1, h2}
    Unhashed = {u1, u2}
    NoInput = noInput
    Ingests = {g1, g2}
    Technicians = {te1, te2}
    DiagnosticIds = {d1, d2}
    ActionIds = {a1, a2}
    NoRow = noRow
    CronRuns = {cr1, cr2}
    RequiredDays = 2
    LastDay = 2
    Emails = {e1, e2}
    Logins = {l1}
    Setups = {s1, s2}
    Scripts = {sc1}
    MaxPasswords = 2
    NoEmail = noEmail
    Assets = {as1, as2, as3}
    Root = as1
INVARIANTS
    BootstrapClosesForGood
\* Several components finish for good within their bounds.
CHECK_DEADLOCK FALSE
