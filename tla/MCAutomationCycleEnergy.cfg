CONSTANTS
    MaxBlocks = 2
    Today = {1, 2}
    k1 = k1
    k2 = k2
    r1 = r1
    r2 = r2
    CycleKeys = {k1, k2}
    Runners = {r1, r2}
    NoKey = NoKey
    MaxOpen = 2
    MaxEnergy = 1
    MaxPerCycle = 2

SPECIFICATION Spec

INVARIANTS
    DailyEnergyWithinPolicy
