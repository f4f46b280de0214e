\* Two situations over three days, and two problems of two areas.
SPECIFICATION Spec
CONSTANTS
    Situations = {s1, s2}
    Area = x
    OtherAreas = {y}
    LastDay = 3
    ProblemsLimit = 1
    MaxWrites = 1
    UnitStarts = {2}
    Periods <- MCPeriods
    a = a
    b = b
    z = z
    Problems = {p1, p2}
    Catalogue = {a, b}
    Inactive = {z}
    Registry = Registry
    Standing <- MCStanding
    Impacts <- MCImpacts
    MaxCommits = 2
    CriticalLimit = 1
    HighLimit = 2
    ActiveLimit = 2
    AffectedLimit = 2
    CriticalAreas = 2
    AlertDivisor = 3
    MaxLife = 3
INVARIANTS
    StockViewsAgree
    FlowBalances
    DistributionsAddUp
    CriticalNeverHides
    LivesAreLostOnce
    FalseCalmTakesTwo
SYMMETRY Symmetry
CONSTRAINT StillSettled
CHECK_DEADLOCK FALSE
