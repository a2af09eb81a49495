SPECIFICATION FairSpec
CONSTANTS
    i1 = i1
    i2 = i2
    s1 = s1
    s2 = s2
    v1 = v1
    v2 = v2
    r1 = r1
    r2 = r2
    None = None
    Inspections = {i1, i2}
    Sensors = {s1}
    Areas <- OneArea
    Values = {v1, v2}
    Threads = {"scheduler"}
    ModelOrder <- OnlyMetrics
    AlarmValues = {v1}
    Readers = {}
    MaxTime = 1
    MaxChanges = 3
    MaxFailures = 2
    TTL = 2
    MaxCalls = 0
INVARIANT TypeOK
INVARIANT SkippedOnlyWhenCurrent
INVARIANT SummaryFollowsDaily
PROPERTY ChangesReachDashboard
