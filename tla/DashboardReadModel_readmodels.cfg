SPECIFICATION DashboardSpec
CONSTANTS
    i1 = i1
    i2 = i2
    s1 = s1
    s2 = s2
    v1 = v1
    v2 = v2
    r1 = r1
    r2 = r2
    None = None
    Inspections = {}
    Sensors = {s1}
    Areas <- OneArea
    Values = {v1}
    Threads = {"scheduler", "main"}
    ModelOrder <- TwoModels
    AlarmValues = {v1}
    Readers = {r1, r2}
    MaxTime = 1
    MaxChanges = 0
    MaxFailures = 1
    TTL = 1
    MaxCalls = 3
CONSTRAINT Focus
SYMMETRY ReaderSymmetry
INVARIANT FreshnessVouchesForRows
INVARIANT ServedWithinTTL
INVARIANT FreshnessCoversRows
