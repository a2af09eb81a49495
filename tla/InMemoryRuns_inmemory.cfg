SPECIFICATION Spec
CONSTANTS
    r1 = r1
    r2 = r2
    Runs = {r1, r2}
    Streams = {s1, s2}
    Posts = {p1}
    NoRun = NoRun
    TextOf <- MCTextOf
    Ends = {"run_completed"}
    Handled = {r2}
    MaxEvents = 2
SYMMETRY MCSymmetry
INVARIANT TypeOK
INVARIANT ExecutedOnce
INVARIANT OneOpenRunUnlessCancelled
INVARIANT RunningSessionHasWork
INVARIANT OneActivePerKey
INVARIANT MemoryFiledOnce
INVARIANT SettledIsRecorded
PROPERTY SettledRunIsOnlyReplayed
CHECK_DEADLOCK FALSE
