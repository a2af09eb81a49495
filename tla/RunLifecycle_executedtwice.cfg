SPECIFICATION Spec
CONSTANTS
    Runs = {r1}
    NoRun = NoRun
    Streams = {s1, s2}
    Posts = {p1}
    Ctls = {}
    Kinds = {"run"}
    Faults = {}
    MaxEvents = 1
INVARIANT ExecutedOnce
CHECK_DEADLOCK FALSE
