SPECIFICATION Spec
CONSTANTS
    Runs = {r1, r2}
    NoRun = NoRun
    Streams = {s1}
    Posts = {p1, p2}
    Ctls = {c1}
    Kinds = {"run"}
    Faults = {}
    MaxEvents = 1
INVARIANT OneActiveRun
CHECK_DEADLOCK FALSE
