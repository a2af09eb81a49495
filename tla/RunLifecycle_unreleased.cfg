SPECIFICATION Spec
CONSTANTS
    Runs = {r1}
    NoRun = NoRun
    Streams = {s1}
    Posts = {p1}
    Ctls = {}
    Kinds = {"run"}
    Faults = {"disconnect"}
    MaxEvents = 1
INVARIANT TerminalReleasesRun
CHECK_DEADLOCK FALSE
