SPECIFICATION FairSpec
CONSTANTS
    Runs = {r1, r2}
    NoRun = NoRun
    Streams = {s1, s2}
    Posts = {p1}
    Ctls = {c1}
    Kinds = {"run"}
    Faults = {"runtime"}
    MaxEvents = 1
INVARIANT TerminalReleasesRun
INVARIANT AnswerHasSummaryAndEvent
PROPERTY StartedRunSettles
CHECK_DEADLOCK FALSE
