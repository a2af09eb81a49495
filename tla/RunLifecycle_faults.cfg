SPECIFICATION Spec
CONSTANTS
    Runs = {r1, r2}
    NoRun = NoRun
    Streams = {s1}
    Posts = {p1, p2}
    Ctls = {c1, c2}
    Kinds = {"run", "session", "post"}
    Faults = {"disconnect", "store", "runtime", "crash"}
    MaxEvents = 2
SYMMETRY Symmetry
VIEW View
INVARIANT TypeOK
INVARIANT TerminalStatusHasEvent
INVARIANT CancelledImpliesFlag
INVARIANT RunningSessionNamesRun
INVARIANT AtMostOneLateEvent
INVARIANT CursorIsPersisted
PROPERTY SeqGrows
PROPERTY ImplementsLedger
CHECK_DEADLOCK FALSE
