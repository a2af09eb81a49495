SPECIFICATION Spec
CONSTANTS
    Users = {u1, u2}
    Keys = {"answer", "policy"}
    Streams = {s1, s2, s3}
    Accepts = {a1}
    NoCandidate = NoCandidate
    RecallLimit = 1
    SummaryLimit = 1
    MayFail = TRUE
SYMMETRY Symmetry
VIEW View
INVARIANT TypeOK
INVARIANT ActivesOverlapped
INVARIANT ReviewedAcceptedHasMemory
INVARIANT RecallsOwnConfirmed
CHECK_DEADLOCK FALSE
