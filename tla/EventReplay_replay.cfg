SPECIFICATION Spec
CONSTANTS
    Turns = {1, 2, 3}
    MaxEvents = 2
    MaxTime = 2
    PageSize = 1
CONSTRAINT Focus
INVARIANT TypeOK
INVARIANT ReplayIsWhole
INVARIANT PagingShowsEachTurnOnce
INVARIANT CompletedItemHasEvents
CHECK_DEADLOCK FALSE
