SPECIFICATION FairSpec
CONSTANTS
    Names <- MCNames
    Inputs = {"none", "slides", "word"}
    HasSummaryMemory = TRUE
    Hits = {0, 2}
    MaxChunks = 2
    MaxSteps = 3
    MaxToolCalls = 2
    MaxKnowledgeSearches = 1
    MaxActionsPerStep = 2
    MaxPromptDocuments = 1
    Permissions <- MCPermissions
INVARIANT TypeOK
INVARIANT EventsAreBracketed
INVARIANT RefusalsAreReported
INVARIANT ExportFollowsSuccess
PROPERTY ImplementsContract
PROPERTY EveryRunIsHandled
CHECK_DEADLOCK FALSE
