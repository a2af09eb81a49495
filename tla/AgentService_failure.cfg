SPECIFICATION Spec
CONSTANTS
    Names <- MCNames
    Inputs = {"none"}
    HasSummaryMemory = FALSE
    Hits = {0}
    MaxChunks = 1
    MaxSteps = 1
    MaxToolCalls = 1
    MaxKnowledgeSearches = 1
    MaxActionsPerStep = 1
    MaxPromptDocuments = 1
    Permissions <- MCPermissions
INVARIANT FailureIsExplained
CHECK_DEADLOCK FALSE
