SPECIFICATION Spec
CONSTANTS
    MaxTurns = 1
    MaxRetries = 2
    SentBudget = 6
    HistoryLimit = 4
    ToolSizes = {1}
    Dialogues <- MC_OneQuestion
    MaxEvents = 2
    MaxChunk = 2
PROPERTIES
    FailureEndsTheChat
\* The chat ends and the process has nothing more to do.
CHECK_DEADLOCK FALSE
