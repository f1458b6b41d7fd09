SPECIFICATION Spec
CONSTANTS
    MaxTurns = 3
    MaxRetries = 1
    SentBudget = 6
    HistoryLimit = 4
    ToolSizes = {1}
    Dialogues <- MC_Dialogues
    MaxEvents = 2
    MaxChunk = 2
INVARIANTS
    TerminalIsLast
    RequestsBounded
    HistoryIsSound
PROPERTIES
    NothingSentAfterLeaving
    ChatEnds
\* The chat ends and the process has nothing more to do.
CHECK_DEADLOCK FALSE
