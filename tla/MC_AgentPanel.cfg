SPECIFICATION PanelSpec
CONSTANTS
    ActionKinds = {"flyTo", "select", "showRoute"}
    MaxItems = 2
    MaxViews = 1
    MaxQuestions = 2
    MaxReads = 3
    MaxOpens = 2
    MessageCap = 2
    ContentMax = 1
    ToolsCap = 1
    CardsCap = 1
    ToolNames = {"search"}
INVARIANTS
    TurnStateIsItsOwn
    StoredFollowsShown
    UndoTakesBack
PROPERTIES
    EarlierTurnsAreFrozen
\* The bounds are used up and the panel is closed: nothing more happens.
CHECK_DEADLOCK FALSE
