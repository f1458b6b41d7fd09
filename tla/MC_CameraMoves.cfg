SPECIFICATION MovesSpec
CONSTANTS
    MaxEvents = 4
    MaxActions = 4
    Texts = {"a", "ab"}
    Buckets = {"here", "there"}
CHECK_DEADLOCK FALSE
INVARIANTS NobodyForgotten SuggestionsAreCurrent
PROPERTIES CoalescesLoads EventsAnswered
