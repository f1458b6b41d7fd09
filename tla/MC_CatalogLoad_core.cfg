SPECIFICATION MCFairSpec
CONSTANTS
  Queries = {"q"}
  Categories = {"c"}
  Views = {"v1", "v2"}
  FirstView = "v1"
  LastPage = 1
  NoLoad = NoLoad
  Faults = {"empty", "page", "fail"}
  Operations = {"mode", "filter", "query", "move", "rebind", "more", "refresh", "retry", "reload"}
  MaxOperations = 4
  MaxOffset = 1
CHECK_DEADLOCK FALSE
INVARIANTS NoMixing SkipFetchIsDue
PROPERTY MovesAreAnswered
