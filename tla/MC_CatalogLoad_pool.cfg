SPECIFICATION MCSpec
CONSTANTS
  Queries = {"q"}
  Categories = {}
  Views = {"v1", "v2"}
  FirstView = "v1"
  LastPage = 1
  NoLoad = NoLoad
  Faults = {}
  Operations = {"mode", "query", "move", "more"}
  MaxOperations = 4
  MaxOffset = 1
CHECK_DEADLOCK FALSE
PROPERTY PoolOnlyGrows
