SPECIFICATION MCSpec
CONSTANTS
  Queries = {"q"}
  Categories = {}
  Views = {"v1"}
  FirstView = "v1"
  LastPage = 1
  NoLoad = NoLoad
  Faults = {}
  Operations = {"query"}
  MaxOperations = 1
  MaxOffset = 1
CHECK_DEADLOCK FALSE
INVARIANT WantedIsLoaded
