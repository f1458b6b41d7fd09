SPECIFICATION MCSpec
CONSTANTS
  Queries = {}
  Categories = {}
  Views = {"v1"}
  FirstView = "v1"
  LastPage = 1
  NoLoad = NoLoad
  Faults = {}
  Operations = {"mode"}
  MaxOperations = 2
  MaxOffset = 1
CHECK_DEADLOCK FALSE
INVARIANT ExhaustedWorkIsWhole
