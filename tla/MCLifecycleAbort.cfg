CONSTANTS
  Id = {"web", "db", "w b", ""}
  BadId = {"w b"}
  Host = {"local"}
  None = None
  Unroutable = {""}
  Malformed = {"w b"}
  Nothing = Nothing
  Configs <- MCConfigs
  Requests <- MCRequests
  Taken <- MCTaken
  Statuses = {"Unknown", "Failed"}
  Capacity = 1
SPECIFICATION Spec
PROPERTIES
  NoLateProxyConflict
CHECK_DEADLOCK FALSE
