CONSTANTS
  Id = {"web", "db", "w b", ""}
  BadId = {"w b"}
  Host = {"local"}
  None = None
  Unroutable = {""}
  Malformed = {"w b"}
  Nothing = Nothing
  Configs <- MCConfigs
  Requests <- MCRequests
  Taken <- MCTaken
  Statuses = {"Unknown", "Failed"}
  Capacity = 2
SPECIFICATION Spec
INVARIANTS
  TypeOK
  ConfigSound
  NoSilentLoss
  OrderKept
  CtlTellsTruth
PROPERTIES
  ShutdownEnds
CHECK_DEADLOCK FALSE
