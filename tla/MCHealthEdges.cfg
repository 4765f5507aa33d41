CONSTANTS
  Service = {"db", "dup", "cron"}
  NumUpstreams = 4
  ServiceOf <- EdgesServiceOf
  Addr <- EdgesAddr
  Threshold <- EdgesThreshold
  DockerBacked = {1}
  ZeroInterval = {"cron"}
  DockerClient = FALSE
  MaxHealthRecords = 2
SPECIFICATION Spec
INVARIANTS
  SoleEventsChain
  HistoryEndsWithStreak
  RepeatedAddressUndecided
CHECK_DEADLOCK FALSE
