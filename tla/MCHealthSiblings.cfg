CONSTANTS
  Service = {"web"}
  NumUpstreams = 2
  ServiceOf <- SiblingsServiceOf
  Addr <- SiblingsAddr
  Threshold <- SiblingsThreshold
  DockerBacked = {2}
  ZeroInterval = {}
  DockerClient = TRUE
  MaxHealthRecords = 2
SPECIFICATION Spec
INVARIANTS
  TypeOK
  StoreConsistent
  EventsBalance
PROPERTIES
  ImplementsFeed
  DownIsDetected
  ShutdownCompletes
CHECK_DEADLOCK FALSE
