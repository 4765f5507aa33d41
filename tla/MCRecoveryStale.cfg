CONSTANTS
  Service = {"web", "db", "ext"}
  Mode <- SharedMode
  MaxRestarts <- SharedMaxRestarts
  BaseBackoff = 1
  MaxBackoff = 1
  MaxRestartRecords = 1
  CountCap = 1
  NotStarted = NotStarted
  NoService = NoService
SPECIFICATION Spec
PROPERTIES
  ActsOnlyOnFailed
CHECK_DEADLOCK FALSE
