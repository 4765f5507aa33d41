CONSTANTS
  Service = {"web"}
  Mode <- EpisodeMode
  MaxRestarts <- EpisodeMaxRestarts
  BaseBackoff = 2
  MaxBackoff = 5
  MaxRestartRecords = 2
  CountCap = 3
  NotStarted = NotStarted
  NoService = NoService
SPECIFICATION Spec
INVARIANTS
  TypeOK
  RestartHistory
  BackoffCeiling
PROPERTIES
  ImplementsPolicy
  BackoffRespected
  FailedIsGivenUp
  HealthyIsReset
  StopsOnCancel
CHECK_DEADLOCK FALSE
