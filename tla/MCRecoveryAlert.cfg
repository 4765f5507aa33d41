CONSTANTS
  Service = {"web"}
  Mode <- MCMode
  MaxRestarts <- MCMaxRestarts
  BaseBackoff = 0
  MaxBackoff = 0
  MaxRestartRecords = 1
  CountCap = 1
  NotStarted = NotStarted
  NoService = NoService
  Upstream = {1}
  ServiceOf <- MCServiceOf
  Targets <- MCTargets
  Cooldown = 1
  Capacity = 1
  MaxAlertRecords = 1
  NoEvent = NoEvent
  Never = Never
SPECIFICATION Spec
PROPERTIES
  ImplementsAlertEngine
  RecoveryToldUnlessLate
CHECK_DEADLOCK FALSE
