CONSTANTS
  Service = {"web"}
  Upstream = {1, 2}
  ServiceOf <- OneServiceOf
  Targets <- OneTargets
  Cooldown = 2
  Capacity = 1
  MaxAlertRecords = 2
  NoEvent = NoEvent
  Never = Never
SPECIFICATION Spec
INVARIANTS
  TypeOK
  NoTargetSkipped
PROPERTIES
  CooldownRespected
  RecoveryIsTold
  FailureIsTold
  AlertStops
CHECK_DEADLOCK FALSE
