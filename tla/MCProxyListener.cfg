CONSTANTS
  Service = {"web"}
  NumUpstreams = 2
  ServiceOf <- ProxyServiceOf
  Conn = {c1, c2, c3}
  MaxConnections = 2
  CounterSize = 4
  NoService = NoService
  NoUpstream = NoUpstream
SPECIFICATION Spec
INVARIANTS
  TypeOK
  PermitsAccounted
  TurnsBalanced
PROPERTIES
  RoutedToHealthy
  ConnectionsEnd
CHECK_DEADLOCK FALSE
