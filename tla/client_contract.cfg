SPECIFICATION Spec
CONSTANTS
  Transport = "udp"
  UseToken = TRUE
  EnableHeartbeat = TRUE
  EnableAutoReconnect = TRUE
  HeartbeatInterval = 1
  HeartbeatTimeout = 3
  Schedule <- TwoDelays
  Caller = "careless"
  MaxSockets = 3
  MaxTimers = 2
  MaxRequestId = 5
  ReservedIds = 0
  MaxFaults = 2
  MaxConnects = 2
PROPERTIES Implements
CHECK_DEADLOCK FALSE
