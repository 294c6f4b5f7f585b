SPECIFICATION Spec
CONSTANTS
  Transport = "ws"
  UseToken = TRUE
  EnableHeartbeat = TRUE
  EnableAutoReconnect = TRUE
  HeartbeatInterval = 1
  HeartbeatTimeout = 3
  Schedule <- TwoDelays
  Caller = "patient"
  MaxSockets = 3
  MaxTimers = 2
  MaxRequestId = 6
  ReservedIds = 0
  MaxFaults = 2
  MaxConnects = 2
PROPERTIES DisconnectSticks
CHECK_DEADLOCK FALSE
