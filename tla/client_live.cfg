SPECIFICATION FairSpec
CONSTANTS
  Transport = "ws"
  UseToken = TRUE
  EnableHeartbeat = FALSE
  EnableAutoReconnect = TRUE
  HeartbeatInterval = 1
  HeartbeatTimeout = 3
  Schedule <- TwoDelays
  Caller = "patient"
  MaxSockets = 5
  MaxTimers = 2
  MaxRequestId = 7
  ReservedIds = 5
  MaxFaults = 3
  MaxConnects = 2
PROPERTIES Reconnects AttemptEnds
CHECK_DEADLOCK FALSE
