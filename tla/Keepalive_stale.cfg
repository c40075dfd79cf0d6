\* keepalive with KeepAlive 3 and PingTimeout 2 ticks, a broker that answers
\* within a tick or not at all, buffered signals: does keepalive keep
\* spec 8's keepalive invariant?
CONSTANTS
  KeepAlive = 3
  PingTimeout = 2
  PingCap = 1
  MaxRtt = 1
  BrokerMayFail = TRUE
  Horizon = 8
SPECIFICATION Spec
PROPERTY KeepaliveInvariant
CHECK_DEADLOCK FALSE
