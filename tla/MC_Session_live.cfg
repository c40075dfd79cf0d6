\* Id reuse with keepalive off and a connection that does not break: a
\* QoS 1 publish, a subscribe and an unsubscribe out sharing two ids (one
\* is freed by "go c.freeID" and handed out again), a QoS 2 message in.
CONSTANTS
  p0 = p0  p1 = p1  p2 = p2  m0 = m0  m1 = m1  m2 = m2
  NoTok = NoTok
  PubToks = {p1}
  SubToks = {s1}
  UnsubToks = {u1}
  DiscToks = {}
  InMsgs = {m2}
  PubQos <- MC_PubQosOf
  InQos <- MC_InQosOf
  InId <- MC_InIdOf
  MaxId = 2
  ObCap = 1
  PubChanCap = 1
  ErrCap = 1
  PingCaps = {1}
  KeepAliveOn = FALSE
  ConnCanFail = FALSE
  MaxPingsOnWire = 1
SPECIFICATION Spec
INVARIANT CompletedOnlyWhenAcked
CHECK_DEADLOCK FALSE
