\* Progress when the ids run out: four operations that each hold an id
\* (QoS 1 and QoS 2 publishes, a subscribe, an unsubscribe) over two ids,
\* and a QoS 2 message in; keepalive off, a connection that does not break.
CONSTANTS
  p0 = p0  p1 = p1  p2 = p2  m0 = m0  m1 = m1  m2 = m2
  NoTok = NoTok
  PubToks = {p1, p2}
  SubToks = {s1}
  UnsubToks = {u1}
  DiscToks = {}
  InMsgs = {m2}
  PubQos <- MC_PubQosOf
  InQos <- MC_InQosOf
  InId <- MC_InIdOf
  MaxId = 2
  ObCap = 1
  PubChanCap = 1
  ErrCap = 1
  PingCaps = {1}
  KeepAliveOn = FALSE
  ConnCanFail = FALSE
  MaxPingsOnWire = 1
SPECIFICATION Spec
PROPERTY AckedOpsComplete
CHECK_DEADLOCK FALSE
