\* The engine with keepalive running, a connection that may break at any
\* moment and a user who may disconnect: a QoS 2 publish out, a QoS 0
\* message in, and resetPing/resetPingResp either unbuffered or of
\* capacity 1 (client.go sets it; both builds are explored).
CONSTANTS
  p0 = p0  p1 = p1  p2 = p2  m0 = m0  m1 = m1  m2 = m2
  NoTok = NoTok
  PubToks = {p2}
  SubToks = {}
  UnsubToks = {}
  DiscToks = {d1}
  InMsgs = {m0}
  PubQos <- MC_PubQosOf
  InQos <- MC_InQosOf
  InId <- MC_InIdOf
  MaxId = 2
  ObCap = 1
  PubChanCap = 1
  ErrCap = 1
  PingCaps = {0, 1}
  KeepAliveOn = TRUE
  ConnCanFail = TRUE
  MaxPingsOnWire = 1
SPECIFICATION Spec
INVARIANT TypeOK
INVARIANT NoPanic
INVARIANT CompletedOnlyWhenAcked
CHECK_DEADLOCK FALSE
