\* Keepalive and a connection that may break: can the hook run twice?
CONSTANTS
  p0 = p0  p1 = p1  p2 = p2  m0 = m0  m1 = m1  m2 = m2
  NoTok = NoTok
  PubToks = {p1}
  SubToks = {}
  UnsubToks = {}
  DiscToks = {}
  InMsgs = {}
  PubQos <- MC_PubQosOf
  InQos <- MC_InQosOf
  InId <- MC_InIdOf
  MaxId = 2
  ObCap = 1
  PubChanCap = 1
  ErrCap = 1
  PingCaps = {1}
  KeepAliveOn = TRUE
  ConnCanFail = TRUE
  MaxPingsOnWire = 1
SPECIFICATION Spec
INVARIANT HookAtMostOnce
CHECK_DEADLOCK FALSE
