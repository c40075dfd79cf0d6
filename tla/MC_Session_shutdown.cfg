\* A connection that breaks with a message in flight: do all goroutines exit?
CONSTANTS
  p0 = p0  p1 = p1  p2 = p2  m0 = m0  m1 = m1  m2 = m2
  NoTok = NoTok
  PubToks = {p1}
  SubToks = {}
  UnsubToks = {}
  DiscToks = {}
  InMsgs = {m1}
  PubQos <- MC_PubQosOf
  InQos <- MC_InQosOf
  InId <- MC_InIdOf
  MaxId = 2
  ObCap = 1
  PubChanCap = 1
  ErrCap = 1
  PingCaps = {1}
  KeepAliveOn = FALSE
  ConnCanFail = TRUE
  MaxPingsOnWire = 1
SPECIFICATION Spec
PROPERTY AllActivitiesExit
CHECK_DEADLOCK FALSE
