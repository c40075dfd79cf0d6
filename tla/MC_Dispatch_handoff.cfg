\* A QoS 1 and a QoS 2 message in either dispatch mode: does every reader of
\* a handed-off packet (alllogic's ack, the callbacks) read its own data?
CONSTANTS
  m1 = m1  m2 = m2  c1 = c1  c2 = c2  h1 = h1
  NoHandler = NoHandler
  Wire <- MC_Wire
  InQos <- MC_InQos
  InId <- MC_InId
  InTopic <- MC_InTopic
  RouteFilters <- MC_RouteFilters
  Callbacks = {c1, c2}
  Handlers = {h1}
  Orders = {FALSE, TRUE}
  PObjs = {k1, k2}
  Bufs = {b1, b2}
  Elems = {x1, x2}
  PubChanCap = 1
  MaxUserOps = 3
  Chars = {"a", "b"}
  MaxLen = 3
SPECIFICATION Spec
INVARIANT ReadsOwnData
CHECK_DEADLOCK FALSE
