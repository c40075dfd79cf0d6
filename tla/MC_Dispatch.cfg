\* Ordered and concurrent dispatch of a QoS 1 and a QoS 2 message while the
\* user makes up to three router calls (a nil default handler among them),
\* with two packet objects and two byte slices the pools may hand out
\* again.  The two filters do not overlap.
CONSTANTS
  m1 = m1  m2 = m2  c1 = c1  c2 = c2  h1 = h1
  NoHandler = NoHandler
  Wire <- MC_Wire
  InQos <- MC_InQos
  InId <- MC_InId
  InTopic <- MC_InTopic
  RouteFilters <- MC_RouteFilters
  Callbacks = {c1, c2}
  Handlers = {h1}
  Orders = {FALSE, TRUE}
  PObjs = {k1, k2}
  Bufs = {b1, b2}
  Elems = {x1, x2}
  PubChanCap = 1
  MaxUserOps = 2
  Chars = {"a", "b"}
  MaxLen = 3
SPECIFICATION Spec
INVARIANT TypeOK
INVARIANT PoolExclusive
PROPERTY RouterRefinement
PROPERTY EveryPublishHandled
CHECK_DEADLOCK FALSE
