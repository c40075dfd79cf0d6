\* The router with two filters that overlap, a/+ and a/b, in both dispatch
\* modes: does it still implement RouterSpec?
CONSTANTS
  m1 = m1  m2 = m2  c1 = c1  c2 = c2  h1 = h1
  NoHandler = NoHandler
  Wire <- MC_Wire
  InQos <- MC_InQos
  InId <- MC_InId
  InTopic <- MC_InTopic
  RouteFilters <- MC_OverlappingFilters
  Callbacks = {c1, c2}
  Handlers = {h1}
  Orders = {FALSE, TRUE}
  PObjs = {k1, k2}
  Bufs = {b1, b2}
  Elems = {x1, x2, x3}
  PubChanCap = 1
  MaxUserOps = 3
  Chars = {"a", "b"}
  MaxLen = 3
SPECIFICATION Spec
PROPERTY RouterRefinement
CHECK_DEADLOCK FALSE
