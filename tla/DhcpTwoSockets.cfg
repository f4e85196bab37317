SPECIFICATION Spec
CONSTANTS
  c1 = c1
  c2 = c2
  Clients <- McClients
  V4Addrs <- McV4
  V6Addrs = {}
  TextRank <- McTextRank
  ScopeIds = {1}
  Ids = {1, 2}
  MaxV6Scan = 1
  Loops = {1, 2}
  LoopFamily <- McFamilyV4
  LoopIface <- McTwoSockets
  Links = {}
  Messages <- McRequests
  ScopeInputs = {}
  InitScopes <- McPinned
  ResIds = {}
  OfferHoldSecs = 1
  MaxTime = 3
INVARIANT NoDoubleBinding
