SPECIFICATION Spec
CONSTANTS
  c1 = c1
  c2 = c2
  Clients <- McClients
  V4Addrs = {9}
  V6Addrs = {}
  TextRank <- McTextRank
  ScopeIds = {1}
  Ids = {1}
  MaxV6Scan = 1
  Loops = {1}
  LoopFamily <- McFamilyV4
  LoopIface <- McNoIface
  Links = {}
  Messages <- McMessages
  ScopeInputs <- McScopeInputs
  InitScopes <- McInitScopes
  ResIds = {1}
  OfferHoldSecs = 1
  MaxTime = 3
SYMMETRY Symmetry
INVARIANT NoDoubleBinding
INVARIANT IndInv
PROPERTY HolderKeepsRow
PROPERTY KeepsBook
