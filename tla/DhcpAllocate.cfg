SPECIFICATION AllocateSpec
CONSTANTS
  c1 = c1
  c2 = c2
  Clients = {c1, c2}
  V4Addrs = {1, 2, 3}
  V6Addrs = {11, 12, 13}
  TextRank <- McRank
  ScopeIds = {1}
  Ids = {1}
  MaxV6Scan = 2
  Args <- McAllArgs
INVARIANT ScanFindsAllocation
PROPERTY AllocateReturns
CHECK_DEADLOCK FALSE
