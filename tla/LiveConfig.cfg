SPECIFICATION FairSpec
CONSTANTS
  Workers = {"w1"}
  Requests = {"store", "filter", "conditional", "refresh", "settings", "dyndns", "register_dns"}
  Values = {0, 1}
  Updates <- McUpdates
  FailAt = {"ptr", "second", "secondSame", "upstream", "writeRow", "loadStore", "loadFilter", "loadCond"}
  BadStarts <- McBadStarts
INVARIANT TypeOK
INVARIANT ServesStored
PROPERTY FilterHeals
