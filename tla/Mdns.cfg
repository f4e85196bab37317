SPECIFICATION MdnsSpec
CONSTANTS
  Meta = "meta"
  Names = {"type", "inst", "host"}
  Hosts = {"host"}
  V4 = {"lan", "pub"}
  V6 = {}
  LanAddrs = {"lan"}
  Graph <- McGraph
  LinkStates <- McLinkStates
  Chatter <- McChatter
  MdnsTtl = 1
  QueriedCap = 3
INVARIANT RegistryInv
INVARIANT LanOnly
PROPERTY Discovered
PROPERTY Forgotten
