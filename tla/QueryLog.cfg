SPECIFICATION Spec
CONSTANTS
  Tasks = {1, 2}
  Domains = {"a", "b"}
  Blocked = {"b"}
  Window = 3
  Output = 2
  TopTrackCap = 1
  RecentCap = 2
  QueueCap = 2
  BatchCap = 2
  MaxRows = 1
  Worlds <- McWorlds
INVARIANT SeriesExact
INVARIANT TopExact
INVARIANT LogLinear
PROPERTY KeepsNewest
PROPERTY Drained
