SPECIFICATION FairSpec
CONSTANTS
  ZoneIds = {1}
  Requests = {"create_secondary", "refresh", "create_zone", "delete_zone", "update_zone", "update_record", "delete_record"}
  Workers = {"w1"}
  InitZones <- McStart
  FailAt = {"soa", "axfr", "replace", "status", "load", "stamp", "failed"}
  FirstSerial = 2
  MaxSerial = 3
  MaxRestarts = 1
INVARIANT SerialNamesData
INVARIANT SecondaryInv
PROPERTY SerialConverges
PROPERTY Converges
