SPECIFICATION Spec
CONSTANTS
  Workers <- McWorkers
  Passwords <- McPasswords
  Tokens = {"t1", "t2"}
  Ttl = 1
  Window = 1
  Threshold = 2
INVARIANT OneAdmin
INVARIANT ThrottleBound
INVARIANT LoginLinear
PROPERTY SessionKept
PROPERTY LockEnds
PROPERTY SessionsPruned
