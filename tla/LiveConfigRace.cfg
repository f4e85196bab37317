SPECIFICATION Spec
CONSTANTS
  Workers = {"w1", "w2"}
  Requests = {"store"}
  Values = {0, 1}
  Updates <- McUpdates
  FailAt = {}
  BadStarts = {{}}
INVARIANT ServesStored
