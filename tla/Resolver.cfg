SPECIFICATION Spec
CONSTANTS
  Keys = {"a", "b"}
  NegativeTtl = 1
  Queries = {q1, q2}
  Worlds <- McWorlds
SYMMETRY McSymmetry
INVARIANT ConfigFirst
INVARIANT CacheInv
INVARIANT FreshAnswers
INVARIANT DiesOnlyOfSettings
