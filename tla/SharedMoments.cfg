\* Two players' creatures, of one species or two.
SPECIFICATION MCSpec
CONSTANTS
  Foreign = {TRUE, FALSE}
  MaxDeaths = 2
  MaxLessons = 3
  MaxFaults = 1
  MaxJoins = 3
  MaxScenes = 2
INVARIANTS
  WatchedIsAwaited
  AuthorityKeepsTheProtocol
PROPERTIES
  SeenThrough
CHECK_DEADLOCK FALSE
