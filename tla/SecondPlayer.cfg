\* Two players' creatures, two of a third species, two corpse numbers and one befriended species.
SPECIFICATION MCSpec
CONSTANTS
  First = first
  Second = second
  Nobody = nobody
  Wild = {w1, w2}
  Extinction = 3
  Samples = 1
  MaxDepth = 2
  MaxDeeds = 2
  MaxEpoch = 2
  Corpse = {1, 2}
  Other = {1}
  Needed = 2
  Boundary = 2
  MaxEarned = 3
  MaxBodies = 2
  MaxTicks = 2
  MaxReloads = 1
INVARIANTS
  ResultsStayWithTheirHunter
  BlowsKeepTheirManager
  AlarmsAreJustified
  RewardsStayWithTheirEarner
  EarningsAreKept
CHECK_DEADLOCK FALSE
