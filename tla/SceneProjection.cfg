\* Two players' creatures, one wild creature, its nest, a fossil and a fruit.
SPECIFICATION ProjectionSpec
CONSTANTS
  MaxNum = 12
  Begun <- MCBegun
  First = 1
  Second = 7
  Loads <- MCLoads
  HerdSpecies <- MCHerdSpecies
  OwnHerd = "own"
  Newcomers <- MCNewcomers
  MaxChanges = 2
  MaxLost = 2
  MaxLoads = 1
INVARIANTS
  ShowsTheScene
  ActionsReachTheirTarget
CHECK_DEADLOCK FALSE
