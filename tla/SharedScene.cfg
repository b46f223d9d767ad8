SPECIFICATION FairSpec
CONSTANTS
  Entity = {1, 2}
  Player = {1}
  Owner <- CreatureOwner
  Connection = {1, 2, 3}
  Epoch = {1}
  Permitted = {1}
  Stays <- StaysOrArrives
  MaxGeneration = 2
  MaxChanges = 2
  MaxBreaks = 1
  MaxTransfers = 1
  MaxCrashes = 1
  MaxMoves = 1
  MaxFaults = 2
INVARIANTS
  ReadyMeansApplied
  StreamsAgree
PROPERTIES
  NothingLeavesWithheld
  PlayersJoin
CHECK_DEADLOCK FALSE
