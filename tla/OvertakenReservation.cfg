\* A worker is recovered beside the other player's reservation at its home.
SPECIFICATION MCSpec
CONSTANTS
  Location = {l1, l2}
  Player = {1, 2}
  Worker = {w1, w2}
  Content = {c1}
  System = {economy}
  Economy = economy
  EventId = {}
  Process = {p1, p2, p3}
  Nobody = Nobody
  Focus = {"players"}
  Scene = {1}
  Checkpoint = 1
  Replacement <- OneReplacement
  Request = {"prepare", "begin", "bind", "commit", "finish", "recover", "destination_restore", "destination_activate", "destination_discard", "source_restore", "source_activate", "source_cleanup"}
  MaxGeneration = 6
  MaxRevision = 1
  MaxRuns = 2
  MaxTransferId = 2
  MaxLocations = 2
  MaxAvatars = 2
  MaxTransfers = 2
  MaxGlobalEvents = 0
SYMMETRY ProcessSymmetry
INVARIANTS
  ReservationsFollowTheirWorkers
CHECK_DEADLOCK FALSE
