\* A reservation made with its worker started in maintenance is cancelled.
SPECIFICATION WholeSpec
CONSTANTS
  Location = {l1, l2}
  Player = {1}
  Worker = {w1, w2}
  Content = {c1}
  System = {economy}
  Economy = economy
  EventId = {}
  Process = {p1, p2, p3}
  Nobody = Nobody
  Focus = {}
  Scene = {1}
  Checkpoint = 1
  Replacement <- OneReplacement
  Request = {"prepare", "begin", "bind", "commit", "finish", "destination_restore", "destination_activate", "source_cleanup", "prepare_maintenance", "cancel"}
  MaxGeneration = 5
  MaxRevision = 1
  MaxRuns = 1
  MaxTransferId = 2
  MaxLocations = 2
  MaxAvatars = 1
  MaxTransfers = 1
  MaxGlobalEvents = 0
SYMMETRY ProcessSymmetry
INVARIANTS
  StartsReopen
CHECK_DEADLOCK FALSE
