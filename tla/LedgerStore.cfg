\* Two homes and two players, or one global system whose workers are lost and replaced,
\* or two processes at one store, three revisions, every step of which may be the last.
SPECIFICATION MCSpec
CONSTANTS
  Location = {l1, l2}
  Player = {p1, p2}
  Worker = {w1, w2, w3}
  Content = {c1, c2}
  System = {economy}
  EventId = {e1, e2}
  MaxGeneration = 4
  MaxRevision = 3
  MaxTransferId = 2
  MaxLocations = 2
  MaxAvatars = 2
  MaxTransfers = 2
  MaxGlobalEvents = 1
  Process = {process1, process2}
  Payload = {a, b}
  Nothing = Nothing
  Nobody = Nobody
  MaxStoreRevision = 3
SYMMETRY Symmetry
INVARIANTS
  SnapshotRestorable
  RestorationNotAhead
  InactiveAvatarRecoverable
  OneWriter
  AcknowledgedSurvives
  AcknowledgedReopens
PROPERTIES
  ImplementsAuthority
  GlobalsStayOwned
  NeverReinitialized
  ImplementsRegister
CHECK_DEADLOCK FALSE
