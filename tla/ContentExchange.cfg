SPECIFICATION MCSpec
CONSTANTS
  Player = {1, 2}
  PNG = {g1, g2}
  Properties = {a, b}
  NoPNG = NoPNG
  NoProperties = NoProperties
  MaxVersions = 2
  MaxBlobs = 2
  Bridged = {2}
  Tooled = {1}
  Steady = TRUE
  MaxConnection = 2
  MaxTransaction = 2
  MaxFault = 1
SYMMETRY Symmetry
INVARIANTS
  PublishedReopens
  JobsAreCurrent
PROPERTIES
  PublishedAsLoaded
CHECK_DEADLOCK FALSE
