SPECIFICATION Spec
CONSTANTS
  Owner = {1}
  Wild = {3}
  Verbs <- MCVerbs
  QueueCapacity = 2
  MaxCommand = 4
  MaxFault = 2
  MaxBorn = 2
INVARIANTS
  OrdersReachWhatTheyNamed
  FencedOwnersAreStill
CHECK_DEADLOCK FALSE
