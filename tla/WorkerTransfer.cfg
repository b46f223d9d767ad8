SPECIFICATION FairSpec
CONSTANTS
  MaxTransfer = 3
  MaxRepeat = 1
  MaxFault = 2
INVARIANTS
  OutcomeHolds
PROPERTIES
  ReceiptsTellTheState
  CommandsAnswered
CHECK_DEADLOCK FALSE
