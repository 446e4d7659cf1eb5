SPECIFICATION FairSpec
CONSTANTS
  Programs <- MCPrograms
  NoSlot <- MCNoSlot
  Slots = {1, 2}
  PortCapacity = 1
  L2Units = 2
  StartMode = 0
  IssueWidth = 2
  PendingCapacity = 2
  MaxOutstanding = 2
  CompletionCapacity = 2
  NoFault = NoFault
INVARIANTS NoInternalError NoMissedWakeup OutcomeIsTrue
PROPERTIES Terminates
CHECK_DEADLOCK FALSE
