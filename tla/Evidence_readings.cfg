SPECIFICATION Spec
CONSTANTS
  MaxId = 4
  Bound = 2
  PageSize = 1
  MaxPages = 3
  MaxChanges = 3
INVARIANTS ReadingIsASnapshot PermanentHolderIsSeen ConsistentWasOurs IdleWasIdle BusyIsDrainedFirst OfferedIsAdopted
CHECK_DEADLOCK FALSE
