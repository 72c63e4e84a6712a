SPECIFICATION Spec
CONSTANTS
  Loads = {1, 2}
  MaxChanges = 1
  MaxTyped = 2
  MaxFaults = 2
INVARIANTS TypeOK OneSource TicketsAreOneUse
PROPERTIES StreamComesBack ShownCatchesUp
