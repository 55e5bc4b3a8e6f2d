SPECIFICATION LiveSpec
CONSTANTS
  Operators = {o1}
  LiveEnabled = "yes"
  MaxRounds = 2
  MaxSwitches = 5
INVARIANTS
  DispatchTypeOK
  QuietWhenFrozen
  DispatchedOrRefused
  NewCodeOnly
PROPERTY
  DrainsInTheEnd
