SPECIFICATION LiveSpec
CONSTANTS
  e1 = e1
  e2 = e2
  c1 = c1
  Exposures = {e1, e2}
  Contracts = {c1}
  ContractOf <- MCContractOf
  Horizon <- MCHorizon
  MaxTime = 3
  MaxReplies = 1
  MaxFaults = 1
  MaxFits = 1
INVARIANTS
  LabelTypeOK
  LedgerFollowsItsSource
  SettledInFull
PROPERTIES
  RevisionsInOrder
  WindowsAreSettled
