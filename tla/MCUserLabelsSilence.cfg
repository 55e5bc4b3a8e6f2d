SPECIFICATION Spec
CONSTANTS
  e1 = e1
  e2 = e2
  c1 = c1
  Exposures = {e1, e2}
  Contracts = {c1}
  ContractOf <- MCContractOf
  Horizon <- MCHorizon
  MaxTime = 3
  MaxReplies = 1
  MaxFaults = 0
  MaxFits = 0
PROPERTY
  OccurrenceStands
ACTION_CONSTRAINT
  Apart
