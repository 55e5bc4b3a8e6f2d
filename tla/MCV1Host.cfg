SPECIFICATION V1LiveSpec
CONSTANTS
  MaxAttempts = 2
  NumAttempts = 1
  NumRows = 2
  Owners = {w1}
  NoOwner = NoOwner
  MaxClaims = 3
  SilenceCloses = TRUE
INVARIANTS
  TransmissionBudget
  ContactsWereMade
  LiveRowServesItsAttempt
PROPERTIES
  OnlyTranslates
  ClaimEndsAsItsHolderSays
  EveryAttemptEnds
