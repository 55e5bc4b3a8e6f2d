SPECIFICATION LiveSpec
CONSTANTS
  MaxAttempts = 1
  NumAttempts = 2
  NumRows = 2
  Owners = {w1}
  NoOwner = NoOwner
  MaxClaims = 1
  SilenceCloses = TRUE
INVARIANTS
  OneRowPerKind
  TypeOK
  RowsEndWithTheirAttempt
  ContactAccounting
PROPERTIES
  HistoryIsKept
  
  
  NothingHangs
  SilenceEnds
