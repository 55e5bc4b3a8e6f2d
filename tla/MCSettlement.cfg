SPECIFICATION RoundSpec
CONSTANTS
  MaxAttempts = 2
  NumAttempts = 1
  NumRows = 2
  Owners = {w1}
  NoOwner = NoOwner
  MaxClaims = 3
  SilenceCloses = TRUE
INVARIANTS
  BooksTypeOK
  BooksAgree
PROPERTY
  KeepsTheBooks
