SPECIFICATION RoundSpec
CONSTANTS
  MaxAttempts = 2
  NumAttempts = 1
  NumRows = 2
  Owners = {w1}
  NoOwner = NoOwner
  MaxClaims = 2
  SilenceCloses = TRUE
INVARIANT
  LateSendIsBooked
