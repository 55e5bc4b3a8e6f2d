SPECIFICATION Spec
CONSTANTS
  MaxAttempts = 1
  NumAttempts = 2
  NumRows = 4
  Owners = {w1}
  NoOwner = NoOwner
  MaxClaims = 1
  SilenceCloses = TRUE
INVARIANT
  EveryAttemptIsReconciled
