SPECIFICATION PropSpec
CONSTANTS
  m1 = m1
  m2 = m2
  eval = eval
  refresh = refresh
  post = post
  delivery = delivery
  interview = interview
  trip = trip
  Messages = {m1, m2}
  Changes = {eval, delivery}
  MaxVersion = 5
  Kind <- MCKind
  Cites <- MCCites
  Retracted <- MCRetracted
  NewerLimit = 10
  Posts = {post}
  Subject <- MCSubject
  Settles <- MCSettles
  MaxReopened = 1
INVARIANTS
  PropTypeOK
  MessagesAreKept
  OneVerdictPerDispatch
  OneMatterPerSubject
PROPERTY
  OnlyTicksOverwrite
CHECK_DEADLOCK FALSE
