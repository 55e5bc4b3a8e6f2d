SPECIFICATION RowSpec
CONSTANTS
  Messages = {m1}
  Changes = {d1}
  MaxVersion = 4
INVARIANT
  NoWriteIsLost
CHECK_DEADLOCK FALSE
