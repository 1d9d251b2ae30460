SPECIFICATION FairSpec
CONSTANTS
  Paths <- TwoPaths
  Pieces <- Names
  Chunks <- TwoChunks
  Contents <- SomeContents
  Separators = {comma}
  Networks = {"joined"}
  Window = 4
  Message = Message
  Absent = Absent
  d = d
  f = f
  g = g
  x = x
  comma = comma
\* Both ends wait for ever when a header arrives joined.
CHECK_DEADLOCK FALSE
PROPERTY SessionEnds
