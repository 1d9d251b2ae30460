SPECIFICATION FairSpec
CONSTANTS
  Paths <- TwoPaths
  Pieces <- Names
  Chunks <- TwoChunks
  Contents <- SomeContents
  Separators = {comma}
  Networks = {"whole", "joined", "split"}
  Window = 4
  Message = Message
  Absent = Absent
  d = d
  f = f
  g = g
  x = x
  comma = comma
\* Both ends wait for ever when a header arrives joined or split.
CHECK_DEADLOCK FALSE
INVARIANTS TypeOK OutcomeTruthful
PROPERTIES OnlyItsPath WholeSessionEnds
