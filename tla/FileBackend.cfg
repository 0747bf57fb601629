SPECIFICATION FairSpec
CONSTANTS
  Readers = {r1, r2}
  Cleaners = {c1}
  MaxSize = 3
  BufSize = 2
INVARIANTS TypeOK ReadsWhole
PROPERTIES ReadersEnd CleanEnds
CHECK_DEADLOCK FALSE
