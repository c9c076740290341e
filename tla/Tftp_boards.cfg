\* Two boards ask at any time; datagrams are lost, late and sent again, and one
\* file has more blocks than can be numbered.
SPECIFICATION FairSpec
CONSTANTS
  c1 = c1
  c2 = c2
  Clients = {c1, c2}
  MaxSize = 3
  MaxBlock = 2
  MaxAsks = 3
  MaxResends = 1
  Lossy = TRUE
  Slow = TRUE
INVARIANTS TypeOK ChunksAccounted
PROPERTIES FilesArrive ServerComesBack
CHECK_DEADLOCK FALSE
