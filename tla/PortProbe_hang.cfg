SPECIFICATION FairSpec
CONSTANTS
  Servers = {a, b}
  Workers = {w1, w2}
  MaxProbes = 2
  MaxCbuf = 2
PROPERTY AbortEnds
CHECK_DEADLOCK FALSE
