SPECIFICATION FairSpec
CONSTANTS
  Servers = {a, b}
  Workers = {w1, w2}
  MaxProbes = 2
  MaxCbuf = 2
INVARIANT ProbeInv
PROPERTY ProbesDoNotOverlap
PROPERTY GoesWhereAsked
PROPERTY AbortEndsInTime
CHECK_DEADLOCK FALSE
