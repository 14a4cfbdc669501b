\* Two requests at once, the second with a client that may stop reading, answers of up to
\* two pieces, one target that is silent.
CONSTANTS
  Requests = {r1, r2}
  Targets = {exporter, dead}
  Silent = {dead}
  Stalled = {r2}
  MaxPieces = 2
SPECIFICATION FairSpec
INVARIANTS ProxyInv NoLeak
PROPERTY RequestEnds
CHECK_DEADLOCK FALSE
