\* Two pings of every kind of list, with two packets in a socket; three hosts and
\* two goroutines for the exporter filter: every interleaving of their appends.
CONSTANTS
  Kind = "http"
  Jobs = {j1, j2, j3}
  Workers = {w1, w2}
  None = None
  Pings = {p1, p2}
  p1 = p1
  Addresses = {a, b, self}
  Self = self
  Lists <- MCLists
  MaxInbox = 2
  Unjudged = None
SPECIFICATION MCSpec
INVARIANTS AnswerExact NoCrossTalk Truthful
PROPERTIES CallEnds ImplementsContract
CHECK_DEADLOCK FALSE
