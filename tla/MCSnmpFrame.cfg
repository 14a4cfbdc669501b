\* An int of two bytes; five messages, lengths in one to three bytes.
CONSTANTS
  IntBytes = 2
  Sendings <- MCSendings
SPECIFICATION Spec
INVARIANTS FrameInv WholeIsDecoded ReadOnce
CHECK_DEADLOCK FALSE
