\* An int of two bytes; values of all types, of up to 1281 bytes, one or two at a time.
CONSTANTS
  IntBytes = 2
  Plans <- MCPlans
SPECIFICATION Spec
INVARIANTS RoundTrip Aligned
CHECK_DEADLOCK FALSE
