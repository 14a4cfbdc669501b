\* Two tokens in the queue, and three calls of a definition at once.
CONSTANTS
  Ahead = 1
  Limit = 3
  Types <- MCTypes
  Texts <- MCTexts
SPECIFICATION FairSpec
INVARIANTS MacroInv ReadAsMeant SameAgain
PROPERTY ReadingEnds
CHECK_DEADLOCK FALSE
