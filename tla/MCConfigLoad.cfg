\* Two and three sources, ten lists of targets.
CONSTANTS
  Names <- MCNames
  NoName = "-"
  Numbered <- MCNumbered
  Configurations <- MCConfigurations
SPECIFICATION Spec
INVARIANTS LoadInv RunnableGraph FedByRoot SoundIsAccepted
CHECK_DEADLOCK FALSE
