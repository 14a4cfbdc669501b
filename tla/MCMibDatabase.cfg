\* Nine directories, every order of modules and definitions.
CONSTANTS
  Modules <- MCModules
  Builtin = "builtin"
  Names <- MCNames
  Iso = "iso"
  NoName = "-"
  NoDefinition = NoDefinition
  Directories <- MCDirectories
SPECIFICATION FairSpec
INVARIANTS DatabaseInv OidsConsistent CorrectIsIndexed IndexIsRight
PROPERTY IndexingEnds
CHECK_DEADLOCK FALSE
