\* Every kind of plugin, one or two settings changed.
CONSTANTS
  Names <- MCNames
  NoName = NoName
  Blank = ""
  Numbered <- MCNumbered
  Number = Number
  Null = Null
  Odd = Odd
  Glyph = "glyph"
  Right <- MCRight
  Files <- MCFiles
SPECIFICATION Spec
INVARIANTS PluginInv NothingIgnored
PROPERTY LoadsInOneStep
CHECK_DEADLOCK FALSE
