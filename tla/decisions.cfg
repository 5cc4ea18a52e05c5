SPECIFICATION Spec
CONSTANTS
  Files <- SomeFiles
  Callers <- SomeCallers
  Tools <- SomeTools
  Names <- SomeNames
  Default <- D
  Characters = {"a", "b", "d", "x", "_"}
  Star = "*"
  Underscore = "_"
  None = None
INVARIANTS DenyOverrides    PatternsAreGlobs
CHECK_DEADLOCK FALSE
