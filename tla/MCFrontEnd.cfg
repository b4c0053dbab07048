CONSTANTS
  OlderTrees <- AllTrees
  ParsedTrees <- MCParsedTrees
  Words <- AllWords
  CommandLines <- Lines
  Sources <- Readable
  Globals = {"g"}
  Params <- MCParams
  Locals = {"v"}
  LoopConditions = {"int"}
  MaxStack = 3
SPECIFICATION MCSpec
CHECK_DEADLOCK FALSE
INVARIANTS
  NoAssertionFails
  TypesAgree
  FilesKept
  RestInTree
  AllFreed
  AstComplete
