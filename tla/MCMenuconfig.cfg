SPECIFICATION Spec
CONSTANTS
  ConstSymbols = {"y","m","n"}
  Statements <- MCStatements
  Environment <- MCEnv
  Text <- MCText
  Trees <- Shapes
  Parse <- conf_parse
  Files <- MCFiles
  Inputs <- MCInputs
  MaxKeys = 2
  Types <- MCTypes
  Parts <- MCParts
  MaxParts = 2
  Menus <- MCMenus
  Letters <- MCLetters
  Heights = {0, 1, 2, 3}
  Lists <- MCLists
  ListHeights = {1, 2, 3}
  Texts <- MCTexts
  BoxHeights = {1, 2, 3}
  MAX_LEN = 2
  Chars = {"a"}
  Inits <- MCInits
  BoxWidths = {2, 3}
  MAX_INPUT = 5
  Contents <- MCContents
  MaxDeps = 2
\* mconf ends when the user leaves it, no expression is built for ever, and
\* fixdep ends
CHECK_DEADLOCK FALSE
INVARIANTS AsDeclared AllOffered  
PROPERTY DialogsTruthful
