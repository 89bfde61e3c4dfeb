SPECIFICATION Spec
PROPERTY AskingEnds
CONSTANTS
  ConstSymbols <- MCConst
  Statements <- MCStatements
  Environment <- MCEnvironment
  Text <- MCText
  Sources = {"K1", "K2", "K3"}
  Parse <- conf_parse
  Strings <- MCStrings
  MaxRuns = 2
  AskAll = {0}
  MaxEdits = 1
  Edited = {3}
CHECK_DEADLOCK FALSE
INVARIANTS
  
  ConfigKept
  FreshValues
