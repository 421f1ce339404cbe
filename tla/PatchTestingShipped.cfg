SPECIFICATION Spec
CONSTANTS
  source = source
  test = test
  Files <- MCFiles
  HiddenNames <- MCHiddenNames
  MaxCommands = 1
  Texts <- MCShippedTexts
  Prints <- MCPrints
CHECK_DEADLOCK FALSE
INVARIANT TestsKeepTheirMeaning
