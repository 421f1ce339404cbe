SPECIFICATION Spec
CONSTANTS
  source = source
  test = test
  Files <- MCFiles
  HiddenNames <- MCHiddenNames
  MaxCommands = 2
  Texts <- MCTexts
  Prints <- MCPrints
CHECK_DEADLOCK FALSE
INVARIANTS
  PassIsEarned
  TestsKeepTheirMeaning
  FailureIsExplained
  HiddenSourceStaysHidden
