SPECIFICATION Spec
CONSTANTS
  source = source
  test = test
  Files <- MCFiles
  HiddenNames <- MCHiddenNames
  MaxCommands = 1
  Texts <- MCPlainTexts
  Prints <- MCMarkedPrints
CHECK_DEADLOCK FALSE
INVARIANT HiddenSourceStaysHidden
