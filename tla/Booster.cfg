SPECIFICATION BoosterSpec
CONSTANTS
  right = right
  wrong = wrong
  shaky = shaky
  prose = prose
  Texts = {right, wrong, shaky, prose}
  NoText = NoText
  Patches = {right, wrong, shaky}
  Right = {right}
  Verdicts <- MCVerdicts
  Tasks <- Task
  Plans <- MCPlans
  MaxCandidates = 3
  MaxRepairAttempts = 2
CHECK_DEADLOCK FALSE
INVARIANTS
  SelectionIsVerified
  FirstWeakAreRepaired
