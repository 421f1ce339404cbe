SPECIFICATION AskedSpec
CONSTANTS
  f = f
  g = g
  Allowed <- MCAllowed
  Unknown = unknown
  Placeholder = placeholder
  Mappings <- MCMappings
  Providers = {"chat", "responses"}
  MaxTexts = 2
  Counters = {"count", "negative"}
CHECK_DEADLOCK FALSE
INVARIANTS
  RepliesAreReturned
  AnswersAreUsed
  WrittenPatchIsPreferred
