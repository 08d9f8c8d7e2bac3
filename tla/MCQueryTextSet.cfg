SPECIFICATION Spec
CONSTANTS
  Upper <- MCUpper
  Lower <- MCLower
  KeyOrder <- MCKeyOrder
  KeyText <- MCKeyText
  Chars <- MCChars
  Maps <- MCKeyMaps
  Values <- MCKeyValues
  Trees <- MCKeyTrees
  FirstTrees = {}
  None = None
  Idle = Idle
  Rejected = Rejected
  MaxTokens = 60
  MaxQueries = 2
INVARIANT
  LookupFindsPattern
\* The bound on the queries is reached.
CHECK_DEADLOCK FALSE
