SPECIFICATION Spec
CONSTANTS
  Upper <- MCUpper
  Lower <- MCLower
  KeyOrder <- MCKeyOrder
  KeyText <- MCKeyText
  Chars <- MCChars
  Maps <- MCMaps
  Values <- MCValues
  Trees <- MCTrees
  FirstTrees <- MCFirst
  None = None
  Idle = Idle
  Rejected = Rejected
  MaxTokens = 60
  MaxQueries = 3
INVARIANTS
  TypeOK
  NothingDropped
  UnderstoodAsWritten
  ReadersAgree
  TemplateFaithful
PROPERTIES
  TemplatesUntouched
  PropsSpec
\* The bound on the queries is reached.
CHECK_DEADLOCK FALSE
