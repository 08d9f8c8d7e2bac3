SPECIFICATION Spec
CONSTANTS
  Person = Person
  KNOWS = KNOWS
  age = age
  name = name
  one = one
  one_point_zero = one_point_zero
  minus_one = minus_one
  minus_two = minus_two
  word = word
  blank = blank
  day1 = day1
  day2 = day2
  var_n = var_n
  var_m = var_m
  var_r = var_r
  Labels <- MCLabels
  NoLabel = NoLabel
  Keys <- MCKeys
  Values <- MCValues
  NoValue = NoValue
  Codes <- MCCodes
  Encode <- MCEncode
  Types = {KNOWS}
  Absent = Absent
  Tombstone = Tombstone
  Vars <- MCVars
  NoVar = NoVar
  Unbound = Unbound
  NoType = NoType
  Blank = blank
  Other = Other
  Half = 8
  Bits <- MCBits
  Rank <- MCRank
  Statements <- MCStatements
  MaxId = 8
  MaxQueries = 2
INVARIANTS
  IndexFollowsUpdates
\* A statement that needs more than MaxId ids stops, and so does the last one.
CHECK_DEADLOCK FALSE
