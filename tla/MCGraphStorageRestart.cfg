SPECIFICATION Spec
CONSTANTS
  Person = Person
  City = City
  Labels = {Person}
  NoLabel = NoLabel
  Keys = {age}
  one = one
  one_point_zero = one_point_zero
  word = word
  num1 = num1
  str = str
  Values <- MCValues
  NoValue = NoValue
  Codes <- MCCodes
  Encode <- MCEncode
  Types = {KNOWS}
  Absent = Absent
  Tombstone = Tombstone
  MaxId = 3
  BATCH = 2
  MaxOps = 4
  MaxRestarts = 1
INVARIANT NodeEdgeIdsDisjoint
