SPECIFICATION Spec
CONSTANTS
  Queries = {q1, q2, q3, q4}
  Statements = {s1, s2}
  Null = Null
  MaxSize = 3
  Nodes = {n1, n2, n3, n4}
INVARIANTS
  TypeOK
  IteratorsValid
PROPERTY ImplementsLru
