SPECIFICATION ServerSpec
CONSTANTS
  Requests = {r1, r2}
  Messages <- MCMessages
  Queries <- MCQueries
  q1 = q1
  q2 = q2
  bad = bad
  Valid = {q1, q2}
  CacheSize = 1
  Null = Null
  MAX_RETRIES = 2
  Storages <- MCStorages
  Modes <- MCModes
  MaxBoots = 2
INVARIANTS
  TypeOK
  ServerTypeOK
  AppliedOnce
  ReplyTruthful
  NoHandleLeak
  StatementsMatch
  ReadyWhenUsed
  InitTransactionOver
PROPERTY
  ServedRequestsAnswered
\* Every request is answered and the system is at rest.
CHECK_DEADLOCK FALSE
