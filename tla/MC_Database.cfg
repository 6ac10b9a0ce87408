SPECIFICATION FairDatabaseSpec
CONSTANTS
  w1 = w1
  w2 = w2
  w3 = w3
  q1 = q1
  t1 = t1
  t2 = t2
  NoRequest = NoRequest
  NoValue = NoValue
  PoolSize = 2
  Threads = 2
  Injected <- MCInjected
  WriteRequests <- MCWriters
  ReadRequests <- MCReaders
  Tables <- MCTables
INVARIANTS
  ReadsOneState
  RefusedBeforeReading
PROPERTIES
  TransactionsAreAtomic
  EveryRequestEnds
CHECK_DEADLOCK FALSE
