\* A statement whose parameters sqlite3 cannot bind, in a batch of two.
SPECIFICATION SqlSpec
CONSTANTS
  p = p
  SqlProcs = {p}
  SqlLists <- MCLists
  SelfEnding = {}
  MaxBatches = 2
  MaxBatchLen = 2
  MaxSqlCrashes = 1
  NoTxn = NoTxn
INVARIANT
  ReadsCommitted
CHECK_DEADLOCK FALSE
