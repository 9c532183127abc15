SPECIFICATION FairSpec
CONSTANTS
  p1 = p1  p2 = p2
  user = user  log = log  tmp_user = tmp_user
  name = name  age = age  xxx = xxx
  Procs = {p1, p2}
  Txs = {1, 2}
  Models <- ModelsDef
  Tables <- TablesDef
  Columns <- ColumnsDef
  Fields <- FieldsDef
  OldTables <- OldTablesDef
  Migrated = user
  Tmp = tmp_user
  MaxCalls <- MaxCallsDef
  NoTable = NoTable
  None = None
CHECK_DEADLOCK FALSE
INVARIANT
  ResultTells
PROPERTIES
  ImplementsAtomicDb StatementAsChained MigrateWhole TransactionEnds
