SPECIFICATION Spec
CONSTANTS
  c1 = c1
  c2 = c2
  a1 = a1
  a2 = a2
  t1 = t1
  t2 = t2
  Seed = Seed
  NoCore = NoCore
  NoId = NoId
  SeedFunds = 3
  MaxTime = 1
  Cores <- MCCores
  AccountId <- MCAccountId
  TransactionId <- MCTransactionId
  Requests <- MCRequests
SYMMETRY MCSymmetry
INVARIANTS
  TypeOK
  OkMeansCommitted
  TransactionIntegrity
  BalanceSheetAddsUp
  HistoryIsCommitted
PROPERTIES
  ImplementsBank
  TimestampsInCommitOrder
  ReceiptIsExact
