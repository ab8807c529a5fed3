SPECIFICATION Spec
CONSTANTS
  a1 = a1
  a2 = a2
  t1 = t1
  t2 = t2
  t3 = t3
  Seed = Seed
  SeedFunds = 3
  AccountId <- MCAccountId
  TransactionId <- MCTransactionId
SYMMETRY MCSymmetry
INVARIANTS
  TypeOK
  Conservation
  Audit
  LedgerPartiesExist
\* The specification stops when every transaction id is used.
CHECK_DEADLOCK FALSE
