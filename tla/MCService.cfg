SPECIFICATION Spec
CONSTANTS
  i1 = i1
  i2 = i2
  i3 = i3
  a1 = a1
  a2 = a2
  k1 = k1
  k2 = k2
  t1 = t1
  t2 = t2
  t3 = t3
  Seed = Seed
  Nothing = Nothing
  SeedFunds = 2
  AccountId = {Seed, a1, a2}
  Token <- MCToken
  TransactionId <- MCTransactionId
  Calls <- MCCalls
  Requests <- MCRequests
SYMMETRY MCSymmetry
INVARIANTS
  HoldersSpend
  AnswersTellTheTruth
  TypeOK
PROPERTY
  ReceiptsAreHonoured
