SPECIFICATION FairSpec
CONSTANTS
  c1 = c1
  c2 = c2
  a1 = a1
  a2 = a2
  t1 = t1
  t2 = t2
  Seed = Seed
  NoCore = NoCore
  NoId = NoId
  SeedFunds = 3
  MaxTime = 0
  Cores <- MCCores
  AccountId = {Seed, a1}
  TransactionId = {t1}
  Requests <- MCLiveRequests
PROPERTY
  EveryRequestAnswered
