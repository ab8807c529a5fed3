SPECIFICATION FairSpec
CONSTANTS
  r1 = r1
  r2 = r2
  r3 = r3
  a1 = a1
  t1 = t1
  t2 = t2
  Seed = Seed
  NoRun = NoRun
  NoAccount = NoAccount
  NoCall = NoCall
  SeedFunds = 2
  Minimum = 0
  Limit = 1
  Calls = {1, 2, 3, 4, 5}
  Runs <- MCRuns
  Transfers <- MCTransfers
  Receiver <- MCReceiver
  Amount <- MCAmount
  AccountId <- MCAccountId
  TransactionId <- MCTransactionId
INVARIANTS
  PaidOncePerRun
  OneInDoubt
  FinishedMeansAnswered
PROPERTY
  EveryRunEnds
\* The specification stops when every run has ended and every transaction id is used.
CHECK_DEADLOCK FALSE
