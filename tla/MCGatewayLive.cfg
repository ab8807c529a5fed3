SPECIFICATION FairSpec
CONSTANTS
  t1 = t1
  t2 = t2
  a1 = a1
  a2 = a2
  k1 = k1
  k2 = k2
  Seed = Seed
  NoAccount = NoAccount
  NoToken = NoToken
  Garbled = Garbled
  Lifetime = 1
  MaxTime = 0
  Threads <- MCThreads
  AccountId <- MCAccountId
  Token = {k1}
  Hash = {k1}
  Digest <- MCDigestOne
  Requests <- MCLockRequests
PROPERTY
  EveryRequestAnswered
