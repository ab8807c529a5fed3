SPECIFICATION Spec
CONSTANTS
  g1 = g1
  g2 = g2
  gateway = gateway
  m1 = m1
  m2 = m2
  m3 = m3
  k1 = k1
  k2 = k2
  NoCall = NoCall
  NoCore = NoCore
  NoFile = NoFile
  Stale = Stale
  MaxMillis = 1
  QueueLimit = 1
  Threads <- MCThreads
  Processes <- MCProcesses
  ProcessOf <- MCProcessOf
  Calls <- MCCalls
  Cores <- MCCores
SYMMETRY MCSymmetry
INVARIANTS
  TypeOK
  AnswersMatch
  AnsweredCallsCleanUp
PROPERTY
  ImplementsRpc
