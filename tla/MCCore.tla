------------------------------- MODULE MCCore -------------------------------
(***************************************************************************)
(* Two cores on one database file, which serve every kind of request, good *)
(* and bad, and may crash and be restarted at any step.                    *)
(***************************************************************************)
EXTENDS Core, TLC

CONSTANTS c1, c2, a1, a2, t1, t2

MCCores == {c1, c2}
MCAccountId == {Seed, a1, a2}
MCTransactionId == {t1, t2}

Pay(s, r, n) ==
  [type |-> "CreateTransaction", sender_id |-> s, receiver_id |-> r, amount |-> n]

\* Transfers both ways, which would lose an update if their statements interleaved,
\* each error of save_transaction(), and each read.
MCRequests ==
  {[type |-> "CreateNewAccount"], [type |-> "GetAccounts"],
   [type |-> "GetAccount", account_id |-> a1],
   [type |-> "GetTransactions", account_id |-> a1, start |-> 0, end |-> 0],
   [type |-> "GetTransaction", account_id |-> a1, transaction_id |-> t1],
   Pay(Seed, a1, 2), Pay(a1, a2, 1), Pay(a2, Seed, 1),
   Pay(a1, Seed, 0), Pay(a1, Seed, -1), Pay(a1, a1, 1)}

\* Enough to compete for the lock, for the liveness run, which cannot use symmetry.
MCLiveRequests ==
  {[type |-> "CreateNewAccount"], [type |-> "GetAccounts"], Pay(Seed, a1, 2), Pay(a1, Seed, 1)}

MCSymmetry == Permutations(MCCores)
=============================================================================
