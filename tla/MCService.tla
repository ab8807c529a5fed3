----------------------------- MODULE MCService ------------------------------
(***************************************************************************)
(* Three requests: accounts that are created, paid by the seed, pay it     *)
(* back, and look up what they paid; two accounts and two tokens, so that  *)
(* a request may carry another account's token.                            *)
(***************************************************************************)
EXTENDS Service, TLC

CONSTANTS i1, i2, i3, a1, a2, k1, k2, t1, t2, t3

MCCalls == {i1, i2, i3}
MCToken == {k1, k2}
MCTransactionId == {t1, t2, t3}

\* The account and the token of a request may go together or not.
MCRequests ==
  {[type |-> "create_account"]}
  \cup [type : {"create_transaction"}, account_id : {a1}, token : {k1}, receiver : {Seed},
        amount : {1}]
  \cup [type : {"get_transaction"}, account_id : {a1}, token : {k1}, transaction_id : {t1}]

MCSymmetry == Permutations(MCCalls) \cup Permutations({t2, t3})
=============================================================================
