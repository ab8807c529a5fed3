------------------------------- MODULE MCBank -------------------------------
(***************************************************************************)
(* Bank on a small instance: the seed and two more accounts, a circulation *)
(* of three coins, three transactions.                                     *)
(***************************************************************************)
EXTENDS Bank, TLC

CONSTANTS a1, a2, t1, t2, t3

MCAccountId == {Seed, a1, a2}
MCTransactionId == {t1, t2, t3}

\* Accounts other than the seed are interchangeable, and so are transaction ids.
MCSymmetry == Permutations({a1, a2}) \cup Permutations(MCTransactionId)
=============================================================================
