----------------------------- MODULE MCStipend ------------------------------
(***************************************************************************)
(* A stipend and a transfer of one coin each and a transfer of too much, a *)
(* seed with two coins and one other account, which need not exist.        *)
(***************************************************************************)
EXTENDS Stipend

CONSTANTS r1, r2, r3, a1, t1, t2

MCRuns == {r1, r2, r3}
MCTransfers == {r2, r3}
MCReceiver == [r \in MCTransfers |-> a1]
MCAmount == [r \in MCRuns |-> IF r = r3 THEN 2 ELSE 1]
MCAccountId == {Seed, a1}
MCTransactionId == {t1, t2}
=============================================================================
