----------------------------- MODULE BankProofs -----------------------------
(***************************************************************************)
(* Bank's invariants hold for every set of accounts, every circulation and *)
(* every number of transactions.                                           *)
(***************************************************************************)
EXTENDS Bank, TotalsProofs

\* The inductive invariant.  Conservation is inductive once the tables are known
\* to be finite columns of naturals; Audit also needs LedgerPartiesExist, which
\* says that the ledger never mentions an account that does not exist yet.
BankInv ==
  /\ TypeOK
  /\ IsFiniteSet(DOMAIN accounts) /\ IsFiniteSet(DOMAIN ledger)
  /\ Conservation
  /\ Audit
  /\ LedgerPartiesExist

LEMMA EmptyTotal == Total(EmptyTable) = 0
<1>1. Coins(EmptyTable) = {}
  BY DEF Coins, EmptyTable
<1>2. QED
  BY <1>1, FS_EmptySet DEF Total

\* The amounts of a set of rows of a finite ledger are a column.
LEMMA AmountsColumn ==
  ASSUME BankInv, NEW rows \in SUBSET DOMAIN ledger
  PROVE  Column(Amounts(rows))
<1>1. IsFiniteSet(rows)
  BY FS_Subset DEF BankInv
<1>2. \A t \in rows : ledger[t].amount \in Nat
  BY DEF BankInv, TypeOK, IsTable, Entry
<1>3. QED
  BY <1>1, <1>2 DEF Column, Amounts

-----------------------------------------------------------------------------
\* What one recorded transfer adds to the sums of each account.
LEMMA RecordedSums ==
  ASSUME BankInv, NEW t \in TransactionId, NEW s \in AccountId, NEW r \in AccountId,
         NEW n \in Nat \ {0}, Record(t, s, r, n), NEW a
  PROVE  /\ Total(Amounts(SentBy(a)))' =
              Total(Amounts(SentBy(a))) + (IF a = s THEN n ELSE 0)
         /\ Total(Amounts(ReceivedBy(a)))' =
              Total(Amounts(ReceivedBy(a))) + (IF a = r THEN n ELSE 0)
<1> DEFINE row == [sender_account_id |-> s, receiver_account_id |-> r, amount |-> n]
<1>1. /\ t \notin DOMAIN ledger
      /\ DOMAIN ledger' = DOMAIN ledger \cup {t}
      /\ ledger'[t] = row
      /\ \A u \in DOMAIN ledger : ledger'[u] = ledger[u]
  BY DEF Record, Put
<1>2. /\ SentBy(a) \subseteq DOMAIN ledger
      /\ ReceivedBy(a) \subseteq DOMAIN ledger
  BY DEF SentBy, ReceivedBy
<1>3. Column(Amounts(SentBy(a))) /\ Column(Amounts(ReceivedBy(a)))
  BY <1>2, AmountsColumn
<1>4. Total(Amounts(SentBy(a))) \in Nat /\ Total(Amounts(ReceivedBy(a))) \in Nat
  BY <1>3, CoinsFinite
<1>5. Total(Amounts(SentBy(a)))' = Total(Amounts(SentBy(a))) + (IF a = s THEN n ELSE 0)
  <2>1. CASE a = s
    <3>1. SentBy(a)' = SentBy(a) \cup {t}
      BY <1>1, <2>1 DEF SentBy
    <3>2. Amounts(SentBy(a))' = Put(Amounts(SentBy(a)), t, n)
      BY <1>1, <1>2, <3>1 DEF Amounts, Put
    <3>3. t \notin DOMAIN Amounts(SentBy(a))
      BY <1>1, <1>2 DEF Amounts
    <3>4. Total(Put(Amounts(SentBy(a)), t, n)) = Total(Amounts(SentBy(a))) + n
      BY <1>3, <3>3, TotalPut
    <3>5. QED
      BY <2>1, <3>2, <3>4
  <2>2. CASE a # s
    <3>1. SentBy(a)' = SentBy(a)
      BY <1>1, <2>2 DEF SentBy
    <3>2. Amounts(SentBy(a))' = Amounts(SentBy(a))
      BY <1>1, <1>2, <3>1 DEF Amounts
    <3>3. QED
      BY <1>4, <2>2, <3>2
  <2>3. QED
    BY <2>1, <2>2
<1>6. Total(Amounts(ReceivedBy(a)))' =
        Total(Amounts(ReceivedBy(a))) + (IF a = r THEN n ELSE 0)
  <2>1. CASE a = r
    <3>1. ReceivedBy(a)' = ReceivedBy(a) \cup {t}
      BY <1>1, <2>1 DEF ReceivedBy
    <3>2. Amounts(ReceivedBy(a))' = Put(Amounts(ReceivedBy(a)), t, n)
      BY <1>1, <1>2, <3>1 DEF Amounts, Put
    <3>3. t \notin DOMAIN Amounts(ReceivedBy(a))
      BY <1>1, <1>2 DEF Amounts
    <3>4. Total(Put(Amounts(ReceivedBy(a)), t, n)) = Total(Amounts(ReceivedBy(a))) + n
      BY <1>3, <3>3, TotalPut
    <3>5. QED
      BY <2>1, <3>2, <3>4
  <2>2. CASE a # r
    <3>1. ReceivedBy(a)' = ReceivedBy(a)
      BY <1>1, <2>2 DEF ReceivedBy
    <3>2. Amounts(ReceivedBy(a))' = Amounts(ReceivedBy(a))
      BY <1>1, <1>2, <3>1 DEF Amounts
    <3>3. QED
      BY <1>4, <2>2, <3>2
  <2>3. QED
    BY <2>1, <2>2
<1>7. QED
  BY <1>5, <1>6

-----------------------------------------------------------------------------
\* Inserting an account that the ledger does not mention, with its endowment.
LEMMA AccountInserted ==
  ASSUME BankInv, NEW a \in AccountId, a \notin DOMAIN accounts,
         accounts' = Put(accounts, a, Endowment(a)), UNCHANGED ledger
  PROVE  BankInv'
<1> USE BankAssumption
<1>1. Endowment(a) \in Nat
  BY DEF Endowment
<1>2. /\ DOMAIN accounts' = DOMAIN accounts \cup {a}
      /\ accounts'[a] = Endowment(a)
      /\ \A b \in DOMAIN accounts : accounts'[b] = accounts[b]
  BY DEF Put
<1>3. Column(accounts)
  BY DEF BankInv, TypeOK, IsTable, Column
<1>4. TypeOK'
  BY <1>1, <1>2 DEF BankInv, TypeOK, IsTable, Put
<1>5. IsFiniteSet(DOMAIN accounts') /\ IsFiniteSet(DOMAIN ledger')
  BY <1>2, FS_AddElement DEF BankInv
<1>6. Conservation'
  <2>1. Total(accounts') = Total(accounts) + Endowment(a)
    BY <1>1, <1>3, TotalPut
  <2>2. Total(accounts) = Circulation
    BY DEF BankInv, Conservation
  <2>3. Circulation' = Circulation + Endowment(a)
    BY <1>2 DEF Circulation, Endowment
  <2>4. QED
    BY <2>1, <2>2, <2>3 DEF Conservation
<1>7. Audit'
  <2>1. \A b : SentBy(b)' = SentBy(b) /\ ReceivedBy(b)' = ReceivedBy(b)
    BY DEF SentBy, ReceivedBy
  <2>2. \A rows : Amounts(rows)' = Amounts(rows)
    BY DEF Amounts
  <2>3. SentBy(a) = {} /\ ReceivedBy(a) = {}
    BY DEF SentBy, ReceivedBy, BankInv, LedgerPartiesExist
  <2>4. Amounts({}) = EmptyTable
    BY DEF Amounts, EmptyTable
  <2>5. SUFFICES ASSUME NEW b \in DOMAIN accounts'
                 PROVE  accounts'[b] + Total(Amounts(SentBy(b))) =
                          Endowment(b) + Total(Amounts(ReceivedBy(b)))
    BY <2>1, <2>2 DEF Audit, Endowment
  <2>6. CASE b = a
    BY <1>2, <2>3, <2>4, <2>6, EmptyTotal
  <2>7. CASE b # a
    BY <1>2, <2>7 DEF BankInv, Audit
  <2>8. QED
    BY <2>6, <2>7
<1>8. LedgerPartiesExist'
  BY <1>2 DEF BankInv, LedgerPartiesExist
<1>9. QED
  BY <1>4, <1>5, <1>6, <1>7, <1>8 DEF BankInv

LEMMA TransferKeepsInv ==
  ASSUME BankInv, NEW t \in TransactionId, NEW s \in AccountId, NEW r \in AccountId,
         NEW n, Transfer(t, s, r, n)
  PROVE  BankInv'
<1>1. /\ s \in DOMAIN accounts /\ r \in DOMAIN accounts /\ s # r
      /\ n \in 1..accounts[s]
      /\ accounts' = [accounts EXCEPT ![s] = accounts[s] - n, ![r] = accounts[r] + n]
      /\ Record(t, s, r, n)
  BY DEF Transfer
<1>2. Column(accounts)
  BY DEF BankInv, TypeOK, IsTable, Column
<1>3. accounts[s] \in Nat /\ accounts[r] \in Nat /\ n \in Nat \ {0} /\ n \in 0..accounts[s]
  BY <1>1, <1>2 DEF Column
<1>4. Column(accounts') /\ Total(accounts') = Total(accounts)
  <2>1. Moved(accounts, accounts', s, r, n)
    BY <1>1 DEF Moved
  <2>2. n \in Nat /\ n <= accounts[s]
    BY <1>3
  <2>3. QED
    BY <1>1, <1>2, <2>1, <2>2, TotalMove
<1>5. DOMAIN accounts' = DOMAIN accounts
  BY <1>1
<1>6. /\ DOMAIN ledger' = DOMAIN ledger \cup {t}
      /\ ledger'[t] = [sender_account_id |-> s, receiver_account_id |-> r, amount |-> n]
      /\ \A u \in DOMAIN ledger : ledger'[u] = ledger[u]
      /\ ledger' = [u \in DOMAIN ledger' |-> ledger'[u]]
  BY <1>1 DEF Record, Put
<1>7. TypeOK'
  <2>1. IsTable(accounts, AccountId, Nat)'
    BY <1>4, <1>5 DEF BankInv, TypeOK, IsTable, Column
  <2>2. IsTable(ledger, TransactionId, Entry)'
    BY <1>3, <1>6 DEF BankInv, TypeOK, IsTable, Entry
  <2>3. QED
    BY <2>1, <2>2 DEF TypeOK
<1>8. IsFiniteSet(DOMAIN accounts') /\ IsFiniteSet(DOMAIN ledger')
  BY <1>5, <1>6, FS_AddElement DEF BankInv
<1>9. Conservation'
  BY <1>4, <1>5 DEF BankInv, Conservation, Circulation
<1>10. Audit'
  <2>1. SUFFICES ASSUME NEW a \in DOMAIN accounts
                 PROVE  accounts'[a] + Total(Amounts(SentBy(a)))' =
                          Endowment(a) + Total(Amounts(ReceivedBy(a)))'
    BY <1>5 DEF Audit, Endowment
  <2>2. /\ Total(Amounts(SentBy(a)))' =
             Total(Amounts(SentBy(a))) + (IF a = s THEN n ELSE 0)
        /\ Total(Amounts(ReceivedBy(a)))' =
             Total(Amounts(ReceivedBy(a))) + (IF a = r THEN n ELSE 0)
    BY <1>1, <1>3, RecordedSums
  <2>3. accounts'[a] = accounts[a] + (IF a = r THEN n ELSE 0) - (IF a = s THEN n ELSE 0)
    BY <1>1, <1>2, <1>3 DEF Column
  <2>4. /\ Total(Amounts(SentBy(a))) \in Nat
        /\ Total(Amounts(ReceivedBy(a))) \in Nat
    BY AmountsColumn, CoinsFinite DEF SentBy, ReceivedBy
  <2>5. accounts[a] \in Nat /\ Endowment(a) \in Nat
    BY <1>2, BankAssumption DEF Column, Endowment
  <2>6. accounts[a] + Total(Amounts(SentBy(a))) = Endowment(a) + Total(Amounts(ReceivedBy(a)))
    BY DEF BankInv, Audit
  <2>7. QED
    BY <1>3, <2>2, <2>3, <2>4, <2>5, <2>6
<1>11. LedgerPartiesExist'
  BY <1>1, <1>5, <1>6 DEF BankInv, LedgerPartiesExist
<1>12. QED
  BY <1>7, <1>8, <1>9, <1>10, <1>11 DEF BankInv

-----------------------------------------------------------------------------
LEMMA InitInv == Init => BankInv
<1>1. SUFFICES ASSUME Init PROVE BankInv
  OBVIOUS
<1>2. accounts = EmptyTable /\ ledger = EmptyTable /\ DOMAIN EmptyTable = {}
  BY <1>1 DEF Init, EmptyTable
<1>3. TypeOK
  BY <1>2 DEF TypeOK, IsTable, EmptyTable
<1>4. Conservation
  BY <1>2, EmptyTotal DEF Conservation, Circulation
<1>5. QED
  BY <1>2, <1>3, <1>4, FS_EmptySet DEF BankInv, Audit, LedgerPartiesExist

LEMMA NextInv == BankInv /\ [Next]_vars => BankInv'
<1>1. SUFFICES ASSUME BankInv, [Next]_vars PROVE BankInv'
  OBVIOUS
<1>2. CASE CreateSeedAccount
  BY <1>1, <1>2, BankAssumption, AccountInserted DEF CreateSeedAccount, Endowment
<1>3. ASSUME NEW a \in AccountId \ {Seed}, CreateAccount(a)
      PROVE  BankInv'
  BY <1>1, <1>3, AccountInserted DEF CreateAccount, Endowment
<1>4. ASSUME NEW t \in TransactionId, NEW s \in AccountId, NEW r \in AccountId,
             NEW n, Transfer(t, s, r, n)
      PROVE  BankInv'
  BY <1>1, <1>4, TransferKeepsInv
<1>5. CASE UNCHANGED vars
  BY <1>1, <1>5 DEF vars, BankInv, TypeOK, Conservation, Circulation, Audit, Amounts,
                    SentBy, ReceivedBy, Endowment, LedgerPartiesExist
<1>6. QED
  BY <1>1, <1>2, <1>3, <1>4, <1>5 DEF Next

LEMMA BankInvariant == Spec => []BankInv
  BY InitInv, NextInv, PTL DEF Spec

\* Funds are naturals and amounts positive in every state of the bank.
THEOREM BankTypeOK == Spec => []TypeOK
<1>1. BankInv => TypeOK
  BY DEF BankInv
<1>2. QED
  BY <1>1, BankInvariant, PTL

\* No coin is made or lost after the seed account is created, however many
\* accounts and transfers there are.
THEOREM BankConservation == Spec => []Conservation
<1>1. BankInv => Conservation
  BY DEF BankInv
<1>2. QED
  BY <1>1, BankInvariant, PTL

\* The balances can always be recomputed from the ledger.
THEOREM BankAudit == Spec => []Audit
<1>1. BankInv => Audit
  BY DEF BankInv
<1>2. QED
  BY <1>1, BankInvariant, PTL

\* A ledger row always names two different accounts that exist.
THEOREM BankLedgerParties == Spec => []LedgerPartiesExist
<1>1. BankInv => LedgerPartiesExist
  BY DEF BankInv
<1>2. QED
  BY <1>1, BankInvariant, PTL
=============================================================================
