-------------------------------- MODULE Bank --------------------------------
(***************************************************************************)
(* What CapyCoin's core promises about money, whatever happens around it:  *)
(* a fixed circulation that starts in the seed account and moves between   *)
(* accounts only by transfers, each recorded in the ledger in the same     *)
(* atomic step.  Core.tla, the statement-by-statement model of the core    *)
(* process, implements this specification.                                 *)
(***************************************************************************)
EXTENDS Totals

CONSTANTS
  AccountId,      \* account UUIDs
  Seed,           \* seed_account_id()
  SeedFunds,      \* what create_seed_account() puts into circulation
  TransactionId   \* transaction UUIDs

ASSUME BankAssumption == Seed \in AccountId /\ SeedFunds \in Nat

VARIABLES
  accounts,       \* account_id -> funds
  ledger          \* transaction_id -> who paid whom how much

vars == <<accounts, ledger>>

Entry == [sender_account_id : AccountId, receiver_account_id : AccountId,
          amount : Nat \ {0}]

Init == accounts = EmptyTable /\ ledger = EmptyTable

\* The first start of the core puts the whole circulation into the seed account.
CreateSeedAccount ==
  /\ Seed \notin DOMAIN accounts
  /\ accounts' = Put(accounts, Seed, SeedFunds)
  /\ UNCHANGED ledger

\* A mutant: new accounts are handed a coin.
CreateAccountWithGift(a) ==
  /\ a \notin DOMAIN accounts
  /\ accounts' = Put(accounts, a, 1)
  /\ UNCHANGED ledger

\* "When created, accounts have no funds": no money is made here.
CreateAccount(a) ==
  /\ a \notin DOMAIN accounts
  /\ accounts' = Put(accounts, a, 0)
  /\ UNCHANGED ledger

Record(t, s, r, n) ==
  /\ t \notin DOMAIN ledger
  /\ ledger' = Put(ledger, t, [sender_account_id   |-> s,
                               receiver_account_id |-> r,
                               amount              |-> n])

\* A mutant: sender and receiver are swapped in the ledger.
TransferMisrecorded(t, s, r, n) ==
  /\ s # r
  /\ {s, r} \subseteq DOMAIN accounts
  /\ n \in 1..accounts[s]
  /\ accounts' = [accounts EXCEPT ![s] = @ - n, ![r] = @ + n]
  /\ Record(t, r, s, n)

\* A mutant: the UPDATE of an absent receiver is not noticed.
TransferToNobody(t, s, r, n) ==
  /\ s # r
  /\ s \in DOMAIN accounts
  /\ n \in 1..accounts[s]
  /\ accounts' = [a \in DOMAIN accounts |->
                    accounts[a] + (IF a = r THEN n ELSE 0) - (IF a = s THEN n ELSE 0)]
  /\ Record(t, s, r, n)

\* A mutant: the funds check lets an account overdraw by one coin.
TransferOverdrawn(t, s, r, n) ==
  /\ s # r
  /\ {s, r} \subseteq DOMAIN accounts
  /\ n \in 1..(accounts[s] + 1)
  /\ accounts' = [accounts EXCEPT ![s] = @ - n, ![r] = @ + n]
  /\ Record(t, s, r, n)

\* Both balances and the ledger change together, or nothing does.
Transfer(t, s, r, n) ==
  /\ s # r
  /\ {s, r} \subseteq DOMAIN accounts
  /\ n \in 1..accounts[s]
  /\ accounts' = [accounts EXCEPT ![s] = @ - n, ![r] = @ + n]
  /\ Record(t, s, r, n)

Next ==
  \/ CreateSeedAccount
  \/ \E a \in AccountId \ {Seed} : CreateAccount(a)
  \/ \E t \in TransactionId, s, r \in AccountId :
       s \in DOMAIN accounts /\ \E n \in 1..(accounts[s] + 1) : Transfer(t, s, r, n)

Spec == Init /\ [][Next]_vars

-----------------------------------------------------------------------------
\* Funds are never negative and amounts always positive: the ranges the CHECK
\* clauses of both tables allow (account.rs create_accounts_table, ledger.rs
\* create_ledger_table).
TypeOK ==
  /\ IsTable(accounts, AccountId, Nat)
  /\ IsTable(ledger, TransactionId, Entry)

\* The coins that have entered circulation so far.
Circulation == IF Seed \in DOMAIN accounts THEN SeedFunds ELSE 0

\* Closed circulation (README.md, Economics): once the seed account exists, all
\* the accounts together hold exactly what it started with; no account creation
\* and no transfer makes or destroys a coin.
Conservation == Total(accounts) = Circulation

Amounts(rows) == [t \in rows |-> ledger[t].amount]
SentBy(a)     == {t \in DOMAIN ledger : ledger[t].sender_account_id = a}
ReceivedBy(a) == {t \in DOMAIN ledger : ledger[t].receiver_account_id = a}
Endowment(a)  == IF a = Seed THEN SeedFunds ELSE 0

\* The two tables tell one story: every balance is what the account began with,
\* plus what the ledger says it received, minus what the ledger says it sent.
\* save_transaction writes them with three separate statements.
Audit ==
  \A a \in DOMAIN accounts :
    accounts[a] + Total(Amounts(SentBy(a))) = Endowment(a) + Total(Amounts(ReceivedBy(a)))

\* The schema has no foreign keys: that each ledger row names two existing,
\* different accounts rests on save_transaction's checks alone.
LedgerPartiesExist ==
  \A t \in DOMAIN ledger :
    /\ {ledger[t].sender_account_id, ledger[t].receiver_account_id} \subseteq DOMAIN accounts
    /\ ledger[t].sender_account_id # ledger[t].receiver_account_id
=============================================================================
